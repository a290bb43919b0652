---------------------------- MODULE WrappedNode -----------------------------
(***************************************************************************)
(* A controller process whose DHT is another program: RWPopen starts it    *)
(* behind two pipes, Wrapper waits for its prompt and stops it, the DHT    *)
(* wrappers join, put, get and leave through it. The main thread does all  *)
(* this without a lock while the timeout thread may delete the same node:  *)
(* cleanupMutex_ orders only the two calls of cleanup(). What the lines    *)
(* say is in module Console.                                               *)
(***************************************************************************)
EXTENDS Integers, Sequences

CONSTANTS
    UsedDhts,           \* the wrappers DhtNode::make may be asked for
    MaxChildren         \* bound on the number of programs started

Dhts == {"kaddemo", "openchord", "owdhtshell", "pastconsole"}

ASSUME WrappedAssumption ==
    UsedDhts \subseteq Dhts /\ MaxChildren \in Nat \ {0}

Threads == {"main", "timer"}
Nobody == "nobody"

VARIABLES
    dht,            \* the wrapper in use
    pc,             \* where each thread is
    children,       \* every program started, oldest first
    wrapped,        \* wrapped_: index in children, 0 for NULL
    target,         \* the RWPopen each thread deletes
    fds,            \* in_ and out_; the next RWPopen gets the same numbers
    why,            \* what the main thread stops the program for
    connected,      \* connected_
    dhtNode,        \* dhtNode_ is not NULL
    mutex,          \* the owner of cleanupMutex_
    process         \* "running", or how the controller ended

pipeVars == <<children, wrapped, target, fds>>
nodeVars == <<why, connected, dhtNode, mutex>>
vars == <<dht, pc, pipeVars, nodeVars, process>>

\* doJoin catches RWPopenEOF, but for KaddemoWrapper's.
CatchesEof == dht # "kaddemo"
\* The wrapper that calls RWPopen(const char *), which runs /bin/sh -c.
RunsShell == dht = "kaddemo"

\* state: the process fork() made; inner: the program runs as a child of that
\* shell; term: SIGTERM was sent.
Child == [state : {"running", "zombie", "reaped"}, inner : BOOLEAN,
          term : BOOLEAN]
Deleting == {"delete", "close", "kill", "wait", "reset"}
Places == {"ready", "forked", "joining", "operating", "leaving", "retry",
           "report", "sleep", "lock", "unlock", "join", "exit", "ended"} \cup Deleting

TypeOK ==
    /\ dht \in Dhts
    /\ pc \in [Threads -> Places]
    /\ children \in Seq(Child) /\ Len(children) <= MaxChildren
    /\ wrapped \in 0 .. Len(children)
    /\ target \in [Threads -> 0 .. Len(children)]
    /\ fds \in {"open", "closed"}
    /\ why \in {"retry", "left", "destroy"}
    /\ connected \in BOOLEAN /\ dhtNode \in BOOLEAN
    /\ mutex \in Threads \cup {Nobody}
    /\ process \in {"running", "done", "failed"}

\* start() has created the timeout thread.
Init ==
    /\ dht \in UsedDhts
    /\ pc = [t \in Threads |-> IF t = "main" THEN "ready" ELSE "sleep"]
    /\ children = <<>> /\ wrapped = 0 /\ fds = "closed"
    /\ target = [t \in Threads |-> 0]
    /\ why = "left" /\ connected = FALSE /\ dhtNode = TRUE
    /\ mutex = Nobody /\ process = "running"

At(t, place) == process = "running" /\ pc[t] = place
Goto(t, place) == pc' = [pc EXCEPT ![t] = place]
Exit(how) == process' = how /\ UNCHANGED pc
\* delete of the RWPopen that wrapped_ holds now.
StartDelete(t) == Goto(t, "close") /\ target' = [target EXCEPT ![t] = wrapped]

-----------------------------------------------------------------------------
(* The operations of the node, in the main thread *)

\* new RWPopen(command): the program runs before wrapped_ knows of it. A shell
\* may run it as a child of its own, or become it.
Fork ==
    /\ (At("main", "ready") /\ ~connected) \/ At("main", "retry")
    /\ Len(children) < MaxChildren
    /\ \E inner \in (IF RunsShell THEN BOOLEAN ELSE {FALSE}) :
          children' = Append(children, [state |-> "running", inner |-> inner,
                                        term |-> FALSE])
    /\ fds' = "open"
    /\ Goto("main", "forked")
    /\ UNCHANGED <<wrapped, target, nodeVars, process>>

\* wrapped_ = ..., and the wait for the prompt begins.
Assign ==
    /\ At("main", "forked")
    /\ wrapped' = Len(children)
    /\ Goto("main", "joining")
    /\ UNCHANGED <<children, target, fds, nodeVars, process>>

\* What the wrapper reads until it has its prompt.
JoinSucceeds ==
    /\ At("main", "joining") /\ fds = "open"
    /\ connected' = TRUE
    /\ Goto("main", "ready")
    /\ UNCHANGED <<pipeVars, why, dhtNode, mutex, process>>

\* "Join/Creation of network failed." of openchord: exit is written, and the
\* program is stopped.
JoinFails ==
    /\ dht = "openchord"
    /\ At("main", "joining") /\ fds = "open"
    /\ why' = "retry"
    /\ StartDelete("main")
    /\ UNCHANGED <<children, wrapped, fds, connected, dhtNode, mutex, process>>

\* read() returns 0: nobody has the other end any more.
Eof == wrapped # 0 /\ children[wrapped].state # "running" /\ ~children[wrapped].inner

\* Mutant: the catch block returns false and stops nothing.
JoinEofNoStop ==
    /\ At("main", "joining") /\ Eof
    /\ IF CatchesEof
       THEN Goto("main", "retry") /\ why' = "retry" /\ UNCHANGED process
       ELSE Exit("failed") /\ UNCHANGED why
    /\ UNCHANGED <<pipeVars, connected, dhtNode, mutex>>

JoinEof ==
    /\ At("main", "joining") /\ Eof
    /\ IF CatchesEof
       THEN StartDelete("main") /\ why' = "retry" /\ UNCHANGED process
       ELSE Exit("failed") /\ UNCHANGED <<why, target>>
    /\ UNCHANGED <<children, wrapped, fds, connected, dhtNode, mutex>>

\* doPut and doGet write a command and read until the prompt; RWPopenEOF is
\* not caught.
Operate ==
    /\ At("main", "ready") /\ connected
    /\ Goto("main", "operating")
    /\ UNCHANGED <<pipeVars, nodeVars, process>>

OperationReturns ==
    /\ At("main", "operating") /\ fds = "open"
    /\ Goto("main", "ready")
    /\ UNCHANGED <<pipeVars, nodeVars, process>>

\* doLeave writes the command that ends the program.
Leave ==
    /\ At("main", "ready") /\ connected
    /\ why' = "left"
    /\ Goto("main", "leaving")
    /\ UNCHANGED <<pipeVars, connected, dhtNode, mutex, process>>

\* stopWrapped(); PastConsoleWrapper reads until "Bye!" first.
Bye ==
    /\ At("main", "leaving") /\ fds = "open"
    /\ StartDelete("main")
    /\ UNCHANGED <<children, wrapped, fds, nodeVars, process>>

\* An uncaught RWPopenEOF, the SIGPIPE of a write to a dead program, or the
\* EBADF of a read when the other thread has closed in_.
PipeError ==
    /\ \/ At("main", "operating") /\ Eof
       \/ At("main", "leaving") /\ Eof
       \/ At("main", "joining") /\ Eof /\ dht = "openchord"
       \/ /\ \E p \in {"joining", "operating", "leaving"} : At("main", p)
          /\ fds = "closed"
    /\ Exit("failed")
    /\ UNCHANGED <<pipeVars, nodeVars>>

\* pipe() or fork() fails in initAndFork.
ForkFails ==
    /\ (At("main", "ready") /\ ~connected) \/ At("main", "retry")
    /\ Exit("failed")
    /\ UNCHANGED <<pipeVars, nodeVars>>

\* start() returned and the results are being written.
ReportResults ==
    /\ At("main", "ready")
    /\ Goto("main", "report")
    /\ UNCHANGED <<pipeVars, nodeVars, process>>

\* The destructor of the controller calls cleanup().
Destroy ==
    /\ At("main", "report")
    /\ why' = "destroy"
    /\ Goto("main", "lock")
    /\ UNCHANGED <<pipeVars, connected, dhtNode, mutex, process>>

-----------------------------------------------------------------------------
(* cleanup() and ~RWPopen, in either thread *)

\* The sleep of timeoutThreadFunction is over; start() has returned by then,
\* or an operation has not.
TimeoutFires ==
    /\ At("timer", "sleep") /\ pc["main"] # "ready"
    /\ Goto("timer", "lock")
    /\ UNCHANGED <<pipeVars, nodeVars, process>>

Lock(t) ==
    /\ At(t, "lock") /\ mutex = Nobody
    /\ mutex' = t
    /\ Goto(t, "delete")
    /\ UNCHANGED <<pipeVars, why, connected, dhtNode, process>>

\* dhtNode_.reset(): nothing for NULL, ~RWPopen if there is a program.
DeleteNode(t) ==
    /\ At(t, "delete")
    /\ IF dhtNode /\ wrapped # 0
       THEN StartDelete(t) /\ UNCHANGED dhtNode
       ELSE Goto(t, "unlock") /\ dhtNode' = FALSE /\ UNCHANGED target
    /\ UNCHANGED <<children, wrapped, fds, why, connected, mutex, process>>

\* Mutant: the result of close() is not looked at.
CloseUnchecked(t) ==
    /\ At(t, "close")
    /\ fds' = "closed" /\ Goto(t, "kill")
    /\ UNCHANGED <<children, wrapped, target, nodeVars, process>>

Close(t) ==
    /\ At(t, "close")
    /\ IF fds = "open"
       THEN fds' = "closed" /\ Goto(t, "kill") /\ UNCHANGED process
       ELSE Exit("failed") /\ UNCHANGED fds
    /\ UNCHANGED <<children, wrapped, target, nodeVars>>

\* Mutant: signal 0, which only asks whether the process exists.
KillNothing(t) ==
    /\ At(t, "kill")
    /\ IF children[target[t]].state # "reaped"
       THEN Goto(t, "wait") /\ UNCHANGED process
       ELSE Exit("failed")
    /\ UNCHANGED <<pipeVars, nodeVars>>

\* kill(childPid_, SIGTERM) finds a process until somebody has waited for it.
Kill(t) ==
    /\ At(t, "kill")
    /\ IF children[target[t]].state # "reaped"
       THEN /\ children' = [children EXCEPT ![target[t]].term = TRUE]
            /\ Goto(t, "wait") /\ UNCHANGED process
       ELSE Exit("failed") /\ UNCHANGED children
    /\ UNCHANGED <<wrapped, target, fds, nodeVars>>

\* while (wait(&status) != childPid_): once the program is reaped, wait()
\* fails and the loop never ends.
Wait(t) ==
    /\ At(t, "wait") /\ children[target[t]].state = "zombie"
    /\ children' = [children EXCEPT ![target[t]].state = "reaped"]
    /\ Goto(t, "reset")
    /\ UNCHANGED <<wrapped, target, fds, nodeVars, process>>

\* The delete is over: stopWrapped resets wrapped_, calls kill(SIGTERM, 0),
\* which reaches nobody, and returns to doJoin or doLeave; cleanup() goes on.
Reset(t) ==
    /\ At(t, "reset")
    /\ IF t = "main" /\ why # "destroy"
       THEN /\ wrapped' = 0
            /\ connected' = FALSE
            /\ Goto(t, IF why = "retry" THEN "retry" ELSE "ready")
            /\ UNCHANGED dhtNode
       ELSE /\ dhtNode' = FALSE
            /\ Goto(t, "unlock")
            /\ UNCHANGED <<wrapped, connected>>
    /\ UNCHANGED <<children, target, fds, why, mutex, process>>

\* cleanup() returns. The main thread then interrupts the other one: that
\* ends a sleep, not the wait for a mutex.
Unlock(t) ==
    /\ At(t, "unlock")
    /\ mutex' = Nobody
    /\ pc' = IF t = "main"
             THEN [pc EXCEPT !["main"] = "join",
                             !["timer"] = IF @ = "sleep" THEN "ended" ELSE @]
             ELSE [pc EXCEPT !["timer"] = "exit"]
    /\ UNCHANGED <<pipeVars, why, connected, dhtNode, process>>

\* timeoutThread_.join() returns, and so does main.
Return ==
    /\ At("main", "join") /\ pc["timer"] = "ended"
    /\ Exit("done")
    /\ UNCHANGED <<pipeVars, nodeVars>>

ExitFailure ==
    /\ At("timer", "exit")
    /\ Exit("failed")
    /\ UNCHANGED <<pipeVars, nodeVars>>

\* The node is deleted under the feet of the main thread: any use crashes, or
\* goes on as if nothing had happened.
UseAfterFree ==
    /\ process = "running" /\ ~dhtNode
    /\ pc["main"] \notin {"lock", "delete", "unlock", "join"}
    /\ Exit("failed")
    /\ UNCHANGED <<pipeVars, nodeVars>>

-----------------------------------------------------------------------------
(* The program *)

\* It ends for a reason of its own: a crash, a failed join, the end of its
\* input.
ChildEnds(k) ==
    /\ children[k].state = "running"
    /\ children' = [children EXCEPT ![k].state = "zombie"]
    /\ UNCHANGED <<pc, wrapped, target, fds, nodeVars, process>>

InnerEnds(k) ==
    /\ children[k].inner
    /\ children' = [children EXCEPT ![k].inner = FALSE]
    /\ UNCHANGED <<pc, wrapped, target, fds, nodeVars, process>>

MainOwes ==
    \/ Assign \/ JoinEof \/ PipeError \/ Destroy \/ Return
    \/ dht # "pastconsole" /\ Bye
    \/ Lock("main") \/ DeleteNode("main") \/ Close("main") \/ Kill("main")
    \/ Wait("main") \/ Reset("main") \/ Unlock("main")
TimerOwes ==
    \/ TimeoutFires \/ ExitFailure
    \/ Lock("timer") \/ DeleteNode("timer") \/ Close("timer") \/ Kill("timer")
    \/ Wait("timer") \/ Reset("timer") \/ Unlock("timer")

\* The controller ended.
Over == process # "running" /\ UNCHANGED vars

Next ==
    /\ UNCHANGED dht
    /\ \/ Fork \/ ForkFails \/ JoinSucceeds \/ JoinFails \/ Operate \/ OperationReturns
       \/ Leave \/ Bye \/ ReportResults
       \/ MainOwes \/ TimerOwes \/ UseAfterFree
       \/ \E k \in 1 .. Len(children) : ChildEnds(k) \/ InnerEnds(k)
       \/ Over

Spec == Init /\ [][Next]_vars

(***************************************************************************)
(* The threads run, and start() returns unless an operation does not.      *)
(* Nothing is assumed of the program: it may say nothing for ever, and it  *)
(* need not obey a signal.                                                 *)
(***************************************************************************)
Fairness ==
    /\ WF_vars(UNCHANGED dht /\ MainOwes) /\ WF_vars(UNCHANGED dht /\ TimerOwes)
    /\ SF_vars(UNCHANGED dht /\ ReportResults)

FairSpec == Spec /\ Fairness

-----------------------------------------------------------------------------
(***************************************************************************)
(* Both threads may delete the same RWPopen, at any point of each other's  *)
(* delete; none of them is left in the wait() loop of ~RWPopen after the   *)
(* other has reaped the program, where it would spin for ever.             *)
(***************************************************************************)
NobodySpins ==
    process = "running" =>
        \A t \in Threads : pc[t] = "wait" => children[target[t]].state # "reaped"

(***************************************************************************)
(* However often a node leaves and rejoins or a join is retried, the       *)
(* process of the last time was stopped and waited for before the next one *)
(* is started: they would share the port and the directory. (What a shell  *)
(* of KaddemoWrapper ran as its child gets no signal, and may live on.)    *)
(***************************************************************************)
OneProgramAtATime ==
    \A k \in 1 .. Len(children) - 1 : children[k].state = "reaped"

(***************************************************************************)
(* "We're going to kill our all our children later": when main returns,    *)
(* whatever the node last did, every process it forked is dead and waited  *)
(* for.                                                                    *)
(***************************************************************************)
NothingSurvives ==
    process = "done" =>
        \A k \in 1 .. Len(children) : children[k].state = "reaped"

(***************************************************************************)
(* "DhtNode operations might never end. That's why we have the timeout     *)
(* thread": the controller process ends, unless it waits in ~RWPopen for a *)
(* program that ignores its SIGTERM for ever.                              *)
(***************************************************************************)
Deaf(child) == child.state = "running" /\ child.term
ProcessEnds ==
    \/ <>(process # "running")
    \/ <>[](\E k \in 1 .. Len(children) : Deaf(children[k]))

(***************************************************************************)
(* Every path through joins, retries, leaves and deletes, of both threads, *)
(* stops and reaps what it started, before the next start and the end.     *)
(***************************************************************************)
ProgramInvariant == TypeOK /\ OneProgramAtATime /\ NothingSurvives
=============================================================================
