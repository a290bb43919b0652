------------------------------- MODULE Console ------------------------------
(***************************************************************************)
(* What a DHT wrapper and the program behind its pipes say to each other,  *)
(* line by line: the wrapper writes a command and reads until it sees the  *)
(* prompt again. PastConsole.java is modelled with its two threads, the    *)
(* consoles of the other DHTs as the wrappers expect them to be. Starting  *)
(* and killing the program is in module WrappedNode; module NodeZero makes *)
(* a specification of these actions.                                       *)
(***************************************************************************)
EXTENDS Integers, Sequences

CONSTANT UsedDhts       \* the wrappers in use

Dhts == {"kaddemo", "openchord", "owdhtshell", "pastconsole"}
ASSUME ConsoleAssumption == UsedDhts \subseteq Dhts

\* "found" has a value; "header" announces the line that has it, "value" or
\* "empty"; "other" is any line the wrappers skip.
Lines == {"prompt", "found", "header", "value", "empty", "other", "nodeId",
          "joinFailed", "bye"}
Requests == {"put", "get", "joinN", "getinfo", "exit"}
\* How a DHT may answer.
Answers == {"found", "notFound", "exception"}

VARIABLES
    dht,
    wrapper,    \* what the wrapper reads for, or "idle" between operations
    ret,        \* the result of doGet
    stdin,      \* commands written and not read
    stdout,     \* lines written and not read
    console,    \* where the main loop of the console is
    pending,    \* the request the DHT has, "printed" once its answer is
    done,       \* done of the continuation
    outcome     \* what the DHT answered last

wrapperVars == <<wrapper, ret>>
consoleVars == <<console, pending, done, outcome>>
dialogueVars == <<dht, wrapperVars, stdin, stdout, consoleVars>>

Reading == {"starting", "joining", "getId", "getIdPrompt", "putting",
            "getting", "gettingLine", "leaving"}

ConsoleTypeOK ==
    /\ dht \in Dhts
    /\ wrapper \in Reading \cup {"idle", "stopped", "failed"}
    /\ ret \in BOOLEAN /\ done \in BOOLEAN
    /\ stdin \in Seq(Requests) /\ stdout \in Seq(Lines)
    /\ console \in {"booting", "prompting", "reading", "calling", "waiting", "dead"}
    /\ pending \in Requests \cup {"none", "printed"}
    /\ outcome \in Answers \cup {"none"}

ConsoleInit ==
    /\ dht \in UsedDhts
    /\ wrapper = "starting" /\ ret = FALSE
    /\ stdin = <<>> /\ stdout = <<>>
    /\ console = "booting" /\ pending = "none"
    /\ done = FALSE /\ outcome = "none"

-----------------------------------------------------------------------------
(* The wrapper *)

\* RWPopen::write; SIGPIPE ends the controller when nobody can read it.
Ask(request, next) ==
    IF console = "dead"
    THEN wrapper' = "failed" /\ UNCHANGED stdin
    ELSE wrapper' = next /\ stdin' = Append(stdin, request)

DoPut ==
    /\ wrapper = "idle"
    /\ Ask("put", "putting")
    /\ UNCHANGED <<ret, stdout, consoleVars>>

\* Mutant: ret is not initialised.
DoGetStale ==
    /\ wrapper = "idle"
    /\ Ask("get", "getting")
    /\ UNCHANGED <<ret, stdout, consoleVars>>

DoGet ==
    /\ wrapper = "idle"
    /\ Ask("get", "getting")
    /\ ret' = FALSE
    /\ UNCHANGED <<stdout, consoleVars>>

DoLeave ==
    /\ wrapper = "idle"
    /\ Ask("exit", IF dht = "pastconsole" THEN "leaving" ELSE "stopped")
    /\ UNCHANGED <<ret, stdout, consoleVars>>

\* What the wrapper reads for after a line that it does not answer.
After(line) ==
    CASE wrapper = "getId" /\ line = "nodeId" -> "getIdPrompt"
      [] wrapper = "getting" /\ line = "header" -> "gettingLine"
      [] wrapper = "gettingLine" -> "getting"
      [] wrapper = "leaving" /\ line = "bye" -> "stopped"
      [] wrapper \notin {"getId", "gettingLine", "leaving"} /\ line = "prompt" -> "idle"
      [] OTHER -> wrapper

\* The lines that make doGet true: the one that says so, or the one after the
\* header.
SaysFound(line) ==
    IF dht \in {"owdhtshell", "pastconsole"}
    THEN wrapper = "getting" /\ line = "found"
    ELSE wrapper = "gettingLine" /\ line = "value"

\* The lines that it answers, in doJoin only.
Reply(line) ==
    CASE wrapper = "starting" /\ line = "prompt" /\ dht = "openchord" ->
            Ask("joinN", "joining")
      [] wrapper = "joining" /\ line = "joinFailed" -> Ask("exit", "stopped")
      [] wrapper = "starting" /\ line = "prompt" /\ dht = "kaddemo" ->
            Ask("getinfo", "getId")
      [] OTHER -> wrapper' = After(line) /\ UNCHANGED stdin

ReadLine ==
    /\ wrapper \in Reading /\ stdout # <<>>
    /\ stdout' = Tail(stdout)
    /\ ret' = (ret \/ SaysFound(Head(stdout)))
    /\ Reply(Head(stdout))
    /\ UNCHANGED consoleVars

\* RWPopenEOF: a join is given up, anything else ends the controller.
ReadEof ==
    /\ wrapper \in Reading /\ stdout = <<>> /\ console = "dead"
    /\ wrapper' = IF wrapper \in {"starting", "joining"} /\ dht # "kaddemo"
                  THEN "stopped" ELSE "failed"
    /\ UNCHANGED <<ret, stdin, stdout, consoleVars>>

\* The next doJoin, a retry or an event of the workload, starts a new program.
DoJoin ==
    /\ wrapper = "stopped"
    /\ wrapper' = "starting" /\ ret' = FALSE
    /\ stdin' = <<>> /\ stdout' = <<>>
    /\ console' = "booting" /\ pending' = "none"
    /\ done' = FALSE /\ outcome' = "none"

-----------------------------------------------------------------------------
(* The console *)

Say(lines) == stdout' = stdout \o lines

\* The constructor of PastConsole, or the start of another program: it joins
\* its DHT, or says why not and exits.
Boot ==
    /\ console = "booting"
    /\ Say(<<"other">>)
    /\ console' \in {"prompting", "dead"}
    /\ UNCHANGED <<wrapperVars, stdin, pending, done, outcome>>

Prompt ==
    /\ console = "prompting"
    /\ Say(<<"prompt">>)
    /\ console' = "reading"
    /\ UNCHANGED <<wrapperVars, stdin, pending, done, outcome>>

\* nextLine(): exit, or a request to the DHT.
NextLine ==
    /\ console = "reading" /\ stdin # <<>>
    /\ stdin' = Tail(stdin)
    /\ IF Head(stdin) = "exit"
       THEN /\ Say(<<"bye">>) /\ console' = "dead"
            /\ UNCHANGED <<pending, done>>
       ELSE /\ console' = "calling"
            /\ pending' = Head(stdin) /\ done' = FALSE
            /\ UNCHANGED stdout
    /\ UNCHANGED <<wrapperVars, outcome>>

\* The wrapper has closed its end of the pipe.
EndOfInput ==
    /\ console = "reading" /\ stdin = <<>>
    /\ wrapper \in {"stopped", "failed"}
    /\ Say(<<"bye">>) /\ console' = "dead"
    /\ UNCHANGED <<wrapperVars, stdin, pending, done, outcome>>

\* waitDone() of PastConsole begins. The others only call.
Waiting ==
    /\ console = "calling"
    /\ Say(IF dht = "pastconsole" THEN <<"other">> ELSE <<>>)
    /\ console' = "waiting"
    /\ UNCHANGED <<wrapperVars, stdin, pending, done, outcome>>

\* What is printed for an answer.
AnswerLines(request, answer) ==
    CASE request = "joinN" /\ answer # "found" -> <<"joinFailed">>
      [] request = "getinfo" -> <<"other", "nodeId", "other">>
      [] request = "get" /\ dht = "openchord" ->
            <<"header", IF answer = "found" THEN "value" ELSE "empty">>
      [] request = "get" /\ dht = "kaddemo" /\ answer = "found" ->
            <<"header", "value">>
      [] request = "get" /\ dht \in {"owdhtshell", "pastconsole"} /\ answer = "found" ->
            <<"found">>
      [] OTHER -> <<"other">>

\* Mutant: done is set before the answer is printed.
ReceiveDoneFirst(answer) ==
    /\ pending \in Requests /\ console # "dead"
    /\ \/ ~done /\ done' = TRUE /\ UNCHANGED <<pending, stdout, outcome>>
       \/ /\ done
          /\ Say(AnswerLines(pending, answer))
          /\ outcome' = answer /\ pending' = "none" /\ UNCHANGED done
    /\ UNCHANGED <<wrapperVars, stdin, console>>

\* receiveResult and receiveException, in a thread of the DHT that may be
\* faster than waitDone(): the line is printed and then done is set.
Receive(answer) ==
    /\ pending \in Requests /\ console # "dead"
    /\ Say(AnswerLines(pending, answer))
    /\ outcome' = answer
    /\ pending' = "printed"
    /\ UNCHANGED <<wrapperVars, stdin, console, done>>

\* Mutant: receiveException forgets done.
SetDoneUnlessException ==
    /\ pending = "printed" /\ console # "dead"
    /\ done' = (outcome # "exception") /\ pending' = "none"
    /\ UNCHANGED <<wrapperVars, stdin, stdout, console, outcome>>

SetDone ==
    /\ pending = "printed" /\ console # "dead"
    /\ done' = TRUE /\ pending' = "none"
    /\ UNCHANGED <<wrapperVars, stdin, stdout, console, outcome>>

\* The loop of waitDone() sees done, sooner or later or never: done is not
\* volatile and the loop only sleeps. That the answer is printed before done
\* is seen rests on the lock of System.out, which both threads print under.
WaitDone ==
    /\ console = "waiting" /\ done
    /\ Say(IF dht = "pastconsole" THEN <<"other">> ELSE <<>>)
    /\ console' = "prompting"
    /\ UNCHANGED <<wrapperVars, stdin, pending, done, outcome>>

\* A crash.
Die ==
    /\ console # "dead"
    /\ console' = "dead"
    /\ UNCHANGED <<wrapperVars, stdin, stdout, pending, done, outcome>>

WrapperStep == UNCHANGED dht /\ (ReadLine \/ ReadEof)
ConsoleStep ==
    /\ UNCHANGED dht
    /\ Boot \/ Prompt \/ NextLine \/ EndOfInput \/ Waiting
SeesDone == UNCHANGED dht /\ WaitDone
DhtAnswers ==
    /\ UNCHANGED dht
    /\ SetDone \/ \E answer \in Answers : Receive(answer)

-----------------------------------------------------------------------------
(***************************************************************************)
(* Between two operations the pipes are empty and the console waits for a  *)
(* command, unless it died: no line of one operation is read by the next,  *)
(* although the DHT's thread and the main thread of the console print      *)
(* concurrently.                                                           *)
(***************************************************************************)
InSync ==
    wrapper = "idle" =>
        stdout = <<>> /\ stdin = <<>> /\ console \in {"reading", "dead"}

(***************************************************************************)
(* The result of doGet is what the DHT answered to that get: the success   *)
(* rate counts real answers. It is compared when the prompt has been read  *)
(* and nothing has been asked since.                                       *)
(***************************************************************************)
GetTellsTheTruth ==
    [][wrapper = "getting" /\ wrapper' = "idle" => ret' = (outcome = "found")]_dialogueVars

\* The main thread of PastConsole polls a value of done that it read before
\* the thread of the DHT set it.
NeverSeesDone == dht = "pastconsole" /\ console = "waiting" /\ done

(***************************************************************************)
(* When the DHT answers, every operation of the wrapper comes to its end,  *)
(* unless the loop of waitDone() never sees that done was set: no answer   *)
(* and no end of either program leaves the wrapper reading for ever.       *)
(***************************************************************************)
OperationsReturn ==
    <>[]NeverSeesDone \/ (wrapper \in Reading ~> wrapper \notin Reading)
=============================================================================
