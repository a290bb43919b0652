--------------------------- MODULE NodeZeroProofs ---------------------------
(***************************************************************************)
(* Theorems about the dialogue of a wrapper with its program and about     *)
(* kaddemo's id server, for any DHTs, any other nodes and any number of    *)
(* stays.                                                                  *)
(***************************************************************************)
EXTENDS NodeZero, TLAPS

\* The wrapper is in a dialogue: it asks and reads for the prompt.
Talking == (Reading \ {"leaving"}) \cup {"idle"}

\* The console has one request at a time, and goes on when done is set.
ConsoleInvariant ==
    /\ console \in {"booting", "prompting", "reading"} => pending = "none"
    /\ console \in {"calling", "waiting"} => (done <=> pending = "none")

\* The prompt is the last line of the console's turn, and its turn begins with
\* the one request of the wrapper.
TurnInvariant ==
    wrapper \in Talking =>
        /\ InSync
        /\ \A i \in 1 .. Len(stdout) : stdout[i] = "prompt" =>
              i = Len(stdout) /\ stdin = <<>> /\ console \in {"reading", "dead"}
        /\ stdin # <<>> =>
              Len(stdin) = 1 /\ stdout = <<>> /\ console \in {"reading", "dead"}

\* The line that makes doGet true.
FoundLine == IF dht \in {"owdhtshell", "pastconsole"} THEN "found" ELSE "value"
Has(line) == \E i \in 1 .. Len(stdout) : stdout[i] = line

\* The answer to a get: not asked yet, asked, or known to the wrapper or on its
\* way to it.
AnswerInvariant ==
    \/ stdin = <<"get">> /\ stdout = <<>> /\ pending = "none" /\ ~ret
    \/ /\ stdin = <<>> /\ pending = "get" /\ ~ret
       /\ ~Has(FoundLine) /\ ~Has("prompt")
    \/ /\ stdin = <<>> /\ pending \in {"printed", "none"}
       /\ outcome = "found" <=> (ret \/ Has(FoundLine))

\* The line after the header belongs to it.
HeaderInvariant ==
    /\ \A i \in 1 .. Len(stdout) : stdout[i] = "header" =>
          i < Len(stdout) /\ stdout[i + 1] \in {"value", "empty"}
    /\ \A i \in 1 .. Len(stdout) : stdout[i] = "value" =>
          IF i = 1 THEN wrapper = "gettingLine" ELSE stdout[i - 1] = "header"
    /\ wrapper = "gettingLine" => stdout # <<>> /\ stdout[1] \in {"value", "empty"}

GetInvariant ==
    wrapper \in {"getting", "gettingLine"} => AnswerInvariant /\ HeaderInvariant

TalkInvariant == ConsoleTypeOK /\ ConsoleInvariant /\ TurnInvariant /\ GetInvariant

\* A server lives within a stay, and listens with the id of that stay.
ServerInvariant ==
    /\ zero \in {"started", "joined", "leaving", "deleted"} => stays > 0
    /\ zero \in {"joined", "leaving", "deleted"} => id > 0
    /\ server # "none" => zero \in {"joined", "leaving", "deleted"}
    /\ server = "listening" => serverId = id
    /\ \A n \in Nodes : node[n] \in {"answered", "hasId"} => got[n] # 0

IdInvariant == IdTypeOK /\ ServerInvariant

-----------------------------------------------------------------------------
(* Lines *)

\* A line is read.
LEMMA TailIs ==
    ASSUME NEW S, NEW s \in Seq(S), s # <<>>
    PROVE  /\ Tail(s) \in Seq(S) /\ Len(Tail(s)) = Len(s) - 1 /\ Len(s) \in Nat \ {0}
           /\ \A i \in 1 .. Len(s) - 1 : Tail(s)[i] = s[i + 1]
           /\ Head(s) = s[1] /\ Head(s) \in S
  <1>1. Len(s) \in Nat \ {0}
    OBVIOUS
  <1>2. Tail(s) \in Seq(S) /\ Len(Tail(s)) = Len(s) - 1
    OBVIOUS
  <1>3. \A i \in 1 .. Len(s) - 1 : Tail(s)[i] = s[i + 1]
    OBVIOUS
  <1>4. Head(s) = s[1] /\ Head(s) \in S
    BY <1>1
  <1> QED  BY <1>1, <1>2, <1>3, <1>4

\* Lines are written.
LEMMA SayIs ==
    ASSUME NEW S, NEW s \in Seq(S), NEW t \in Seq(S)
    PROVE  /\ s \o t \in Seq(S) /\ Len(s \o t) = Len(s) + Len(t)
           /\ Len(s) \in Nat /\ Len(t) \in Nat
           /\ \A i \in 1 .. Len(s) : (s \o t)[i] = s[i]
           /\ \A i \in 1 .. Len(s \o t) : i > Len(s) => (s \o t)[i] = t[i - Len(s)]
  OBVIOUS

\* One more request in an empty pipe.
LEMMA AskIs ==
    ASSUME NEW r \in Requests
    PROVE  Append(<<>>, r) = <<r>> /\ <<r>> \in Seq(Requests) /\ Len(<<r>>) = 1
  OBVIOUS

-----------------------------------------------------------------------------
(* The console's steps *)

\* Lines that the wrapper skips, before the prompt.
LEMMA MutterStep ==
    ASSUME TalkInvariant, Boot \/ Waiting \/ WaitDone, UNCHANGED dht
    PROVE  TalkInvariant'
  <1>1. PICK t \in {<<>>, <<"other">>} : stdout' = stdout \o t
    BY DEF Boot, Waiting, WaitDone, Say
  <1>2. /\ UNCHANGED <<dht, wrapper, ret, stdin, pending, done, outcome>>
        /\ \/ console = "booting" /\ console' \in {"prompting", "dead"}
           \/ console = "calling" /\ console' = "waiting"
           \/ console = "waiting" /\ done /\ console' = "prompting"
    BY DEF Boot, Waiting, WaitDone, wrapperVars
  <1>3. /\ stdout \in Seq(Lines) /\ t \in Seq(Lines) /\ Len(t) \in {0, 1}
        /\ \A i \in 1 .. Len(t) : t[i] = "other"
    <2>1. stdout \in Seq(Lines) /\ "other" \in Lines
      BY DEF TalkInvariant, ConsoleTypeOK, Lines
    <2>2. CASE t = <<>>
      BY <2>1, <2>2
    <2>3. CASE t = <<"other">>
      BY <2>1, <2>3
    <2> QED  BY <1>1, <2>2, <2>3
  <1>4. /\ stdout' \in Seq(Lines) /\ Len(stdout) \in Nat
        /\ Len(stdout') \in {Len(stdout), Len(stdout) + 1}
        /\ \A i \in 1 .. Len(stdout) : stdout'[i] = stdout[i]
        /\ \A i \in 1 .. Len(stdout') : i > Len(stdout) => stdout'[i] = "other"
    BY <1>1, <1>3, SayIs
  <1>5. ConsoleTypeOK' /\ ConsoleInvariant'
    BY <1>2, <1>4 DEF TalkInvariant, ConsoleTypeOK, ConsoleInvariant
  <1>6. wrapper \in Talking => /\ wrapper # "idle" /\ stdin = <<>>
                               /\ \A i \in 1 .. Len(stdout) : stdout[i] # "prompt"
    BY <1>2 DEF TalkInvariant, TurnInvariant, InSync
  <1>7. TurnInvariant'
    BY <1>2, <1>4, <1>6 DEF TurnInvariant, InSync
  <1>8. GetInvariant'
    <2> SUFFICES ASSUME wrapper \in {"getting", "gettingLine"}
                 PROVE  AnswerInvariant' /\ HeaderInvariant'
      BY <1>2 DEF GetInvariant
    <2>1. stdin = <<>> /\ AnswerInvariant /\ HeaderInvariant
      BY <1>6 DEF TalkInvariant, GetInvariant, Talking, Reading
    <2>2. PICK mark \in {"found", "value"} : mark = FoundLine /\ FoundLine' = mark
      BY <1>2 DEF FoundLine
    <2>3. \A line \in {"found", "value", "prompt"} :
             (\E i \in 1 .. Len(stdout') : stdout'[i] = line) <=>
             (\E i \in 1 .. Len(stdout) : stdout[i] = line)
      BY <1>4
    <2>4. AnswerInvariant'
      BY <1>2, <2>1, <2>2, <2>3 DEF AnswerInvariant, Has
    <2>5. HeaderInvariant'
      BY <1>2, <1>4, <2>1 DEF HeaderInvariant
    <2> QED  BY <2>4, <2>5
  <1> QED  BY <1>5, <1>7, <1>8 DEF TalkInvariant

\* The prompt ends the console's turn.
LEMMA PromptStep ==
    ASSUME TalkInvariant, Prompt, UNCHANGED dht
    PROVE  TalkInvariant'
  <1>1. /\ UNCHANGED <<dht, wrapper, ret, stdin, pending, done, outcome>>
        /\ console = "prompting" /\ console' = "reading"
        /\ stdout' = stdout \o <<"prompt">>
    BY DEF Prompt, wrapperVars, Say
  <1>2. stdout \in Seq(Lines) /\ <<"prompt">> \in Seq(Lines) /\ Len(<<"prompt">>) = 1
    BY DEF TalkInvariant, ConsoleTypeOK, Lines
  <1>3. /\ stdout' \in Seq(Lines) /\ Len(stdout) \in Nat
        /\ Len(stdout') = Len(stdout) + 1
        /\ \A i \in 1 .. Len(stdout) : stdout'[i] = stdout[i]
        /\ stdout'[Len(stdout) + 1] = "prompt"
    BY <1>1, <1>2, SayIs
  <1>4. ConsoleTypeOK' /\ ConsoleInvariant'
    BY <1>1, <1>3 DEF TalkInvariant, ConsoleTypeOK, ConsoleInvariant
  <1>5. wrapper \in Talking => /\ wrapper # "idle" /\ stdin = <<>> /\ pending = "none"
                               /\ \A i \in 1 .. Len(stdout) : stdout[i] # "prompt"
    BY <1>1 DEF TalkInvariant, TurnInvariant, InSync, ConsoleInvariant
  <1>6. TurnInvariant'
    BY <1>1, <1>3, <1>5 DEF TurnInvariant, InSync
  <1>7. GetInvariant'
    <2> SUFFICES ASSUME wrapper \in {"getting", "gettingLine"}
                 PROVE  AnswerInvariant' /\ HeaderInvariant'
      BY <1>1 DEF GetInvariant
    <2>1. stdin = <<>> /\ pending = "none" /\ AnswerInvariant /\ HeaderInvariant
      BY <1>5 DEF TalkInvariant, GetInvariant, Talking, Reading
    <2>2. PICK mark \in {"found", "value"} : mark = FoundLine /\ FoundLine' = mark
      BY <1>1 DEF FoundLine
    <2>3. \A line \in {"found", "value"} :
             (\E i \in 1 .. Len(stdout') : stdout'[i] = line) <=>
             (\E i \in 1 .. Len(stdout) : stdout[i] = line)
      BY <1>3
    <2>4. AnswerInvariant'
      BY <1>1, <2>1, <2>2, <2>3 DEF AnswerInvariant, Has
    <2>5. HeaderInvariant'
      BY <1>1, <1>3, <2>1 DEF HeaderInvariant
    <2> QED  BY <2>4, <2>5
  <1> QED  BY <1>4, <1>6, <1>7 DEF TalkInvariant

\* The console takes the request, and has said nothing since its prompt.
LEMMA NextLineStep ==
    ASSUME TalkInvariant, NextLine, UNCHANGED dht
    PROVE  TalkInvariant'
  <1>1. /\ UNCHANGED <<dht, wrapper, ret, outcome>> /\ console = "reading"
        /\ stdin # <<>> /\ stdin' = Tail(stdin)
    BY DEF NextLine, wrapperVars
  <1>2. /\ stdin' \in Seq(Requests) /\ Len(stdin') = Len(stdin) - 1 /\ Head(stdin) \in Requests
        /\ Head(stdin) = stdin[1] /\ stdout \in Seq(Lines) /\ pending = "none"
    BY <1>1, TailIs DEF TalkInvariant, ConsoleTypeOK, ConsoleInvariant
  <1>3. wrapper \in Talking => stdin' = <<>> /\ stdout = <<>> /\ wrapper # "idle"
    BY <1>1, <1>2 DEF TalkInvariant, TurnInvariant, InSync
  <1>4. CASE Head(stdin) = "exit"
    <2>1. /\ stdout' = stdout \o <<"bye">> /\ console' = "dead" /\ UNCHANGED <<pending, done>>
      BY <1>4 DEF NextLine, Say
    <2>2. <<"bye">> \in Seq(Lines) /\ Len(<<"bye">>) = 1
      BY DEF Lines
    <2>3. stdout' \in Seq(Lines) /\ (stdout = <<>> => Len(stdout') = 1 /\ stdout'[1] = "bye")
      BY <1>2, <2>1, <2>2, SayIs
    <2>4. ConsoleTypeOK' /\ ConsoleInvariant'
      BY <1>1, <1>2, <2>1, <2>3 DEF TalkInvariant, ConsoleTypeOK, ConsoleInvariant
    <2>5. TurnInvariant'
      <3> SUFFICES ASSUME wrapper \in Talking PROVE TurnInvariant'
        BY <1>1 DEF TurnInvariant
      <3>1. \A i \in 1 .. Len(stdout') : stdout'[i] # "prompt"
        <4>1. stdout = <<>>
          BY <1>3
        <4>2. Len(stdout') = 1 /\ stdout'[1] = "bye"
          BY <2>3, <4>1
        <4> QED  BY <4>2
      <3> QED  BY <1>1, <1>3, <3>1 DEF TurnInvariant, InSync
    <2>6. GetInvariant'
      <3>1. wrapper \in {"getting", "gettingLine"} => stdin = <<"get">>
        BY <1>1 DEF TalkInvariant, GetInvariant, AnswerInvariant
      <3> QED  BY <1>1, <1>4, <3>1 DEF GetInvariant
    <2> QED  BY <2>4, <2>5, <2>6 DEF TalkInvariant
  <1>5. CASE Head(stdin) # "exit"
    <2>1. /\ console' = "calling" /\ pending' = Head(stdin) /\ done' = FALSE
          /\ UNCHANGED stdout
      BY <1>5 DEF NextLine
    <2>2. ConsoleTypeOK' /\ ConsoleInvariant'
      BY <1>1, <1>2, <2>1 DEF TalkInvariant, ConsoleTypeOK, ConsoleInvariant, Requests
    <2>3. TurnInvariant'
      BY <1>1, <1>3, <2>1 DEF TurnInvariant, InSync
    <2>4. GetInvariant'
      <3> SUFFICES ASSUME wrapper \in {"getting", "gettingLine"}
                   PROVE  AnswerInvariant' /\ HeaderInvariant'
        BY <1>1 DEF GetInvariant
      <3>1. AnswerInvariant /\ HeaderInvariant /\ stdin' = <<>> /\ stdout' = <<>>
        BY <1>3, <2>1 DEF TalkInvariant, GetInvariant, Talking, Reading
      <3>2. stdin = <<"get">> /\ ~ret /\ Head(stdin) = "get"
        BY <1>1, <1>2, <3>1 DEF AnswerInvariant
      <3>3. AnswerInvariant'
        BY <1>1, <2>1, <3>1, <3>2 DEF AnswerInvariant, Has
      <3>4. HeaderInvariant'
        BY <1>1, <2>1, <3>1 DEF HeaderInvariant
      <3> QED  BY <3>3, <3>4
    <2> QED  BY <2>2, <2>3, <2>4 DEF TalkInvariant
  <1> QED  BY <1>4, <1>5

\* done is set, the console dies, or it ends because nobody talks to it.
LEMMA QuietStep ==
    ASSUME TalkInvariant, SetDone \/ Die \/ EndOfInput, UNCHANGED dht
    PROVE  TalkInvariant'
  <1>1. CASE SetDone \/ Die
    <2>1. /\ UNCHANGED <<dht, wrapper, ret, stdin, stdout, outcome>>
          /\ \/ /\ pending = "printed" /\ console # "dead" /\ UNCHANGED console
                /\ pending' = "none" /\ done' = TRUE
             \/ console' = "dead" /\ UNCHANGED <<pending, done>>
      BY <1>1 DEF SetDone, Die, wrapperVars
    <2>2. ConsoleTypeOK' /\ ConsoleInvariant'
      BY <2>1 DEF TalkInvariant, ConsoleTypeOK, ConsoleInvariant
    <2>3. TurnInvariant'
      BY <2>1 DEF TalkInvariant, TurnInvariant, InSync
    <2>4. GetInvariant'
      BY <2>1 DEF TalkInvariant, GetInvariant, AnswerInvariant, HeaderInvariant, Has, FoundLine
    <2> QED  BY <2>2, <2>3, <2>4 DEF TalkInvariant
  <1>2. CASE EndOfInput
    <2>1. /\ UNCHANGED <<dht, wrapper, ret, stdin, pending, done, outcome>>
          /\ wrapper \in {"stopped", "failed"} /\ stdout' = stdout \o <<"bye">>
          /\ console' = "dead"
      BY <1>2 DEF EndOfInput, wrapperVars, Say
    <2>2. stdout' \in Seq(Lines)
      BY <2>1 DEF TalkInvariant, ConsoleTypeOK, Lines
    <2> QED  BY <2>1, <2>2 DEF TalkInvariant, ConsoleTypeOK, ConsoleInvariant,
                TurnInvariant, GetInvariant, Talking, Reading
  <1> QED  BY <1>1, <1>2

\* Lines t that may answer a request: no prompt among them; for a get, they say
\* found when the DHT found the key, and only then.
AnswerOf(t, request, answer, mark) ==
    /\ t \in Seq(Lines)
    /\ \A i \in 1 .. Len(t) : t[i] # "prompt"
    /\ request = "get" =>
          /\ answer = "found" <=> \E i \in 1 .. Len(t) : t[i] = mark
          /\ \A i \in 1 .. Len(t) : t[i] = "header" =>
                i < Len(t) /\ t[i + 1] \in {"value", "empty"}
          /\ \A i \in 1 .. Len(t) : t[i] = "value" => i > 1 /\ t[i - 1] = "header"

LEMMA AnswerLinesAre ==
    ASSUME ConsoleTypeOK, NEW request \in Requests, NEW answer \in Answers
    PROVE  AnswerOf(AnswerLines(request, answer), request, answer, FoundLine)
  <1>1. PICK t, mark : t = AnswerLines(request, answer) /\ mark = FoundLine
    OBVIOUS
  <1>2. CASE t = <<"joinFailed">> /\ request # "get"
    <2>1. Len(t) = 1 /\ t[1] = "joinFailed" /\ t \in Seq(Lines)
      BY <1>2 DEF Lines
    <2> QED  BY <1>1, <1>2, <2>1 DEF AnswerOf
  <1>3. CASE t = <<"other", "nodeId", "other">> /\ request # "get"
    <2>1. Len(t) = 3 /\ t[1] = "other" /\ t[2] = "nodeId" /\ t[3] = "other" /\ t \in Seq(Lines)
      BY <1>3 DEF Lines
    <2> QED  BY <1>1, <1>3, <2>1 DEF AnswerOf
  <1>4. CASE t = <<"header", "value">> /\ answer = "found" /\ mark = "value"
    <2>1. Len(t) = 2 /\ t[1] = "header" /\ t[2] = "value" /\ t \in Seq(Lines)
      BY <1>4 DEF Lines
    <2> QED  BY <1>1, <1>4, <2>1 DEF AnswerOf
  <1>5. CASE t = <<"header", "empty">> /\ answer # "found"
    <2>1. Len(t) = 2 /\ t[1] = "header" /\ t[2] = "empty" /\ t \in Seq(Lines)
      BY <1>5 DEF Lines
    <2>2. mark \in {"found", "value"}
      BY <1>1 DEF FoundLine
    <2> QED  BY <1>1, <1>5, <2>1, <2>2 DEF AnswerOf
  <1>6. CASE t = <<"found">> /\ answer = "found" /\ mark = "found"
    <2>1. Len(t) = 1 /\ t[1] = "found" /\ t \in Seq(Lines)
      BY <1>6 DEF Lines
    <2> QED  BY <1>1, <1>6, <2>1 DEF AnswerOf
  <1>7. CASE t = <<"other">> /\ (request = "get" => answer # "found")
    <2>1. Len(t) = 1 /\ t[1] = "other" /\ t \in Seq(Lines)
      BY <1>7 DEF Lines
    <2>2. mark \in {"found", "value"}
      BY <1>1 DEF FoundLine
    <2> QED  BY <1>1, <1>7, <2>1, <2>2 DEF AnswerOf
  <1>8. dht \in {"kaddemo", "openchord", "owdhtshell", "pastconsole"}
    BY DEF ConsoleTypeOK, Dhts
  <1>9. request \in {"put", "joinN", "getinfo", "exit"} =>
           t \in {<<"joinFailed">>, <<"other", "nodeId", "other">>, <<"other">>}
    BY <1>1 DEF AnswerLines
  <1>10. request = "get" /\ answer = "found" =>
            \/ dht \in {"openchord", "kaddemo"} /\ t = <<"header", "value">>
            \/ dht \in {"owdhtshell", "pastconsole"} /\ t = <<"found">>
    BY <1>1, <1>8 DEF AnswerLines
  <1>11. request = "get" /\ answer # "found" =>
            t \in {<<"header", "empty">>, <<"other">>}
    BY <1>1, <1>8 DEF AnswerLines
  <1> QED
    BY <1>1, <1>2, <1>3, <1>4, <1>5, <1>6, <1>7, <1>8, <1>9, <1>10, <1>11
       DEF FoundLine, Requests

\* The DHT answers, in its own thread.
LEMMA ReceiveStep ==
    ASSUME TalkInvariant, NEW answer \in Answers, Receive(answer), UNCHANGED dht
    PROVE  TalkInvariant'
  <1>1. /\ UNCHANGED <<dht, wrapper, ret, stdin, console, done>>
        /\ pending \in Requests /\ console # "dead" /\ pending' = "printed"
        /\ outcome' = answer /\ ConsoleTypeOK
    BY DEF Receive, wrapperVars, TalkInvariant
  <1>2. PICK t, mark : /\ stdout' = stdout \o t /\ mark = FoundLine
                       /\ AnswerOf(t, pending, answer, mark)
    BY <1>1, AnswerLinesAre DEF Receive, Say
  <1>3. /\ stdout' \in Seq(Lines) /\ Len(stdout') = Len(stdout) + Len(t)
        /\ Len(stdout) \in Nat /\ Len(t) \in Nat
        /\ \A i \in 1 .. Len(stdout) : stdout'[i] = stdout[i]
        /\ \A i \in 1 .. Len(stdout') : i > Len(stdout) => stdout'[i] = t[i - Len(stdout)]
    BY <1>1, <1>2, SayIs DEF ConsoleTypeOK, AnswerOf
  <1>4. console \in {"calling", "waiting"} /\ pending # "none" /\ ~done
    BY <1>1 DEF TalkInvariant, ConsoleTypeOK, ConsoleInvariant, Requests
  <1>5. ConsoleTypeOK' /\ ConsoleInvariant'
    BY <1>1, <1>3, <1>4 DEF ConsoleTypeOK, ConsoleInvariant
  <1>6. wrapper \in Talking => /\ wrapper # "idle" /\ stdin = <<>>
                               /\ \A i \in 1 .. Len(stdout) : stdout[i] # "prompt"
    BY <1>4 DEF TalkInvariant, TurnInvariant, InSync
  <1>7. TurnInvariant'
    <2> SUFFICES ASSUME wrapper \in Talking PROVE TurnInvariant'
      BY <1>1 DEF TurnInvariant
    <2>1. \A i \in 1 .. Len(stdout') : stdout'[i] # "prompt"
      <3> TAKE i \in 1 .. Len(stdout')
      <3>1. CASE i <= Len(stdout)
        BY <1>3, <1>6, <3>1
      <3>2. CASE i > Len(stdout)
        BY <1>2, <1>3, <3>2 DEF AnswerOf
      <3> QED  BY <1>3, <3>1, <3>2
    <2> QED  BY <1>1, <1>6, <2>1 DEF TurnInvariant, InSync
  <1>8. GetInvariant'
    <2> SUFFICES ASSUME wrapper \in {"getting", "gettingLine"}
                 PROVE  AnswerInvariant' /\ HeaderInvariant'
      BY <1>1 DEF GetInvariant
    <2>1. stdin = <<>> /\ AnswerInvariant /\ HeaderInvariant
      BY <1>6 DEF TalkInvariant, GetInvariant, Talking, Reading
    <2>2. pending = "get" /\ ~ret /\ ~Has(FoundLine)
      BY <1>1, <2>1 DEF AnswerInvariant, Requests
    <2>3. FoundLine' = mark
      BY <1>1, <1>2 DEF FoundLine
    <2>4. \A i \in 1 .. Len(stdout) : stdout[i] # mark
      BY <1>2, <2>2 DEF Has
    <2>5. answer = "found" <=> \E i \in 1 .. Len(stdout') : stdout'[i] = mark
      <3>1. answer = "found" <=> \E i \in 1 .. Len(t) : t[i] = mark
        BY <1>2, <2>2 DEF AnswerOf
      <3>2. ASSUME NEW i \in 1 .. Len(t), t[i] = mark
            PROVE  \E j \in 1 .. Len(stdout') : stdout'[j] = mark
        <4>1. Len(stdout) + i \in 1 .. Len(stdout') /\ Len(stdout) + i > Len(stdout)
              /\ (Len(stdout) + i) - Len(stdout) = i
          BY <1>3
        <4>2. stdout'[Len(stdout) + i] = t[i]
          BY <1>3, <4>1
        <4> QED  BY <3>2, <4>1, <4>2
      <3>3. ASSUME NEW j \in 1 .. Len(stdout'), stdout'[j] = mark
            PROVE  \E i \in 1 .. Len(t) : t[i] = mark
        <4>1. j > Len(stdout)
          BY <1>3, <2>4, <3>3
        <4>2. j - Len(stdout) \in 1 .. Len(t) /\ t[j - Len(stdout)] = mark
          BY <1>3, <3>3, <4>1
        <4> QED  BY <4>2
      <3> QED  BY <3>1, <3>2, <3>3
    <2>6. AnswerInvariant'
      BY <1>1, <2>1, <2>2, <2>3, <2>5 DEF AnswerInvariant, Has
    <2>7. HeaderInvariant'
      <3>1. /\ \A i \in 1 .. Len(t) : t[i] = "header" =>
                  i < Len(t) /\ t[i + 1] \in {"value", "empty"}
            /\ \A i \in 1 .. Len(t) : t[i] = "value" => i > 1 /\ t[i - 1] = "header"
        BY <1>2, <2>2 DEF AnswerOf
      <3>2. ASSUME NEW i \in 1 .. Len(stdout'), stdout'[i] = "header"
            PROVE  i < Len(stdout') /\ stdout'[i + 1] \in {"value", "empty"}
        <4>1. CASE i <= Len(stdout)
          BY <1>3, <2>1, <3>2, <4>1 DEF HeaderInvariant
        <4>2. CASE i > Len(stdout)
          <5>1. PICK k \in 1 .. Len(t) : k = i - Len(stdout)
            BY <1>3, <4>2
          <5>2. t[k] = "header"
            BY <1>3, <3>2, <4>2, <5>1
          <5>3. k < Len(t) /\ t[k + 1] \in {"value", "empty"}
            BY <3>1, <5>2
          <5>4. /\ i + 1 \in 1 .. Len(stdout') /\ i + 1 > Len(stdout)
                /\ (i + 1) - Len(stdout) = k + 1
            BY <1>3, <4>2, <5>1, <5>3
          <5>5. stdout'[i + 1] = t[k + 1]
            BY <1>3, <5>4
          <5> QED  BY <1>3, <5>1, <5>3, <5>5
        <4> QED  BY <1>3, <4>1, <4>2
      <3>3. ASSUME NEW i \in 1 .. Len(stdout'), stdout'[i] = "value"
            PROVE  IF i = 1 THEN wrapper' = "gettingLine" ELSE stdout'[i - 1] = "header"
        <4>1. CASE i <= Len(stdout)
          BY <1>1, <1>3, <2>1, <3>3, <4>1 DEF HeaderInvariant
        <4>2. CASE i > Len(stdout)
          <5>1. PICK k \in 1 .. Len(t) : k = i - Len(stdout)
            BY <1>3, <4>2
          <5>2. t[k] = "value"
            BY <1>3, <3>3, <4>2, <5>1
          <5>3. k > 1 /\ t[k - 1] = "header"
            BY <3>1, <5>2
          <5>4. /\ i - 1 \in 1 .. Len(stdout') /\ i - 1 > Len(stdout)
                /\ (i - 1) - Len(stdout) = k - 1 /\ i # 1
            BY <1>3, <4>2, <5>1, <5>3
          <5>5. stdout'[i - 1] = t[k - 1]
            BY <1>3, <5>4
          <5> QED  BY <5>3, <5>4, <5>5
        <4> QED  BY <1>3, <4>1, <4>2
      <3>4. wrapper' = "gettingLine" => stdout' # <<>> /\ stdout'[1] \in {"value", "empty"}
        <4>1. wrapper = "gettingLine" => Len(stdout) > 0 /\ stdout[1] \in {"value", "empty"}
          BY <1>1, <2>1 DEF HeaderInvariant, ConsoleTypeOK
        <4> QED  BY <1>1, <1>3, <4>1
      <3> QED  BY <3>2, <3>3, <3>4 DEF HeaderInvariant
    <2> QED  BY <2>6, <2>7
  <1> QED  BY <1>5, <1>7, <1>8 DEF TalkInvariant

-----------------------------------------------------------------------------
(* The wrapper's steps *)

\* What reading a line makes of the wrapper.
LEMMA ReadLineIs ==
    ASSUME TalkInvariant, ReadLine
    PROVE  /\ stdout \in Seq(Lines) /\ stdout # <<>> /\ stdout' = Tail(stdout)
           /\ UNCHANGED <<console, pending, done, outcome>>
           /\ ret' = (ret \/ SaysFound(stdout[1])) /\ ret' \in BOOLEAN
           /\ wrapper = "leaving" => wrapper' \in {"leaving", "stopped"} /\ UNCHANGED stdin
           /\ wrapper' \in {"getting", "gettingLine"} =>
                 /\ wrapper = "getting" /\ stdout[1] = "header" => wrapper' = "gettingLine"
                 /\ wrapper' = "gettingLine" => wrapper = "getting" /\ stdout[1] = "header"
                 /\ wrapper \in {"getting", "gettingLine"} /\ UNCHANGED stdin
           /\ wrapper' = "idle" => stdout[1] = "prompt" /\ UNCHANGED stdin
           /\ \/ wrapper' \in (Reading \cup {"idle", "stopped", "failed"}) /\ UNCHANGED stdin
              \/ /\ wrapper' \in {"joining", "getId", "stopped"} /\ console # "dead"
                 /\ \E r \in Requests : stdin' = Append(stdin, r)
                 /\ wrapper' # "stopped" => stdout[1] = "prompt"
  <1>1. /\ stdout \in Seq(Lines) /\ stdout # <<>> /\ stdout' = Tail(stdout)
        /\ UNCHANGED <<console, pending, done, outcome>> /\ wrapper \in Reading
        /\ ret \in BOOLEAN
    BY DEF ReadLine, TalkInvariant, ConsoleTypeOK, consoleVars
  <1>2. PICK line : line = Head(stdout) /\ line = stdout[1]
    BY <1>1, TailIs
  <1>3. Reply(line) /\ ret' = (ret \/ SaysFound(line))
    BY <1>2 DEF ReadLine
  <1>4. ret' \in BOOLEAN
    BY <1>1, <1>3 DEF SaysFound
  <1>5. CASE /\ wrapper = "starting" /\ line = "prompt" /\ dht \in {"openchord", "kaddemo"}
    <2>1. Ask("joinN", "joining") \/ Ask("getinfo", "getId")
      BY <1>3, <1>5 DEF Reply
    <2> QED  BY <1>1, <1>2, <1>3, <1>4, <1>5, <2>1 DEF Ask, Requests, Reading
  <1>6. CASE wrapper = "joining" /\ line = "joinFailed"
    <2>1. Ask("exit", "stopped")
      BY <1>3, <1>6 DEF Reply
    <2> QED  BY <1>1, <1>2, <1>3, <1>4, <1>6, <2>1 DEF Ask, Requests, Reading
  <1>7. CASE ~ \/ wrapper = "starting" /\ line = "prompt" /\ dht \in {"openchord", "kaddemo"}
               \/ wrapper = "joining" /\ line = "joinFailed"
    <2>1. wrapper' = After(line) /\ UNCHANGED stdin
      BY <1>3, <1>7 DEF Reply
    <2> QED  BY <1>1, <1>2, <1>3, <1>4, <2>1 DEF After, Reading
  <1> QED  BY <1>5, <1>6, <1>7

\* A line read leaves the dialogue where it was, a prompt ends it.
LEMMA ReadLineStep ==
    ASSUME TalkInvariant, ReadLine, UNCHANGED dht
    PROVE  TalkInvariant' /\ (wrapper = "getting" /\ wrapper' = "idle" =>
                                 ret' = (outcome = "found"))
  <1>1. /\ stdout \in Seq(Lines) /\ stdout # <<>> /\ stdout' = Tail(stdout)
        /\ UNCHANGED <<dht, console, pending, done, outcome>> /\ wrapper \in Reading
        /\ ConsoleTypeOK
    BY ReadLineIs DEF ReadLine, TalkInvariant
  <1>2. /\ stdout' \in Seq(Lines) /\ Len(stdout') = Len(stdout) - 1
        /\ Len(stdout) \in Nat \ {0}
        /\ \A i \in 1 .. Len(stdout) - 1 : stdout'[i] = stdout[i + 1]
    BY <1>1, TailIs
  <1>3. stdin' \in Seq(Requests) /\ wrapper' \in Reading \cup {"idle", "stopped", "failed"}
    <2>1. wrapper' \in Reading \cup {"idle", "stopped", "failed"}
      BY ReadLineIs DEF Reading
    <2>2. stdin \in Seq(Requests)
      BY <1>1 DEF ConsoleTypeOK
    <2>3. UNCHANGED stdin \/ \E r \in Requests : stdin' = Append(stdin, r)
      BY ReadLineIs
    <2>4. \A r \in Requests : Append(stdin, r) \in Seq(Requests)
      BY <2>2
    <2> QED  BY <2>1, <2>2, <2>3, <2>4
  <1>4. ConsoleTypeOK' /\ ConsoleInvariant'
    BY <1>1, <1>2, <1>3, ReadLineIs DEF TalkInvariant, ConsoleTypeOK, ConsoleInvariant
  <1>5. wrapper # "leaving" =>
           /\ stdin = <<>>
           /\ stdout[1] = "prompt" =>
                 Len(stdout') = 0 /\ stdout' = <<>> /\ console \in {"reading", "dead"}
           /\ \A i \in 1 .. Len(stdout') : stdout'[i] = "prompt" =>
                 i = Len(stdout') /\ console \in {"reading", "dead"}
    <2> SUFFICES ASSUME wrapper \in Talking PROVE
             /\ stdin = <<>>
             /\ stdout[1] = "prompt" =>
                   Len(stdout') = 0 /\ stdout' = <<>> /\ console \in {"reading", "dead"}
             /\ \A i \in 1 .. Len(stdout') : stdout'[i] = "prompt" =>
                   i = Len(stdout') /\ console \in {"reading", "dead"}
      BY <1>1 DEF Talking
    <2>1. TurnInvariant
      BY DEF TalkInvariant
    <2>2. stdin = <<>>
      BY <1>1, <2>1 DEF TurnInvariant
    <2>3. stdout[1] = "prompt" => Len(stdout) = 1 /\ console \in {"reading", "dead"}
      BY <1>2, <2>1 DEF TurnInvariant
    <2>4. Len(stdout) = 1 => Len(stdout') = 0 /\ stdout' = <<>>
      BY <1>2
    <2>5. ASSUME NEW i \in 1 .. Len(stdout'), stdout'[i] = "prompt"
          PROVE  i = Len(stdout') /\ console \in {"reading", "dead"}
      <3>1. i + 1 \in 1 .. Len(stdout) /\ stdout[i + 1] = "prompt"
        BY <1>2, <2>5
      <3>2. i + 1 = Len(stdout) /\ console \in {"reading", "dead"}
        BY <2>1, <3>1 DEF TurnInvariant
      <3> QED  BY <1>2, <3>2
    <2> QED  BY <2>2, <2>3, <2>4, <2>5
  <1>6. TurnInvariant'
    <2> SUFFICES ASSUME wrapper' \in Talking PROVE TurnInvariant'
      BY DEF TurnInvariant
    <2>1. wrapper # "leaving"
      BY ReadLineIs DEF Talking, Reading
    <2>2. CASE UNCHANGED stdin
      <3>1. stdin' = <<>>
        BY <1>5, <2>1, <2>2
      <3>2. wrapper' = "idle" => stdout' = <<>> /\ console' \in {"reading", "dead"}
        BY <1>1, <1>5, <2>1, ReadLineIs
      <3> QED  BY <1>1, <1>5, <2>1, <3>1, <3>2 DEF TurnInvariant, InSync
    <2>3. CASE ~UNCHANGED stdin
      <3>1. /\ wrapper' \in {"joining", "getId", "stopped"} /\ console # "dead"
            /\ wrapper' # "stopped" => stdout[1] = "prompt"
        BY <2>3, ReadLineIs
      <3>2. PICK r \in Requests : stdin' = Append(stdin, r)
        BY <2>3, ReadLineIs
      <3>3. wrapper' # "stopped" /\ stdin = <<>>
        BY <1>5, <2>1 DEF Talking, Reading
      <3>4. stdout' = <<>> /\ Len(stdout') = 0 /\ console \in {"reading", "dead"}
        BY <1>5, <2>1, <3>1, <3>3
      <3>5. Len(stdin') = 1
        BY <3>2, <3>3, AskIs
      <3>6. \A i \in 1 .. Len(stdout') : stdout'[i] # "prompt"
        BY <3>4
      <3>7. wrapper' # "idle" /\ console' \in {"reading", "dead"}
        BY <1>1, <3>1, <3>4
      <3> QED  BY <3>4, <3>5, <3>6, <3>7 DEF TurnInvariant, InSync
    <2> QED  BY <2>2, <2>3
  <1>7. ASSUME wrapper \in {"getting", "gettingLine"}
        PROVE  /\ ret' <=> (ret \/ stdout[1] = FoundLine)
               /\ AnswerInvariant /\ HeaderInvariant /\ stdin = <<>>
    <2>1. AnswerInvariant /\ HeaderInvariant /\ stdin = <<>>
      BY <1>5, <1>7 DEF TalkInvariant, GetInvariant
    <2>2. wrapper = "gettingLine" => stdout[1] \in {"value", "empty"}
      BY <2>1 DEF HeaderInvariant
    <2>3. stdout[1] = "value" => wrapper = "gettingLine"
      BY <1>2, <2>1 DEF HeaderInvariant
    <2>4. SaysFound(stdout[1]) <=> stdout[1] = FoundLine
      BY <1>7, <2>2, <2>3 DEF SaysFound, FoundLine
    <2> QED  BY <2>1, <2>4, ReadLineIs
  <1>8. GetInvariant'
    <2> SUFFICES ASSUME wrapper' \in {"getting", "gettingLine"}
                 PROVE  AnswerInvariant' /\ HeaderInvariant'
      BY DEF GetInvariant
    <2>1. /\ wrapper \in {"getting", "gettingLine"} /\ UNCHANGED stdin
          /\ wrapper = "getting" /\ stdout[1] = "header" => wrapper' = "gettingLine"
          /\ wrapper' = "gettingLine" => wrapper = "getting" /\ stdout[1] = "header"
      BY ReadLineIs
    <2>2. AnswerInvariant /\ HeaderInvariant /\ stdin' = <<>>
      BY <1>7, <2>1
    <2>3. PICK mark : mark = FoundLine /\ FoundLine' = mark
      BY <1>1 DEF FoundLine
    <2>4. ASSUME NEW line
          PROVE  (\E i \in 1 .. Len(stdout) : stdout[i] = line) <=>
                 stdout[1] = line \/ (\E i \in 1 .. Len(stdout') : stdout'[i] = line)
      <3>1. ASSUME NEW i \in 1 .. Len(stdout), stdout[i] = line, i # 1
            PROVE  \E j \in 1 .. Len(stdout') : stdout'[j] = line
        <4>1. i - 1 \in 1 .. Len(stdout) - 1 /\ (i - 1) + 1 = i
          BY <1>2, <3>1
        <4>2. stdout'[i - 1] = line
          BY <1>2, <3>1, <4>1
        <4> QED  BY <1>2, <4>1, <4>2
      <3>2. ASSUME NEW j \in 1 .. Len(stdout'), stdout'[j] = line
            PROVE  \E i \in 1 .. Len(stdout) : stdout[i] = line
        BY <1>2, <3>2
      <3>3. 1 \in 1 .. Len(stdout)
        BY <1>2
      <3> QED  BY <3>1, <3>2, <3>3
    <2>5. AnswerInvariant'
      <3>1. (\E i \in 1 .. Len(stdout) : stdout[i] = mark) <=>
            stdout[1] = mark \/ (\E i \in 1 .. Len(stdout') : stdout'[i] = mark)
        BY <2>4
      <3>2. (\E i \in 1 .. Len(stdout) : stdout[i] = "prompt") <=>
            stdout[1] = "prompt" \/ (\E i \in 1 .. Len(stdout') : stdout'[i] = "prompt")
        BY <2>4
      <3>3. ret' <=> (ret \/ stdout[1] = mark)
        BY <1>7, <2>1, <2>3
      <3>4. ret \in BOOLEAN /\ ret' \in BOOLEAN /\ stdout # <<>>
        BY <1>1, <1>4 DEF ConsoleTypeOK
      <3> QED  BY <1>1, <2>1, <2>2, <2>3, <3>1, <3>2, <3>3, <3>4 DEF AnswerInvariant, Has
    <2>6. HeaderInvariant'
      <3>1. ASSUME NEW i \in 1 .. Len(stdout')
            PROVE  /\ i + 1 \in 1 .. Len(stdout) /\ stdout'[i] = stdout[i + 1] /\ i + 1 # 1
                   /\ (i + 1) - 1 = i
                   /\ i # 1 => i - 1 \in 1 .. Len(stdout') /\ stdout'[i - 1] = stdout[i]
                   /\ i < Len(stdout') => stdout'[i + 1] = stdout[(i + 1) + 1]
        BY <1>2
      <3>2. ASSUME NEW i \in 1 .. Len(stdout'), stdout'[i] = "header"
            PROVE  i < Len(stdout') /\ stdout'[i + 1] \in {"value", "empty"}
        <4>1. i + 1 \in 1 .. Len(stdout) /\ stdout[i + 1] = "header"
          BY <3>1, <3>2
        <4>2. i + 1 < Len(stdout) /\ stdout[(i + 1) + 1] \in {"value", "empty"}
          BY <2>2, <4>1 DEF HeaderInvariant
        <4>3. i < Len(stdout')
          BY <1>2, <4>2
        <4> QED  BY <3>1, <4>2, <4>3
      <3>3. ASSUME NEW i \in 1 .. Len(stdout'), stdout'[i] = "value"
            PROVE  IF i = 1 THEN wrapper' = "gettingLine" ELSE stdout'[i - 1] = "header"
        <4>1. stdout[i] = "header"
          BY <2>2, <3>1, <3>3 DEF HeaderInvariant
        <4>2. i = 1 => wrapper = "getting"
          BY <2>1, <2>2, <4>1 DEF HeaderInvariant
        <4> QED  BY <2>1, <3>1, <4>1, <4>2
      <3>4. wrapper' = "gettingLine" => stdout' # <<>> /\ stdout'[1] \in {"value", "empty"}
        <4>1. stdout[1] = "header" => 1 < Len(stdout) /\ stdout[1 + 1] \in {"value", "empty"}
          BY <1>2, <2>2 DEF HeaderInvariant
        <4> QED  BY <1>2, <2>1, <4>1
      <3> QED  BY <3>2, <3>3, <3>4 DEF HeaderInvariant
    <2> QED  BY <2>5, <2>6
  <1>9. ASSUME wrapper = "getting", wrapper' = "idle"
        PROVE  ret' = (outcome = "found")
    <2>1. stdout[1] = "prompt" /\ Len(stdout) = 1 /\ stdin = <<>>
      BY <1>2, <1>5, <1>9, ReadLineIs
    <2>2. (ret' <=> ret) /\ AnswerInvariant
      BY <1>7, <1>9, <2>1 DEF FoundLine
    <2>3. Has("prompt") /\ ~Has(FoundLine)
      BY <2>1 DEF Has, FoundLine
    <2>4. outcome = "found" <=> ret
      BY <2>1, <2>2, <2>3 DEF AnswerInvariant
    <2>5. ret \in BOOLEAN /\ ret' \in BOOLEAN
      BY <1>1, <1>4 DEF ConsoleTypeOK
    <2> QED  BY <2>2, <2>4, <2>5
  <1> QED  BY <1>4, <1>6, <1>8, <1>9 DEF TalkInvariant

\* An operation begins between two turns.
LEMMA AskStep ==
    ASSUME TalkInvariant, DoPut \/ DoGet \/ DoLeave, UNCHANGED dht
    PROVE  TalkInvariant' /\ wrapper = "idle"
  <1>1. /\ wrapper = "idle" /\ UNCHANGED <<dht, stdout, console, pending, done, outcome>>
        /\ ret' \in {ret, FALSE} /\ (DoGet => ret' = FALSE)
        /\ \/ console = "dead" /\ wrapper' = "failed" /\ UNCHANGED stdin
           \/ /\ console # "dead" /\ wrapper' \in {"putting", "getting", "leaving", "stopped"}
              /\ \E r \in Requests : stdin' = Append(stdin, r)
              /\ wrapper' = "getting" => DoGet /\ stdin' = Append(stdin, "get")
    BY DEF DoPut, DoGet, DoLeave, Ask, consoleVars, Requests
  <1>2. stdout = <<>> /\ stdin = <<>> /\ console \in {"reading", "dead"} /\ Len(stdout) = 0
    BY <1>1 DEF TalkInvariant, TurnInvariant, Talking, InSync
  <1>3. stdin' \in Seq(Requests) /\ (wrapper' # "failed" => Len(stdin') = 1)
        /\ (wrapper' = "getting" => stdin' = <<"get">>)
    <2>1. CASE wrapper' = "failed"
      BY <1>1, <2>1 DEF TalkInvariant, ConsoleTypeOK
    <2>2. CASE wrapper' # "failed"
      <3>1. PICK r \in Requests : stdin' = <<r>>
        BY <1>1, <1>2, <2>2, AskIs
      <3>2. wrapper' = "getting" => stdin' = <<"get">>
        BY <1>1, <1>2
      <3> QED  BY <3>1, <3>2, AskIs
    <2> QED  BY <2>1, <2>2
  <1>4. ConsoleTypeOK' /\ ConsoleInvariant'
    BY <1>1, <1>3 DEF TalkInvariant, ConsoleTypeOK, ConsoleInvariant, Reading
  <1>5. TurnInvariant'
    <2>1. \A i \in 1 .. Len(stdout') : stdout'[i] # "prompt"
      BY <1>1, <1>2
    <2> QED  BY <1>1, <1>2, <1>3, <2>1 DEF TurnInvariant, InSync, Talking, Reading
  <1>6. GetInvariant'
    <2> SUFFICES ASSUME wrapper' = "getting" PROVE AnswerInvariant' /\ HeaderInvariant'
      BY <1>1 DEF GetInvariant
    <2>1. pending' = "none" /\ ~ret' /\ stdout' = <<>> /\ Len(stdout') = 0
      BY <1>1, <1>2 DEF TalkInvariant, ConsoleInvariant
    <2> QED  BY <1>3, <2>1 DEF AnswerInvariant, HeaderInvariant
  <1> QED  BY <1>1, <1>4, <1>5, <1>6 DEF TalkInvariant

\* The dialogue is given up: the program or the wrapper is gone.
LEMMA GiveUpStep ==
    ASSUME TalkInvariant, wrapper' \in {"stopped", "failed"},
           UNCHANGED <<dht, ret, stdin, stdout, console, pending, done, outcome>>
    PROVE  TalkInvariant'
  BY DEF TalkInvariant, ConsoleTypeOK, ConsoleInvariant, TurnInvariant, GetInvariant,
     Talking, Reading

\* A new program has new pipes.
LEMMA DoJoinStep ==
    ASSUME TalkInvariant, DoJoin, UNCHANGED dht
    PROVE  TalkInvariant' /\ wrapper = "stopped"
  <1>1. /\ wrapper = "stopped" /\ wrapper' = "starting" /\ ret' = FALSE /\ UNCHANGED dht
        /\ stdin' = <<>> /\ stdout' = <<>> /\ console' = "booting" /\ pending' = "none"
        /\ done' = FALSE /\ outcome' = "none"
    BY DEF DoJoin
  <1>2. ConsoleTypeOK' /\ ConsoleInvariant'
    <2>1. stdin' \in Seq(Requests) /\ stdout' \in Seq(Lines)
      BY <1>1
    <2> QED  BY <1>1, <2>1 DEF TalkInvariant, ConsoleTypeOK, ConsoleInvariant, Reading
  <1>3. TurnInvariant' /\ GetInvariant'
    BY <1>1 DEF TurnInvariant, InSync, GetInvariant
  <1> QED  BY <1>1, <1>2, <1>3 DEF TalkInvariant

\* What a step of the whole system is to the dialogue.
LEMMA DialogueStep ==
    ASSUME TalkInvariant, [Next]_vars
    PROVE  TalkInvariant' /\ (wrapper = "getting" /\ wrapper' = "idle" =>
                                 ret' = (outcome = "found"))
  <1> USE DEF consoleVars
  <1>1. CASE ReadsOn
    <2>1. UNCHANGED dht /\ (ReadLine \/ ReadEof)
      BY <1>1 DEF ReadsOn, WrapperStep
    <2>2. CASE ReadEof
      <3>1. /\ wrapper' \in {"stopped", "failed"}
            /\ UNCHANGED <<dht, ret, stdin, stdout, console, pending, done, outcome>>
        BY <2>1, <2>2 DEF ReadEof
      <3> QED  BY <3>1, GiveUpStep
    <2> QED  BY <2>1, <2>2, ReadLineStep
  <1>2. CASE Operates \/ Leaves
    BY <1>2, AskStep DEF Operates, Leaves
  <1>3. CASE Rejoins
    BY <1>3, DoJoinStep DEF Rejoins
  <1>4. CASE Deleted \/ ProcessEnds
    <2>1. /\ wrapper' = "failed"
          /\ UNCHANGED <<dht, ret, stdin, stdout, console, pending, done, outcome>>
      BY <1>4 DEF Deleted, ProcessEnds
    <2> QED  BY <2>1, GiveUpStep
  <1>5. CASE ProgramRuns \/ ProgramDies
    <2>1. /\ UNCHANGED <<dht, wrapper>>
          /\ \/ Boot \/ Waiting \/ WaitDone
             \/ Prompt \/ NextLine
             \/ SetDone \/ Die \/ EndOfInput
             \/ \E answer \in Answers : Receive(answer)
      BY <1>5 DEF ProgramRuns, ProgramDies, ConsoleStep, SeesDone, DhtAnswers, Boot, Waiting, WaitDone,
         Prompt, NextLine, SetDone, Die, EndOfInput, Receive, wrapperVars
    <2> QED  BY <2>1, MutterStep, PromptStep, NextLineStep, QuietStep, ReceiveStep
  <1>6. CASE UNCHANGED dialogueVars
    BY <1>6 DEF dialogueVars, wrapperVars, TalkInvariant, ConsoleTypeOK, ConsoleInvariant,
       TurnInvariant, InSync, GetInvariant, AnswerInvariant, HeaderInvariant, Has, FoundLine
  <1> QED  BY <1>1, <1>2, <1>3, <1>4, <1>5, <1>6
           DEF Next, vars, ThreadJoined, ServerRuns, ServerAnswers, OtherJoins, Over

-----------------------------------------------------------------------------
(* The id server's steps *)

\* What a step of the whole system is to the id server.
IdStep ==
    \/ ZeroStarts \/ ZeroJoins \/ ZeroLeaves \/ ZeroLeft \/ ZeroDeleted \/ ZeroEnds
    \/ ServerOpens \/ ServerStops
    \/ \E n \in Nodes : HandleAccept(n) \/ Connect(n) \/ GetId(n) \/ ReadError(n)
    \/ UNCHANGED idVars

LEMMA NextIsIdStep ==
    ASSUME [Next]_vars
    PROVE  IdStep
  <1>1. CASE ReadsOn
    BY <1>1 DEF ReadsOn, IdStep
  <1>2. CASE Operates \/ Leaves \/ Deleted \/ ProcessEnds
    BY <1>2 DEF Operates, Leaves, Deleted, ProcessEnds, IdStep
  <1>3. CASE ThreadJoined \/ Rejoins \/ ProgramRuns \/ ProgramDies \/ ServerRuns
    BY <1>3 DEF ThreadJoined, Rejoins, ProgramRuns, ProgramDies, ServerRuns, ServerStep, IdStep
  <1>4. CASE \E n \in Nodes : ServerAnswers(n) \/ OtherJoins(n)
    BY <1>4 DEF ServerAnswers, OtherJoins, IdStep
  <1>5. CASE Over \/ UNCHANGED vars
    BY <1>5 DEF Over, vars, IdStep
  <1> QED  BY <1>1, <1>2, <1>3, <1>4, <1>5 DEF Next

\* A server is made with the id of the stay that makes it and is gone before
\* the next one.
LEMMA IdStepKeeps ==
    ASSUME IdInvariant, IdStep
    PROVE  IdInvariant' /\ \A n \in Nodes : node[n] = "connected" /\ node'[n] = "answered" =>
                                               got'[n] = id
  <1> USE KaddemoAssumption DEF IdInvariant, zeroVars, serverVars, nodeVars
  <1>1. CASE ZeroStarts \/ ZeroJoins \/ ZeroLeaves \/ ZeroLeft \/ ZeroDeleted \/ ZeroEnds
    <2>1. UNCHANGED <<node, got>>
      BY <1>1 DEF ZeroStarts, ZeroJoins, ZeroLeaves, ZeroLeft, ZeroDeleted, ZeroEnds
    <2>2. IdTypeOK'
      <3>1. stays' \in 0 .. MaxStays /\ stays <= stays' /\ stays \in Nat
        BY <1>1 DEF IdTypeOK, ZeroStarts, ZeroJoins, ZeroLeaves, ZeroLeft, ZeroDeleted,
           ZeroEnds
      <3>2. got' \in [Nodes -> 0 .. stays']
        <4>1. 0 .. stays \subseteq 0 .. stays'
          BY <3>1
        <4> QED  BY <2>1, <4>1 DEF IdTypeOK
      <3>3. id' \in 0 .. stays' /\ serverId' \in 0 .. stays'
        BY <1>1, <3>1 DEF IdTypeOK, ZeroStarts, ZeroJoins, ZeroLeaves, ZeroLeft, ZeroDeleted,
           ZeroEnds
      <3> QED  BY <1>1, <2>1, <3>1, <3>2, <3>3 DEF IdTypeOK, ZeroStarts, ZeroJoins, ZeroLeaves,
                  ZeroLeft, ZeroDeleted, ZeroEnds
    <2>3. ServerInvariant'
      BY <1>1, <2>1 DEF IdTypeOK, ServerInvariant, ZeroStarts, ZeroJoins, ZeroLeaves,
         ZeroLeft, ZeroDeleted, ZeroEnds
    <2> QED  BY <2>1, <2>2, <2>3
  <1>2. CASE ServerOpens \/ ServerStops
    BY <1>2 DEF IdTypeOK, ServerInvariant, ServerOpens, ServerStops
  <1>3. ASSUME NEW n \in Nodes, HandleAccept(n)
        PROVE  IdInvariant' /\ \A m \in Nodes : node[m] = "connected" /\ node'[m] = "answered" =>
                                                   got'[m] = id
    <2>1. /\ server = "listening" /\ UNCHANGED <<zero, stays, id, threadStop, server, serverId>>
          /\ node' = [node EXCEPT ![n] = "answered"] /\ got' = [got EXCEPT ![n] = serverId]
      BY <1>3 DEF HandleAccept, Answer
    <2>2. serverId = id /\ id > 0 /\ id \in 0 .. stays
      BY <2>1 DEF IdTypeOK, ServerInvariant
    <2>3. IdTypeOK'
      BY <2>1, <2>2 DEF IdTypeOK
    <2>4. ServerInvariant'
      BY <2>1, <2>2 DEF IdTypeOK, ServerInvariant
    <2> QED  BY <2>1, <2>2, <2>3, <2>4 DEF IdTypeOK
  <1>4. ASSUME NEW n \in Nodes, Connect(n) \/ GetId(n) \/ ReadError(n)
        PROVE  IdInvariant' /\ \A m \in Nodes : ~(node[m] = "connected" /\ node'[m] = "answered")
    <2>1. PICK s : /\ s \in {"connected", "failed", "hasId"} /\ node' = [node EXCEPT ![n] = s]
                   /\ s = "hasId" => node[n] = "answered"
                   /\ UNCHANGED <<zero, stays, id, threadStop, server, serverId, got>>
      BY <1>4 DEF Connect, GetId, ReadError
    <2>2. IdTypeOK'
      BY <2>1 DEF IdTypeOK, ServerInvariant
    <2>3. ServerInvariant'
      BY <2>1 DEF IdTypeOK, ServerInvariant
    <2> QED  BY <2>1, <2>2, <2>3 DEF IdTypeOK
  <1>5. CASE UNCHANGED idVars
    BY <1>5 DEF idVars, IdTypeOK, ServerInvariant
  <1> QED  BY <1>1, <1>2, <1>3, <1>4, <1>5 DEF IdStep

-----------------------------------------------------------------------------
(* The theorems *)

NodeZeroInvariant == TalkInvariant /\ IdInvariant

LEMMA InitNodeZero ==
    Init => NodeZeroInvariant
  <1> SUFFICES ASSUME Init PROVE NodeZeroInvariant
    OBVIOUS
  <1>1. ConsoleTypeOK
    <2>1. stdin \in Seq(Requests) /\ stdout \in Seq(Lines)
      BY DEF Init, ConsoleInit
    <2> QED  BY <2>1, ConsoleAssumption DEF Init, ConsoleInit, ConsoleTypeOK, Reading
  <1>2. ConsoleInvariant /\ TurnInvariant /\ GetInvariant
    BY DEF Init, ConsoleInit, ConsoleInvariant, TurnInvariant, InSync, GetInvariant
  <1>3. IdInvariant
    <2>1. /\ stays = 0 /\ id = 0 /\ serverId = 0 /\ zero = "out" /\ server = "none"
          /\ threadStop = FALSE /\ 0 \in 0 .. MaxStays /\ 0 \in 0 .. 0
          /\ node = [n \in Nodes |-> "idle"] /\ got = [n \in Nodes |-> 0]
      BY KaddemoAssumption DEF Init, IdInit
    <2>2. IdTypeOK
      BY <2>1 DEF IdTypeOK
    <2>3. ServerInvariant
      BY <2>1 DEF ServerInvariant
    <2> QED  BY <2>2, <2>3 DEF IdInvariant
  <1> QED  BY <1>1, <1>2, <1>3 DEF NodeZeroInvariant, TalkInvariant

LEMMA NodeZeroInvariantHolds ==
    FairSpec => []NodeZeroInvariant
  <1>1. NodeZeroInvariant /\ [Next]_vars => NodeZeroInvariant'
    BY DialogueStep, NextIsIdStep, IdStepKeeps DEF NodeZeroInvariant
  <1> QED  BY <1>1, InitNodeZero, PTL DEF FairSpec

(***************************************************************************)
(* Between two operations of a wrapper nothing is left in its pipes, for   *)
(* all DHTs, however the threads of the console, the DHT's answers and the *)
(* end of either program fall: no operation reads the lines of another.    *)
(***************************************************************************)
THEOREM DialogueInStep ==
    FairSpec => []DialogueInvariant
  <1>1. NodeZeroInvariant => DialogueInvariant
    BY DEF NodeZeroInvariant, TalkInvariant, IdInvariant, DialogueInvariant, TypeOK,
       TurnInvariant, InSync, Talking
  <1> QED  BY <1>1, NodeZeroInvariantHolds, PTL

(***************************************************************************)
(* doGet returns what the DHT answered to that get and nothing else makes  *)
(* it true: neither an earlier answer nor a line of another kind.          *)
(***************************************************************************)
THEOREM GetIsTrue ==
    FairSpec => GetTellsTheTruth
  <1>1. NodeZeroInvariant /\ [Next]_vars =>
           [wrapper = "getting" /\ wrapper' = "idle" => ret' = (outcome = "found")]_dialogueVars
    BY DialogueStep DEF NodeZeroInvariant
  <1> QED  BY <1>1, NodeZeroInvariantHolds, PTL DEF FairSpec, GetTellsTheTruth

(***************************************************************************)
(* For any number of stays and of nodes that ask, KaddemoIdServer answers  *)
(* with the id that node zero has at that moment.                          *)
(***************************************************************************)
THEOREM IdIsCurrent ==
    FairSpec => AnswersCurrentId
  <1>1. NodeZeroInvariant /\ [Next]_vars =>
           [\A n \in Nodes :
               node[n] = "connected" /\ node'[n] = "answered" => got'[n] = id]_idVars
    BY NextIsIdStep, IdStepKeeps DEF NodeZeroInvariant
  <1> QED  BY <1>1, NodeZeroInvariantHolds, PTL DEF FairSpec, AnswersCurrentId
=============================================================================
