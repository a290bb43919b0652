--------------------------- MODULE ServiceProofs ----------------------------
(***************************************************************************)
(* Theorems about dhtperfd and its clients, for any number of clients,     *)
(* whichever of them vanish, and whether system() fails or not.            *)
(***************************************************************************)
EXTENDS Service, FiniteSetTheorems, TLAPS

\* handle_client has returned for c.
Done(c) ==
    \E i \in 1 .. accepted : arrivals[i] = c /\ (i = accepted => step = "accept")

(***************************************************************************)
(* Every client connects once, and the one being served is the last one    *)
(* accepted.                                                               *)
(***************************************************************************)
QueueInvariant ==
    /\ \A i, j \in 1 .. Len(arrivals) : arrivals[i] = arrivals[j] => i = j
    /\ \A i \in 1 .. Len(arrivals) :
          client[arrivals[i]] \notin {"idle", "connecting"}
    /\ step = "accept" <=> serving = NoClient
    /\ step # "accept" => accepted > 0 /\ serving = arrivals[accepted]

(***************************************************************************)
(* A controller is launched while its client is served, before the ack,    *)
(* and once, or else system() failed.                                      *)
(***************************************************************************)
LaunchInvariant ==
    /\ \A m, n \in 1 .. Len(launches) : launches[m] = launches[n] => m = n
    /\ \A n \in 1 .. Len(launches) :
          /\ command[launches[n]] = "start"
          /\ launches[n] \notin unlaunched
          /\ Done(launches[n]) \/ (step = "ack" /\ serving = launches[n])
    /\ \A c \in unlaunched :
          SystemMayFail /\ (Done(c) \/ (step = "ack" /\ serving = c))
    /\ step = "ack" /\ command[serving] = "start" =>
          Launched(serving) # {} \/ serving \in unlaunched

\* The stop of s left alone a program of o, and it is known why.
Excused(o, s) ==
    \E excuse \in {"shell", "name", "system"} : <<excuse, o, s>> \in missed

\* What the pkill commands of a stop have been through, once handle_client is
\* at each of its steps. The shell that will be a controller is missed by the
\* second one, and known as missed.
Purged ==
    CASE step = "pkillController" -> {"dhtperf-master"}
      [] step = "pkillJava" -> {"dhtperf-master", "sh", "dhtperf-controller"}
      [] step = "ack" -> Programs
      [] OTHER -> {}

PkillInvariant ==
    /\ step \in {"pkillMaster", "pkillController", "pkillJava"} =>
          command[serving] = "stop"
    /\ step # "accept" /\ command[serving] = "stop" =>
          \A q \in processes : q[1] \in Purged => Excused(q[2], serving)

\* An ack was written to c, and c has read it or not.
Answered(c) ==
    client[c] = "ok" \/ \E k \in 1 .. Len(answer[c]) : answer[c][k] = "ack"

AnswerInvariant ==
    \A c \in Clients : Answered(c) =>
        /\ Done(c)
        /\ command[c] = "start" => Launched(c) # {} \/ c \in unlaunched
        /\ command[c] = "stop" =>
              \A q \in processes :
                  q[2] = NoClient \/ Before(q[2], c) => Excused(q[2], c)

ServiceInvariant ==
    /\ TypeOK /\ QueueInvariant /\ LaunchInvariant /\ PkillInvariant
    /\ AnswerInvariant

-----------------------------------------------------------------------------
(* Types *)

\* Whoever is being served is a client.
LEMMA ServingTyped ==
    ASSUME TypeOK, QueueInvariant, step # "accept"
    PROVE  serving \in Clients
  BY DEF TypeOK, QueueInvariant

\* Clients, server and host keep the types of their variables.
LEMMA StepTypeOK ==
    ASSUME TypeOK, QueueInvariant, [Next]_vars
    PROVE  TypeOK'
  <1> USE DEF vars, clientVars, serverVars, hostVars
  <1>1. ASSUME NEW c \in Clients, NEW state \in {"idle"} \cup Live \cup ClientEnded,
               Become(c, state), UNCHANGED <<age, arrivals, sent>>,
               answer' \in [Clients -> Seq({"version", "ack"})], ClientFrame
        PROVE  TypeOK'
    BY <1>1 DEF TypeOK, Become, ClientFrame
  <1>2. ASSUME NEW c \in Clients, Connect(c), ClientFrame
        PROVE  TypeOK'
    <2>1. arrivals' \in Seq(Clients) /\ Len(arrivals') = Len(arrivals) + 1
      BY <1>2 DEF Connect, TypeOK
    <2>2. accepted \in 0 .. Len(arrivals') /\ accepted' = accepted
      BY <1>2, <2>1 DEF TypeOK, ClientFrame
    <2>3. client' \in [Clients -> {"idle"} \cup Live \cup ClientEnded]
      BY <1>2 DEF Connect, Become, TypeOK, Live
    <2>4. QED
      BY <1>2, <2>1, <2>2, <2>3 DEF Connect, ClientFrame, TypeOK
  <1>3. ASSUME NEW c \in Clients, SendCommand(c), ClientFrame
        PROVE  TypeOK'
    <2>1. client' \in [Clients -> {"idle"} \cup Live \cup ClientEnded]
      BY <1>3 DEF SendCommand, Become, TypeOK, Live, ClientEnded
    <2>2. sent' \subseteq Clients
      BY <1>3 DEF SendCommand, TypeOK
    <2>3. QED
      BY <1>3, <2>1, <2>2 DEF SendCommand, ClientFrame, TypeOK
  <1>4. ASSUME NEW c \in Clients, ReadWord(c), ClientFrame
        PROVE  TypeOK'
    <2>1. client' \in [Clients -> {"idle"} \cup Live \cup ClientEnded]
      BY <1>4 DEF ReadWord, Become, TypeOK, Live, ClientEnded
    <2>2. answer' \in [Clients -> Seq({"version", "ack"})]
      BY <1>4 DEF ReadWord, TypeOK
    <2>3. QED
      BY <1>4, <2>1, <2>2 DEF ReadWord, ClientFrame, TypeOK
  <1>5. ASSUME NEW c \in Clients,
               \/ StartClient(c) \/ Refused(c) \/ Vanish(c) \/ ReadEof(c)
               \/ Timeout(c),
               ClientFrame
        PROVE  TypeOK'
    <2>1. UNCHANGED <<age, arrivals, sent, answer>>
          /\ \E state \in {"idle"} \cup Live \cup ClientEnded : Become(c, state)
      BY <1>5 DEF StartClient, Refused, Vanish, ReadEof, Timeout, Live,
                  ClientEnded
    <2>2. QED
      BY <1>1, <1>5, <2>1 DEF TypeOK
  <1>6. CASE ServerStep
    <2>1. UNCHANGED <<command, client, age, arrivals, sent>>
      BY <1>6 DEF ServerStep
    <2>2. /\ accepted' \in 0 .. Len(arrivals)
          /\ serving' \in Clients \cup {NoClient} /\ step' \in Steps
          /\ hungup' \subseteq Clients
      <3>1. CASE Accept
        BY <3>1 DEF Accept, TypeOK, Steps
      <3>2. CASE HandleUnknown \/ Ack
        BY <3>2, ServingTyped DEF HandleUnknown, Ack, Return, TypeOK, Steps
      <3>3. CASE HandlePing \/ HandleStart \/ HandleStop \/ HandleVersion \/ PkillAll
        BY <3>3 DEF HandlePing, HandleStart, HandleStop, HandleVersion,
                    PkillAll, Pkill, Go, TypeOK, Steps
      <3>4. QED
        BY <1>6, <3>1, <3>2, <3>3 DEF ServerStep
    <2>3. answer' \in [Clients -> Seq({"version", "ack"})]
      <3>1. ASSUME NEW word \in {"version", "ack"}, step # "accept",
                   answer' = [answer EXCEPT ![serving] = Append(@, word)]
            PROVE  answer' \in [Clients -> Seq({"version", "ack"})]
        <4>1. serving \in Clients
          BY <3>1, ServingTyped
        <4>2. Append(answer[serving], word) \in Seq({"version", "ack"})
          BY <4>1 DEF TypeOK
        <4>3. QED
          BY <3>1, <4>2 DEF TypeOK
      <3>2. CASE Ack \/ HandleVersion
        BY <3>1, <3>2 DEF Ack, HandleVersion, Received
      <3>3. CASE UNCHANGED answer
        BY <3>3 DEF TypeOK
      <3>4. QED
        BY <1>6, <3>1, <3>2, <3>3
        DEF ServerStep, Accept, HandlePing, HandleStart, HandleStop, PkillAll,
            Pkill, HandleUnknown
    <2>4. /\ launches' \in Seq(Clients) /\ unlaunched' \subseteq Clients
          /\ processes' \subseteq Programs \X (Clients \cup {NoClient})
          /\ missed' \subseteq
                {"shell", "name", "system"} \X (Clients \cup {NoClient}) \X Clients
      <3>1. CASE HandleStart
        <4>1. serving \in Clients
          BY <3>1 DEF HandleStart, Received, TypeOK
        <4>2. <<"sh", serving>> \in Programs \X (Clients \cup {NoClient})
          BY <4>1 DEF Programs
        <4>3. processes' \subseteq processes \cup {<<"sh", serving>>}
          BY <3>1 DEF HandleStart, Launch, SystemFails
        <4>4. launches' \in Seq(Clients) /\ unlaunched' \subseteq Clients
          <5>1. CASE Launch
            BY <4>1, <5>1 DEF Launch, TypeOK
          <5>2. CASE SystemFails /\ unlaunched' = unlaunched \cup {serving}
            BY <4>1, <5>2 DEF SystemFails, TypeOK
          <5>3. QED
            BY <3>1, <5>1, <5>2 DEF HandleStart
        <4>5. QED
          BY <3>1, <4>2, <4>3, <4>4 DEF HandleStart, TypeOK
      <3>2. CASE PkillAll
        <4>1. PICK at, pattern, next :
                 at \in Steps \ {"accept"} /\ Pkill(at, pattern, next)
          BY <3>2 DEF PkillAll, Steps
        <4>2. processes' \subseteq processes /\ UNCHANGED <<launches, unlaunched>>
          BY <4>1 DEF Pkill, SystemFails
        <4>3. \A q \in processes' : q[2] \in Clients \cup {NoClient}
          BY <4>2 DEF TypeOK
        <4>4. serving \in Clients
          BY <4>1, ServingTyped DEF Pkill
        <4>5. \A q : Excuse(q[1]) \in {"shell", "name", "system"}
          BY DEF Excuse
        <4>6. missed' \subseteq missed \cup
                 {<<Excuse(q[1]), q[2], serving>> : q \in processes'}
          BY <4>1 DEF Pkill
        <4>7. QED
          BY <4>2, <4>3, <4>4, <4>5, <4>6 DEF TypeOK
      <3>3. CASE UNCHANGED hostVars
        BY <3>3 DEF TypeOK
      <3>4. QED
        BY <1>6, <3>1, <3>2, <3>3
        DEF ServerStep, Accept, HandlePing, HandleStop, HandleVersion,
            HandleUnknown, Ack
    <2>5. QED
      BY <2>1, <2>2, <2>3, <2>4 DEF TypeOK
  <1>7. CASE HostStep
    <2>1. PICK q \in processes :
             processes' \subseteq processes \cup
                {<<"dhtperf-controller", q[2]>>, <<"java", q[2]>>}
      BY <1>7 DEF HostStep
    <2>2. q[2] \in Clients \cup {NoClient}
      BY DEF TypeOK
    <2>3. processes' \subseteq Programs \X (Clients \cup {NoClient})
      BY <2>1, <2>2 DEF TypeOK, Programs
    <2>4. QED
      BY <1>7, <2>3 DEF HostStep, TypeOK
  <1>8. CASE Tick
    <2>1. age' \in [Clients -> 0 .. ClientTimeout]
      BY <1>8, TimeoutsAssumption DEF Tick, TypeOK
    <2>2. QED
      BY <1>8, <2>1 DEF Tick, TypeOK
  <1>9. CASE UNCHANGED vars
    BY <1>9 DEF TypeOK
  <1>10. QED
    BY <1>2, <1>3, <1>4, <1>5, <1>6, <1>7, <1>8, <1>9
    DEF Next, ClientStep, TimeoutThread, Idle

-----------------------------------------------------------------------------
(* The clients *)

Rest == QueueInvariant /\ LaunchInvariant /\ PkillInvariant /\ AnswerInvariant

\* Steps of the clients that connect nobody and make up no ack.
LEMMA ClientKeeps ==
    ASSUME ServiceInvariant, ClientFrame, UNCHANGED arrivals,
           \A d \in Clients :
              /\ client'[d] \in {"idle", "connecting"} =>
                    client[d] \in {"idle", "connecting"}
              /\ Answered(d)' => Answered(d)
    PROVE  Rest'
  <1> USE DEF ClientFrame, serverVars, hostVars
  <1>1. \A d : Done(d)' <=> Done(d)
    BY DEF Done
  <1>2. \A d : Launched(d)' = Launched(d)
    BY DEF Launched
  <1>3. \A b, d : Before(b, d)' <=> Before(b, d)
    BY DEF Before
  <1>4. QueueInvariant'
    BY DEF ServiceInvariant, QueueInvariant, TypeOK
  <1>5. LaunchInvariant'
    BY <1>1, <1>2 DEF ServiceInvariant, LaunchInvariant
  <1>6. PkillInvariant'
    BY DEF ServiceInvariant, PkillInvariant, Purged, Excused
  <1>7. AnswerInvariant'
    BY <1>1, <1>2, <1>3 DEF ServiceInvariant, AnswerInvariant, Excused
  <1>8. QED
    BY <1>4, <1>5, <1>6, <1>7 DEF Rest

\* A new connection comes last, and nobody who comes before it is affected.
LEMMA ConnectKeeps ==
    ASSUME ServiceInvariant, NEW c \in Clients, Connect(c), ClientFrame
    PROVE  Rest'
  <1> USE DEF ClientFrame, serverVars, hostVars
  <1> DEFINE n == Len(arrivals)
  <1>1. /\ arrivals \in Seq(Clients) /\ n \in Nat /\ accepted \in 0 .. n
        /\ client \in [Clients -> {"idle"} \cup Live \cup ClientEnded]
        /\ arrivals' = Append(arrivals, c)
        /\ client[c] = "connecting" /\ client' = [client EXCEPT ![c] = "connected"]
    BY DEF ServiceInvariant, TypeOK, Connect, Become
  <1>2. /\ Len(arrivals') = n + 1 /\ arrivals'[n + 1] = c
        /\ \A i \in 1 .. n : arrivals'[i] = arrivals[i] /\ arrivals[i] \in Clients
    BY <1>1
  <1>3. \A i \in 1 .. n : arrivals[i] # c
    BY <1>1 DEF ServiceInvariant, QueueInvariant
  <1> HIDE DEF n
  <1>4. \A d : Done(d)' <=> Done(d)
    <2>1. \A i \in 1 .. accepted : arrivals'[i] = arrivals[i]
      BY <1>1, <1>2
    <2>2. QED
      BY <2>1 DEF Done
  <1>5. \A d : Launched(d)' = Launched(d)
    BY DEF Launched
  <1>6. \A d \in Clients : Answered(d)' => Answered(d)
    BY <1>1 DEF Answered, Connect
  <1>7. ASSUME NEW b, NEW d, Before(b, d)', d # c
        PROVE  Before(b, d)
    <2>1. PICK i, j \in 1 .. n + 1 :
             i < j /\ arrivals'[i] = b /\ arrivals'[j] = d
      BY <1>2, <1>7 DEF Before
    <2>2. j \in 1 .. n /\ i \in 1 .. n
      BY <1>1, <1>2, <1>7, <2>1
    <2>3. QED
      BY <1>2, <2>1, <2>2 DEF Before, n
  <1>8. ~Answered(c)
    <2>1. ~Done(c)
      BY <1>1, <1>3 DEF Done
    <2>2. QED
      BY <2>1 DEF ServiceInvariant, AnswerInvariant
  <1>9. QueueInvariant'
    <2>1. \A i, j \in 1 .. n + 1 : arrivals'[i] = arrivals'[j] => i = j
      <3>1. \A i \in 1 .. n + 1 : i \in 1 .. n \/ i = n + 1
        BY <1>1
      <3>2. \A i, j \in 1 .. n : arrivals[i] = arrivals[j] => i = j
        BY DEF ServiceInvariant, QueueInvariant, n
      <3>3. QED
        BY <1>2, <1>3, <3>1, <3>2
    <2>2. \A i \in 1 .. n + 1 : client'[arrivals'[i]] \notin {"idle", "connecting"}
      <3>1. \A i \in 1 .. n : client[arrivals[i]] \notin {"idle", "connecting"}
        BY DEF ServiceInvariant, QueueInvariant, n
      <3>2. \A i \in 1 .. n + 1 : i \in 1 .. n \/ i = n + 1
        BY <1>1
      <3>3. QED
        BY <1>1, <1>2, <1>3, <3>1, <3>2
    <2>3. step # "accept" => accepted > 0 /\ serving = arrivals'[accepted]
      BY <1>1, <1>2 DEF ServiceInvariant, QueueInvariant
    <2>4. step = "accept" <=> serving = NoClient
      BY DEF ServiceInvariant, QueueInvariant
    <2>5. QED
      BY <1>2, <2>1, <2>2, <2>3, <2>4 DEF QueueInvariant
  <1>10. LaunchInvariant'
    BY <1>4, <1>5 DEF ServiceInvariant, LaunchInvariant
  <1>11. PkillInvariant'
    BY DEF ServiceInvariant, PkillInvariant, Purged, Excused
  <1>12. AnswerInvariant'
    BY <1>4, <1>5, <1>6, <1>7, <1>8
    DEF ServiceInvariant, AnswerInvariant, Excused
  <1>13. QED
    BY <1>9, <1>10, <1>11, <1>12 DEF Rest

\* Reading a word: an ok comes from an ack that was written to this client.
LEMMA ReadWordKeeps ==
    ASSUME ServiceInvariant, NEW c \in Clients, ReadWord(c), ClientFrame
    PROVE  Rest'
  <1>1. /\ client \in [Clients -> {"idle"} \cup Live \cup ClientEnded]
        /\ answer \in [Clients -> Seq({"version", "ack"})]
        /\ answer[c] # <<>> /\ answer' = [answer EXCEPT ![c] = Tail(@)]
        /\ client[c] \in {"waitVersion", "waitReply"}
        /\ UNCHANGED arrivals
    BY DEF ServiceInvariant, TypeOK, ReadWord
  <1>2. /\ client'[c] \notin {"idle", "connecting"}
        /\ client'[c] = "ok" => Head(answer[c]) = "ack"
        /\ \A d \in Clients : d # c => client'[d] = client[d]
    BY <1>1 DEF ReadWord, Become
  <1>3. /\ answer[c] \in Seq({"version", "ack"})
        /\ Len(answer[c]) \in Nat \ {0} /\ Head(answer[c]) = answer[c][1]
        /\ Len(Tail(answer[c])) = Len(answer[c]) - 1
        /\ \A k \in 1 .. Len(answer[c]) - 1 :
              /\ Tail(answer[c])[k] = answer[c][k + 1]
              /\ k + 1 \in 1 .. Len(answer[c])
    BY <1>1
  <1>4. Answered(c)' => Answered(c)
    <2>1. CASE client'[c] = "ok"
      BY <1>2, <1>3, <2>1 DEF Answered
    <2>2. CASE \E k \in 1 .. Len(answer'[c]) : answer'[c][k] = "ack"
      <3>1. answer'[c] = Tail(answer[c])
        BY <1>1
      <3>2. PICK k \in 1 .. Len(answer[c]) - 1 : Tail(answer[c])[k] = "ack"
        BY <1>3, <2>2, <3>1
      <3>3. QED
        BY <1>3, <3>2 DEF Answered
    <2>3. QED
      BY <2>1, <2>2 DEF Answered
  <1>5. \A d \in Clients : d # c => (Answered(d)' <=> Answered(d))
    BY <1>1, <1>2 DEF Answered
  <1>6. \A d \in Clients :
           /\ client'[d] \in {"idle", "connecting"} =>
                 client[d] \in {"idle", "connecting"}
           /\ Answered(d)' => Answered(d)
    BY <1>2, <1>4, <1>5
  <1>7. QED
    BY <1>1, <1>6, ClientKeeps

\* The other steps of a client.
LEMMA BecomeKeeps ==
    ASSUME ServiceInvariant, NEW c \in Clients, ClientFrame,
           \/ StartClient(c) \/ Refused(c) \/ Vanish(c) \/ ReadEof(c)
           \/ Timeout(c) \/ SendCommand(c)
    PROVE  Rest'
  <1>1. client \in [Clients -> {"idle"} \cup Live \cup ClientEnded]
    BY DEF ServiceInvariant, TypeOK
  <1>2. UNCHANGED <<arrivals, answer>>
    BY DEF StartClient, Refused, Vanish, ReadEof, Timeout, SendCommand
  <1>3. PICK state : /\ client' = [client EXCEPT ![c] = state]
                     /\ state # "ok"
                     /\ state \in {"idle", "connecting"} =>
                           client[c] \in {"idle", "connecting"}
    BY DEF StartClient, Refused, Vanish, ReadEof, Timeout, SendCommand, Become
  <1>4. \A d \in Clients :
           /\ client'[d] \in {"idle", "connecting"} =>
                 client[d] \in {"idle", "connecting"}
           /\ client'[d] = "ok" => client[d] = "ok"
    BY <1>1, <1>3
  <1>5. \A d \in Clients : Answered(d)' => Answered(d)
    BY <1>2, <1>4 DEF Answered
  <1>6. QED
    BY <1>2, <1>4, <1>5, ClientKeeps

-----------------------------------------------------------------------------
(* The service *)

\* Nobody is done while handle_client still runs for him.
LEMMA ServingNotDone ==
    ASSUME ServiceInvariant, step # "accept"
    PROVE  /\ ~Done(serving) /\ serving \in Clients
           /\ accepted \in 1 .. Len(arrivals) /\ serving = arrivals[accepted]
  <1>1. /\ accepted \in 1 .. Len(arrivals) /\ serving = arrivals[accepted]
        /\ arrivals \in Seq(Clients)
    BY DEF ServiceInvariant, QueueInvariant, TypeOK
  <1>2. \A i \in 1 .. accepted : arrivals[i] = serving => i = accepted
    BY <1>1 DEF ServiceInvariant, QueueInvariant
  <1>3. QED
    BY <1>1, <1>2 DEF Done

LEMMA AcceptKeeps ==
    ASSUME ServiceInvariant, Accept, UNCHANGED <<command, clientVars>>
    PROVE  Rest'
  <1> USE DEF clientVars, hostVars
  <1>1. /\ step = "accept" /\ step' = "read"
        /\ accepted \in Nat /\ accepted < Len(arrivals)
        /\ Len(arrivals) \in Nat
        /\ accepted' = accepted + 1 /\ serving' = arrivals[accepted + 1]
        /\ arrivals[accepted + 1] \in Clients
        /\ UNCHANGED <<answer, launches, unlaunched, processes, missed>>
    BY DEF Accept, ServiceInvariant, TypeOK
  <1>2. \A d : Done(d)' <=> Done(d)
    <2>1. \A i \in 1 .. accepted + 1 : i \in 1 .. accepted \/ i = accepted + 1
      BY <1>1
    <2>2. \A i \in 1 .. accepted : i \in 1 .. accepted + 1 /\ i # accepted + 1
      BY <1>1
    <2>3. QED
      BY <1>1, <2>1, <2>2 DEF Done
  <1>3. \A d : Launched(d)' = Launched(d)
    BY <1>1 DEF Launched
  <1>4. \A b, d : Before(b, d)' <=> Before(b, d)
    BY DEF Before
  <1>5. \A d : Answered(d)' <=> Answered(d)
    BY <1>1 DEF Answered
  <1>6. QueueInvariant'
    BY <1>1, ClientsAssumption DEF ServiceInvariant, QueueInvariant
  <1>7. LaunchInvariant'
    BY <1>1, <1>2, <1>3 DEF ServiceInvariant, LaunchInvariant
  <1>8. PkillInvariant'
    BY <1>1 DEF PkillInvariant, Purged
  <1>9. AnswerInvariant'
    BY <1>1, <1>2, <1>3, <1>4, <1>5
    DEF ServiceInvariant, AnswerInvariant, Excused
  <1>10. QED
    BY <1>6, <1>7, <1>8, <1>9 DEF Rest

\* Steps within handle_client change neither who is served nor who is done.
LEMMA GoKeeps ==
    ASSUME ServiceInvariant, NEW next \in Steps \ {"accept"}, Go(next),
           step # "accept", UNCHANGED <<command, clientVars>>
    PROVE  /\ QueueInvariant'
           /\ \A d : Done(d)' <=> Done(d)
           /\ \A b, d : Before(b, d)' <=> Before(b, d)
  <1> USE DEF clientVars, Go
  <1>1. \A d : Done(d)' <=> Done(d)
    BY DEF Done
  <1>2. QED
    BY <1>1 DEF Before, ServiceInvariant, QueueInvariant

\* ping, update, version, and the beginning of stop.
LEMMA ReplyKeeps ==
    ASSUME ServiceInvariant, HandlePing \/ HandleStop \/ HandleVersion,
           UNCHANGED <<command, clientVars>>
    PROVE  Rest'
  <1>1. PICK next \in {"ack", "pkillMaster"} :
           /\ step = "read" /\ Go(next) /\ UNCHANGED hostVars
           /\ IF next = "ack" THEN command[serving] \in {"ping", "update", "version"}
                              ELSE command[serving] = "stop"
    BY DEF HandlePing, HandleStop, HandleVersion, Received
  <1>2. /\ QueueInvariant'
        /\ \A d : Done(d)' <=> Done(d)
        /\ \A b, d : Before(b, d)' <=> Before(b, d)
    BY <1>1, GoKeeps DEF Steps
  <1>3. /\ \A d : Launched(d)' = Launched(d)
        /\ step' = next /\ serving' = serving
        /\ UNCHANGED <<launches, unlaunched, processes, missed, command, client>>
    BY <1>1 DEF Launched, hostVars, Go, clientVars
  <1>4. \A d \in Clients : Answered(d)' => Answered(d)
    <2>1. CASE UNCHANGED answer
      BY <1>3, <2>1 DEF Answered
    <2>2. CASE answer' = [answer EXCEPT ![serving] = Append(@, "version")]
      <3> SUFFICES ASSUME NEW d \in Clients, NEW k \in 1 .. Len(answer'[d]),
                          answer'[d][k] = "ack"
                   PROVE  Answered(d)
        BY <1>3 DEF Answered
      <3>1. answer[d] \in Seq({"version", "ack"})
        BY DEF ServiceInvariant, TypeOK
      <3>2. CASE d # serving
        BY <2>2, <3>2 DEF Answered, ServiceInvariant, TypeOK
      <3>3. CASE d = serving
        <4>1. answer'[d] = Append(answer[d], "version")
          BY <2>2, <3>3 DEF ServiceInvariant, TypeOK
        <4>2. k \in 1 .. Len(answer[d]) /\ answer[d][k] = "ack"
          BY <3>1, <4>1
        <4>3. QED
          BY <4>2 DEF Answered
      <3>4. QED
        BY <3>2, <3>3
    <2>3. QED
      BY <2>1, <2>2 DEF HandlePing, HandleStop, HandleVersion
  <1>5. LaunchInvariant'
    BY <1>1, <1>2, <1>3 DEF ServiceInvariant, LaunchInvariant
  <1>6. PkillInvariant'
    BY <1>1, <1>3 DEF PkillInvariant, Purged
  <1>7. AnswerInvariant'
    BY <1>2, <1>3, <1>4 DEF ServiceInvariant, AnswerInvariant, Excused
  <1>8. QED
    BY <1>2, <1>5, <1>6, <1>7 DEF Rest

\* A start launches for the client being served, who had none, or is known as
\* unlaunched, and comes after every stop that was answered.
LEMMA HandleStartKeeps ==
    ASSUME ServiceInvariant, HandleStart, UNCHANGED <<command, clientVars>>
    PROVE  Rest'
  <1>1. /\ step = "read" /\ Go("ack") /\ command[serving] = "start"
        /\ Launch \/ (SystemFails /\ unlaunched' = unlaunched \cup {serving})
        /\ processes' \subseteq processes \cup {<<"sh", serving>>}
        /\ UNCHANGED <<answer, missed, client, command>>
    BY DEF HandleStart, Received, Launch, SystemFails, clientVars
  <1>2. /\ QueueInvariant'
        /\ \A d : Done(d)' <=> Done(d)
        /\ \A b, d : Before(b, d)' <=> Before(b, d)
    BY <1>1, GoKeeps DEF Steps
  <1>3. ~Done(serving) /\ serving \in Clients
        /\ accepted \in 1 .. Len(arrivals) /\ serving = arrivals[accepted]
    BY <1>1, ServingNotDone
  <1>4. step' = "ack" /\ serving' = serving
    BY <1>1 DEF Go
  <1>5. /\ \A k \in 1 .. Len(launches) :
              /\ Done(launches[k]) /\ command[launches[k]] = "start"
              /\ launches[k] \notin unlaunched
        /\ \A c \in unlaunched : SystemMayFail /\ Done(c)
        /\ \A i, j \in 1 .. Len(launches) : launches[i] = launches[j] => i = j
    BY <1>1 DEF ServiceInvariant, LaunchInvariant
  <1>6. /\ \A d : Launched(d) \subseteq Launched(d)'
        /\ unlaunched \subseteq unlaunched'
        /\ LaunchInvariant'
    <2>1. CASE Launch
      <3> DEFINE n == Len(launches)
      <3>1. /\ n \in Nat /\ Len(launches') = n + 1 /\ launches'[n + 1] = serving
            /\ \A k \in 1 .. n : launches'[k] = launches[k]
            /\ \A k \in 1 .. n + 1 : k \in 1 .. n \/ k = n + 1
            /\ \A k \in 1 .. n : k \in 1 .. n + 1
            /\ n + 1 \in 1 .. n + 1
            /\ unlaunched' = unlaunched
        BY <1>3, <2>1 DEF Launch, ServiceInvariant, TypeOK
      <3>2. /\ \A d : Launched(d) \subseteq Launched(d)'
            /\ n + 1 \in Launched(serving)'
        BY <1>4, <3>1 DEF Launched
      <3> HIDE DEF n
      <3>3. \A i, j \in 1 .. n + 1 : launches'[i] = launches'[j] => i = j
        BY <1>3, <1>5, <3>1 DEF n
      <3>4. \A k \in 1 .. n + 1 : \E d :
               /\ d = launches'[k] /\ command[d] = "start" /\ d \notin unlaunched
               /\ Done(d)' \/ d = serving
        BY <1>1, <1>2, <1>3, <1>5, <3>1 DEF n
      <3>5. \A k \in 1 .. n + 1 :
               command[launches'[k]] = "start" /\ launches'[k] \notin unlaunched
        BY <3>4
      <3>6. \A k \in 1 .. n + 1 : Done(launches[k])' \/ launches'[k] = serving
        BY <3>4 DEF Done
      <3>7. \A c \in unlaunched : SystemMayFail /\ Done(c)'
        BY <1>2, <1>5
      <3>8. Launched(serving)' # {}
        BY <3>2
      <3>9. Len(launches)' = n + 1 /\ unlaunched' = unlaunched /\ command' = command
        BY <1>1, <3>1
      <3>10. \A k \in 1 .. n + 1 :
               Done(launches[k])' \/ (step' = "ack" /\ serving' = launches'[k])
        BY <1>4, <3>6
      <3>11. \A c \in unlaunched' : SystemMayFail /\ Done(c)'
        BY <3>7, <3>9
      <3>12. (/\ \A i, j \in 1 .. Len(launches) : launches[i] = launches[j] => i = j
              /\ \A k \in 1 .. Len(launches) :
                    /\ command[launches[k]] = "start"
                    /\ launches[k] \notin unlaunched
                    /\ Done(launches[k]) \/ (step = "ack" /\ serving = launches[k]))'
        BY <3>3, <3>5, <3>9, <3>10 DEF Done
      <3>13. LaunchInvariant'
        BY <1>4, <3>8, <3>11, <3>12 DEF LaunchInvariant, Done
      <3>14. QED
        BY <3>2, <3>9, <3>13
    <2>2. CASE SystemFails /\ unlaunched' = unlaunched \cup {serving}
      <3>1. \A d : Launched(d)' = Launched(d)
        BY <2>2 DEF SystemFails, Launched
      <3>2. \A k \in 1 .. Len(launches) : launches[k] # serving
        BY <1>3, <1>5
      <3>3. QED
        BY <1>1, <1>2, <1>4, <1>5, <2>2, <3>1, <3>2
        DEF SystemFails, LaunchInvariant
    <2>3. QED
      BY <1>1, <2>1, <2>2
  <1>7. PkillInvariant'
    BY <1>1, <1>4 DEF PkillInvariant
  <1>8. AnswerInvariant'
    <2> SUFFICES ASSUME NEW c \in Clients, Answered(c)'
                 PROVE  /\ Done(c)'
                        /\ command[c] = "start" => Launched(c)' # {} \/ c \in unlaunched'
                        /\ command[c] = "stop" =>
                              \A q \in processes' :
                                  q[2] = NoClient \/ Before(q[2], c)'
                                      => Excused(q[2], c)
      BY <1>1 DEF AnswerInvariant, Excused
    <2>1. Answered(c)
      BY <1>1 DEF Answered
    <2>2. /\ Done(c)
          /\ command[c] = "start" => Launched(c) # {} \/ c \in unlaunched
          /\ command[c] = "stop" =>
                \A q \in processes :
                    q[2] = NoClient \/ Before(q[2], c) => Excused(q[2], c)
      BY <2>1 DEF ServiceInvariant, AnswerInvariant
    <2>3. ~Before(serving, c)
      <3>1. \A i \in 1 .. Len(arrivals) : arrivals[i] = serving => i = accepted
        BY <1>3 DEF ServiceInvariant, QueueInvariant
      <3>2. \A j \in 1 .. Len(arrivals) : arrivals[j] = c => j <= accepted
        <4>1. PICK i \in 1 .. accepted : arrivals[i] = c
          BY <2>2 DEF Done
        <4>2. i \in 1 .. Len(arrivals) /\ i <= accepted
          BY <1>3, <4>1
        <4>3. QED
          BY <4>1, <4>2 DEF ServiceInvariant, QueueInvariant
      <3>3. Len(arrivals) \in Nat
        BY DEF ServiceInvariant, TypeOK
      <3>4. QED
        BY <1>3, <3>1, <3>2, <3>3 DEF Before
    <2>4. ASSUME NEW q \in processes', command[c] = "stop",
                 q[2] = NoClient \/ Before(q[2], c)'
          PROVE  Excused(q[2], c)
      <3>1. q[2] = NoClient \/ Before(q[2], c)
        <4>1. PICK b : b = q[2]
          OBVIOUS
        <4>2. b = NoClient \/ Before(b, c)'
          BY <2>4, <4>1 DEF Before
        <4>3. QED
          BY <1>2, <4>1, <4>2
      <3>2. q # <<"sh", serving>>
        BY <1>3, <2>3, <3>1, ClientsAssumption
      <3>3. QED
        BY <1>1, <2>2, <2>4, <3>1, <3>2
    <2>5. QED
      BY <1>1, <1>2, <1>6, <2>2, <2>4 DEF Excused
  <1>9. QED
    BY <1>2, <1>6, <1>7, <1>8 DEF Rest

\* A pkill leaves nothing of its program that it has not noted as missed, and
\* brings nothing back.
LEMMA PkillKeeps ==
    ASSUME ServiceInvariant, PkillAll, UNCHANGED <<command, clientVars>>
    PROVE  Rest'
  <1>1. PICK at, pattern, next :
           /\ <<at, pattern, next>> \in
                {<<"pkillMaster", "dhtperf-master", "pkillController">>,
                 <<"pkillController", "dhtperf-controller", "pkillJava">>,
                 <<"pkillJava", "java", "ack">>}
           /\ Pkill(at, pattern, next)
    BY DEF PkillAll
  <1>2. /\ step = at /\ Go(next) /\ processes' \subseteq processes
        /\ missed \subseteq missed'
        /\ \A r \in processes' :
              r[1] = pattern \/ (r[1] = "sh" /\ pattern = "dhtperf-controller")
                 => Excused(r[2], serving)'
        /\ UNCHANGED <<answer, launches, unlaunched>>
    <2>1. /\ step = at /\ Go(next) /\ processes' \subseteq processes
          /\ missed \subseteq missed'
          /\ UNCHANGED <<answer, launches, unlaunched>>
      BY <1>1 DEF Pkill, SystemFails
    <2>2. \A r \in processes' :
             r[1] = pattern \/ (r[1] = "sh" /\ pattern = "dhtperf-controller")
                => <<Excuse(r[1]), r[2], serving>> \in missed'
      BY <1>1 DEF Pkill
    <2>3. \A r : Excuse(r[1]) \in {"shell", "name", "system"}
      BY DEF Excuse
    <2>4. serving' = serving
      BY <2>1 DEF Go
    <2>5. QED
      BY <2>1, <2>2, <2>3, <2>4 DEF Excused
  <1>3. /\ QueueInvariant'
        /\ \A d : Done(d)' <=> Done(d)
        /\ \A b, d : Before(b, d)' <=> Before(b, d)
    BY <1>1, <1>2, GoKeeps DEF Steps
  <1>4. /\ \A d : Launched(d)' = Launched(d)
        /\ \A d : Answered(d)' <=> Answered(d)
        /\ step' = next /\ serving' = serving /\ UNCHANGED command
        /\ command[serving] = "stop"
    BY <1>1, <1>2
    DEF Launched, Answered, Go, clientVars, ServiceInvariant, PkillInvariant
  <1>5. LaunchInvariant'
    <2>1. step' = "ack" => command[serving] # "start"
      BY <1>4
    <2>2. /\ \A k \in 1 .. Len(launches) :
                command[launches[k]] = "start" /\ Done(launches[k])
          /\ \A c \in unlaunched : Done(c)
      BY <1>1, <1>2 DEF ServiceInvariant, LaunchInvariant
    <2>3. QED
      BY <1>2, <1>3, <1>4, <2>1, <2>2 DEF ServiceInvariant, LaunchInvariant
  <1>6. PkillInvariant'
    <2>1. \A q \in processes : q[1] \in Purged => Excused(q[2], serving)'
      BY <1>1, <1>2, <1>4 DEF ServiceInvariant, PkillInvariant, Excused
    <2>2. ASSUME NEW q \in processes', q[1] \in Purged'
          PROVE  Excused(q[2], serving)'
      <3>1. q \in processes /\ q[1] \in Programs
        BY <1>2 DEF ServiceInvariant, TypeOK
      <3>2. CASE at = "pkillMaster"
        BY <1>1, <1>2, <1>4, <2>1, <2>2, <3>1, <3>2 DEF Purged
      <3>3. CASE at = "pkillController"
        BY <1>1, <1>2, <1>4, <2>1, <2>2, <3>1, <3>3 DEF Purged
      <3>4. CASE at = "pkillJava"
        BY <1>1, <1>2, <1>4, <2>1, <2>2, <3>1, <3>4 DEF Purged, Programs
      <3>5. QED
        BY <1>1, <3>2, <3>3, <3>4
    <2>3. QED
      BY <1>4, <2>2 DEF PkillInvariant
  <1>7. AnswerInvariant'
    BY <1>2, <1>3, <1>4 DEF ServiceInvariant, AnswerInvariant, Excused
  <1>8. QED
    BY <1>3, <1>5, <1>6, <1>7 DEF Rest

\* handle_client returns: the client it was called for is done.
LEMMA ReturnKeeps ==
    ASSUME ServiceInvariant, HandleUnknown \/ Ack,
           UNCHANGED <<command, clientVars>>
    PROVE  Rest'
  <1>1. /\ step # "accept" /\ step' = "accept" /\ serving' = NoClient
        /\ UNCHANGED <<accepted, arrivals, command, client, launches,
                       unlaunched, processes, missed>>
    BY DEF HandleUnknown, Ack, Return, hostVars, clientVars
  <1>2. /\ ~Done(serving) /\ serving \in Clients
        /\ accepted \in 1 .. Len(arrivals) /\ serving = arrivals[accepted]
    BY <1>1, ServingNotDone
  <1>3. \A d : Done(d)' <=> Done(d) \/ d = serving
    <2>1. accepted \in 1 .. accepted
      BY <1>2
    <2>2. QED
      BY <1>1, <1>2, <2>1 DEF Done
  <1>4. /\ \A d : Launched(d)' = Launched(d)
        /\ \A b, d : Before(b, d)' <=> Before(b, d)
    BY <1>1 DEF Launched, Before
  <1>5. QueueInvariant'
    BY <1>1 DEF ServiceInvariant, QueueInvariant
  <1>6. LaunchInvariant'
    BY <1>1, <1>3, <1>4 DEF ServiceInvariant, LaunchInvariant
  <1>7. PkillInvariant'
    BY <1>1 DEF PkillInvariant
  <1>8. ASSUME NEW c \in Clients, Answered(c)'
        PROVE  Answered(c) \/ (c = serving /\ step = "ack")
    <2>1. CASE HandleUnknown
      BY <1>1, <1>8, <2>1 DEF HandleUnknown, Answered
    <2>2. CASE Ack /\ c # serving
      <3>1. answer'[c] = answer[c]
        BY <2>2 DEF Ack, ServiceInvariant, TypeOK
      <3>2. QED
        BY <1>1, <1>8, <3>1 DEF Answered
    <2>3. CASE Ack /\ c = serving
      BY <2>3 DEF Ack
    <2>4. QED
      BY <2>1, <2>2, <2>3
  <1>9. AnswerInvariant'
    <2> SUFFICES ASSUME NEW c \in Clients, Answered(c)'
                 PROVE  /\ Done(c)'
                        /\ command[c] = "start" => Launched(c)' # {} \/ c \in unlaunched'
                        /\ command[c] = "stop" =>
                              \A q \in processes :
                                  q[2] = NoClient \/ Before(q[2], c)
                                      => Excused(q[2], c)
      BY <1>1, <1>4 DEF AnswerInvariant, Excused
    <2>1. CASE Answered(c)
      BY <1>1, <1>3, <1>4, <2>1 DEF ServiceInvariant, AnswerInvariant
    <2>2. CASE c = serving /\ step = "ack"
      <3>1. command[c] = "start" => Launched(c)' # {} \/ c \in unlaunched'
        BY <1>1, <1>4, <2>2 DEF ServiceInvariant, LaunchInvariant
      <3>2. command[c] = "stop" =>
               \A q \in processes : Excused(q[2], serving)
        <4>1. \A q \in processes : q[1] \in Programs
          BY DEF ServiceInvariant, TypeOK
        <4>2. Purged = Programs
          BY <2>2 DEF Purged
        <4>3. QED
          BY <2>2, <4>1, <4>2 DEF ServiceInvariant, PkillInvariant
      <3>3. QED
        BY <1>3, <2>2, <3>1, <3>2
    <2>3. QED
      BY <1>8, <2>1, <2>2
  <1>10. QED
    BY <1>5, <1>6, <1>7, <1>9 DEF Rest

\* A program that becomes or starts another keeps its owner: one that a pkill
\* missed was known as missed, and one it did not miss is gone.
LEMMA HostKeeps ==
    ASSUME ServiceInvariant, HostStep
    PROVE  Rest'
  <1>1. UNCHANGED <<command, client, arrivals, answer, accepted, serving, step,
                    launches, unlaunched, missed>>
    BY DEF HostStep, clientVars, serverVars
  <1>2. ASSUME NEW r \in processes'
        PROVE  \E q \in processes :
                  /\ q[2] = r[2]
                  /\ q = r \/ (q[1] = "sh" /\ r[1] = "dhtperf-controller")
                           \/ (q[1] = "dhtperf-controller" /\ r[1] = "java")
    BY DEF HostStep
  <1>3. /\ \A d : (Done(d)' <=> Done(d)) /\ Launched(d)' = Launched(d)
        /\ \A b, d : Before(b, d)' <=> Before(b, d)
        /\ \A d : Answered(d)' <=> Answered(d)
        /\ Purged' = Purged
        /\ \A o, d : Excused(o, d)' <=> Excused(o, d)
    BY <1>1 DEF Done, Launched, Before, Answered, Purged, Excused
  <1>4. QueueInvariant'
    BY <1>1 DEF ServiceInvariant, QueueInvariant
  <1>5. LaunchInvariant'
    BY <1>1, <1>3 DEF ServiceInvariant, LaunchInvariant
  <1>6. PkillInvariant'
    <2>1. \/ "dhtperf-controller" \in Purged => "sh" \in Purged
          \/ Purged = Programs
      BY DEF Purged
    <2>2. "java" \in Purged => Purged = Programs
      BY DEF Purged
    <2>3. \A q \in processes : q[1] \in Programs
      BY DEF ServiceInvariant, TypeOK
    <2>4. QED
      BY <1>1, <1>2, <1>3, <2>1, <2>2, <2>3
      DEF ServiceInvariant, PkillInvariant
  <1>7. AnswerInvariant'
    <2> SUFFICES ASSUME NEW c \in Clients, Answered(c)
                 PROVE  /\ Done(c)
                        /\ command[c] = "start" => Launched(c) # {} \/ c \in unlaunched
                        /\ command[c] = "stop" =>
                              \A r \in processes' :
                                  r[2] = NoClient \/ Before(r[2], c)
                                      => Excused(r[2], c)
      <3>1. ASSUME NEW c \in Clients, NEW r
            PROVE  Before(r[2], c)' <=> Before(r[2], c)
        BY <1>1 DEF Before
      <3>2. QED
        BY <1>1, <1>3, <3>1 DEF AnswerInvariant
    <2>1. /\ Done(c)
          /\ command[c] = "start" => Launched(c) # {} \/ c \in unlaunched
          /\ command[c] = "stop" =>
                \A q \in processes :
                    q[2] = NoClient \/ Before(q[2], c) => Excused(q[2], c)
      BY DEF ServiceInvariant, AnswerInvariant
    <2>2. QED
      BY <1>2, <2>1
  <1>8. QED
    BY <1>4, <1>5, <1>6, <1>7 DEF Rest

LEMMA InitService == Init => ServiceInvariant
  <1> SUFFICES ASSUME Init PROVE ServiceInvariant
    OBVIOUS
  <1>1. TypeOK
    <2>1. /\ command \in [Clients -> Commands]
          /\ age \in [Clients -> 0 .. ClientTimeout]
      BY UsedAssumption, TimeoutsAssumption DEF Init
    <2>2. processes \subseteq Programs \X (Clients \cup {NoClient})
      BY DEF Init, Programs
    <2>3. QED
      BY <2>1, <2>2 DEF Init, TypeOK, Steps
  <1>2. QueueInvariant
    BY DEF Init, QueueInvariant
  <1>3. LaunchInvariant /\ PkillInvariant
    BY DEF Init, LaunchInvariant, PkillInvariant
  <1>4. AnswerInvariant
    BY DEF Init, AnswerInvariant, Answered
  <1>5. QED
    BY <1>1, <1>2, <1>3, <1>4 DEF ServiceInvariant

LEMMA StepService ==
    ASSUME ServiceInvariant, [Next]_vars
    PROVE  ServiceInvariant'
  <1>1. TypeOK'
    BY StepTypeOK DEF ServiceInvariant
  <1>2. Rest'
    <2>1. ASSUME NEW c \in Clients,
                 \/ (StartClient(c) \/ Connect(c) \/ Refused(c) \/ Vanish(c))
                       /\ ClientFrame
                 \/ ClientStep(c) \/ TimeoutThread(c)
          PROVE  Rest'
      BY <2>1, ConnectKeeps, ReadWordKeeps, BecomeKeeps
      DEF ClientStep, TimeoutThread
    <2>2. CASE ServerStep
      BY <2>2, AcceptKeeps, ReplyKeeps, HandleStartKeeps, PkillKeeps,
         ReturnKeeps
      DEF ServerStep
    <2>3. CASE HostStep
      BY <2>3, HostKeeps
    <2>4. CASE Tick \/ UNCHANGED vars
      <3>1. ClientFrame /\ UNCHANGED <<client, arrivals, answer>>
        BY <2>4 DEF Tick, vars, clientVars, ClientFrame
      <3>2. \A d \in Clients : Answered(d)' <=> Answered(d)
        BY <3>1 DEF Answered
      <3>3. QED
        BY <3>1, <3>2, ClientKeeps
    <2>5. QED
      BY <2>1, <2>2, <2>3, <2>4 DEF Next, Idle
  <1>3. QED
    BY <1>1, <1>2 DEF ServiceInvariant, Rest

LEMMA ServiceCorrect == Spec => []ServiceInvariant
  <1>1. Init => ServiceInvariant
    BY InitService
  <1>2. ServiceInvariant /\ [Next]_vars => ServiceInvariant'
    BY StepService
  <1>3. QED
    BY <1>1, <1>2, PTL DEF Spec

-----------------------------------------------------------------------------
(***************************************************************************)
(* An acknowledged start of dhtperfd-client launched one controller, or    *)
(* its system() failed, and no client ever gets two: for any number of     *)
(* clients that time out or vanish at any point.                           *)
(***************************************************************************)
THEOREM AckMeansLaunched == Spec => []AckInvariant
  <1>1. ServiceInvariant => AckInvariant
    <2> SUFFICES ASSUME ServiceInvariant, NEW c \in Clients
                 PROVE  /\ Cardinality(Launched(c)) <= 1
                        /\ Launched(c) # {} =>
                              command[c] = "start" /\ c \notin unlaunched
                        /\ command[c] = "start" /\ client[c] = "ok" =>
                              Launched(c) # {} \/ c \in unlaunched
                        /\ c \in unlaunched => SystemMayFail
      BY DEF AckInvariant, AckedStartLaunchedOnce, ServiceInvariant
    <2>1. Cardinality(Launched(c)) <= 1
      <3>1. CASE Launched(c) = {}
        BY <3>1, FS_EmptySet
      <3>2. ASSUME NEW n \in Launched(c)
            PROVE  Cardinality(Launched(c)) = 1
        <4>1. Launched(c) = {n}
          BY DEF Launched, ServiceInvariant, LaunchInvariant
        <4>2. QED
          BY <4>1, FS_Singleton
      <3>3. QED
        BY <3>1, <3>2
    <2>2. /\ Launched(c) # {} => command[c] = "start" /\ c \notin unlaunched
          /\ c \in unlaunched => SystemMayFail
      BY DEF Launched, ServiceInvariant, LaunchInvariant
    <2>3. command[c] = "start" /\ client[c] = "ok" =>
             Launched(c) # {} \/ c \in unlaunched
      BY DEF ServiceInvariant, AnswerInvariant, Answered
    <2>4. QED
      BY <2>1, <2>2, <2>3
  <1>2. QED
    BY <1>1, ServiceCorrect, PTL

(***************************************************************************)
(* After an acknowledged stop of dhtperfd-client no master runs and no     *)
(* program of a start before it, but for those of starts of which this     *)
(* stop found a controller or a shell, which its pkill does not match, and *)
(* those a failing system() spared: a console whose controller was gone is *)
(* ended, and none comes back.                                             *)
(***************************************************************************)
THEOREM StopEndsOrphans == Spec => []NothingElseSurvivesStop
  <1>1. ServiceInvariant => NothingElseSurvivesStop
    BY DEF ServiceInvariant, AnswerInvariant, Answered, Excused, StoppedBy,
           NothingElseSurvivesStop
  <1>2. QED
    BY <1>1, ServiceCorrect, PTL

(***************************************************************************)
(* handle_client runs to its end before the next accept: no start that     *)
(* connected before an acknowledged stop is carried out after it.          *)
(***************************************************************************)
THEOREM NoLateLaunch == Spec => StopCoversEarlierStarts
  <1> DEFINE Late == \A s, c \in Clients :
                        /\ command[s] = "stop" /\ client[s] = "ok" /\ Before(c, s)
                        /\ Launched(c) = {}
                        => Launched(c)' = {}
  <1>1. ServiceInvariant /\ [Next]_vars => [Late]_vars
    <2> SUFFICES ASSUME ServiceInvariant, Next,
                        NEW s \in Clients, NEW c \in Clients,
                        command[s] = "stop", client[s] = "ok", Before(c, s),
                        Launched(c) = {}
                 PROVE  Launched(c)' = {}
      BY DEF Late
    <2>1. CASE HandleStart /\ Launch
      <3>1. /\ step = "read" /\ launches' = Append(launches, serving)
            /\ launches \in Seq(Clients)
        BY <2>1 DEF HandleStart, Launch, Received, ServiceInvariant, TypeOK
      <3>2. /\ ~Done(serving) /\ serving \in Clients
            /\ accepted \in 1 .. Len(arrivals) /\ serving = arrivals[accepted]
        BY <3>1, ServingNotDone
      <3>3. Done(s)
        BY DEF ServiceInvariant, AnswerInvariant, Answered
      <3>4. c # serving
        <4>1. PICK i, j \in 1 .. Len(arrivals) :
                 i < j /\ arrivals[i] = c /\ arrivals[j] = s
          BY DEF Before
        <4>2. PICK k \in 1 .. accepted : arrivals[k] = s
          BY <3>3 DEF Done
        <4>3. k = j
          <5>1. Len(arrivals) \in Nat
            BY DEF ServiceInvariant, TypeOK
          <5>2. k \in 1 .. Len(arrivals)
            BY <3>2, <4>2, <5>1
          <5>3. QED
            BY <4>1, <4>2, <5>2 DEF ServiceInvariant, QueueInvariant
        <4>4. i # accepted /\ Len(arrivals) \in Nat
          BY <3>2, <4>1, <4>2, <4>3 DEF ServiceInvariant, TypeOK
        <4>5. QED
          BY <3>2, <4>1, <4>4 DEF ServiceInvariant, QueueInvariant
      <3>5. \A n \in 1 .. Len(launches) : launches[n] # c
        BY DEF Launched
      <3>6. \A n \in 1 .. Len(launches') : launches'[n] # c
        BY <3>1, <3>2, <3>4, <3>5
      <3>7. QED
        BY <3>6 DEF Launched
    <2>2. CASE UNCHANGED launches
      BY <2>2 DEF Launched
    <2>3. QED
      BY <2>1, <2>2
      DEF Next, ClientStep, TimeoutThread, ClientFrame, ServerStep, Accept,
          HandlePing, HandleStart, SystemFails, HandleStop, PkillAll, Pkill, HandleVersion,
          HandleUnknown, Ack, HostStep, Tick, Idle, vars, hostVars
  <1>2. Spec => [][Late]_vars
    BY <1>1, ServiceCorrect, PTL DEF Spec
  <1>3. QED
    BY <1>2 DEF StopCoversEarlierStarts
=============================================================================
