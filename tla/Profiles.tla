------------------------------ MODULE Profiles ------------------------------
(***************************************************************************)
(* The event queues and the workload profiles of a controller: events.h,   *)
(* Profile.h and profiles/. A queue is a bag of event times (keys and      *)
(* values of puts and gets are left out): q[t] is the number of events     *)
(* waiting for time t. Times are whole seconds.                            *)
(***************************************************************************)
EXTENDS Naturals, Sequences, FiniteSetsExt

CONSTANTS
    Horizon,    \* times from Horizon on are alike: after the workload's end
    Samples     \* values the Poisson and Weibull generators may return

ASSUME HorizonAssumption == Horizon \in Nat \ {0}
ASSUME SamplesAssumption == Samples \subseteq Nat

Times == 0 .. Horizon
Cap(t) == IF t > Horizon THEN Horizon ELSE t

Queues == [Times -> Nat]
EmptyQueue == [t \in Times |-> 0]

\* EventQueue::push, n times.
Push(q, t, n) == [q EXCEPT ![Cap(t)] = @ + n]

\* EventQueue::getNextEventTime: 0 means empty, or an event at time 0.
NextEventTime(q) ==
    IF \A t \in Times : q[t] = 0 THEN 0
    ELSE CHOOSE t \in Times : q[t] > 0 /\ \A u \in Times : u < t => q[u] = 0

\* The events that amount[i] counts, for every i of a set, one by one.
Events(amount, S) == UNION {{i} \X (1 .. amount[i]) : i \in S}

\* EventQueue::popEvents: how many events it returns and what it leaves.
Due(q, time) == Cardinality(Events(q, {t \in Times : t <= time}))
Rest(q, time) == [t \in Times |-> IF t <= time THEN 0 ELSE q[t]]

(***************************************************************************)
(* A profile is its type and its parameters. A time in a workload file is  *)
(* "X" or "X-Y", and then getTimeFromString takes any time of the interval:*)
(* here it is the set of the times it may return.                          *)
(***************************************************************************)
GetTimeFromString(min, max) == min .. max

None == [type |-> "none"]
Exact(times) == [type |-> "exact", times |-> times]
NTimesRandom(times, repetitions) ==
    [type |-> "ntimesrandom", times |-> times, repetitions |-> repetitions]
FullDictionary(setSize, times) ==
    [type |-> "fulldictionary", setSize |-> setSize, times |-> times]
Now(minimum) == [type |-> "now", minimum |-> minimum]
Interval(repetitions, frequency, startTime) ==
    [type |-> "interval", repetitions |-> repetitions,
     frequency |-> frequency, startTime |-> startTime]
PoissonRandom(timeBegin) ==
    [type |-> "poissonrandom", timeBegin |-> timeBegin]
WeibullRandom == [type |-> "weibullrandom"]

\* What the constructors get from a line they accept.
WellFormed(profile) ==
    CASE profile.type \in {"none", "weibullrandom"} -> TRUE
      [] profile.type = "exact" -> profile.times \in Seq(SUBSET Nat)
      [] profile.type = "ntimesrandom" ->
            /\ profile.times \in Seq(Nat) /\ profile.repetitions \in Seq(Nat)
            /\ Len(profile.times) = Len(profile.repetitions)
      [] profile.type = "fulldictionary" ->
            profile.setSize \in Nat /\ profile.times \in Seq(SUBSET Nat)
      [] profile.type = "now" -> profile.minimum \in SUBSET Nat
      [] profile.type = "interval" ->
            /\ profile.repetitions \in Nat /\ profile.frequency \in Nat
            /\ profile.startTime \in SUBSET Nat
      [] profile.type = "poissonrandom" -> profile.timeBegin \in Nat

\* The types that fill their queue in the constructor, once and for all.
FixedTypes == {"none", "exact", "ntimesrandom", "fulldictionary"}

\* What a profile is between two calls: its queue, and lastEvent_ or
\* lastEventTime_ where there is one.
Scheduled(q, l) == [queue |-> q, last |-> l]

-----------------------------------------------------------------------------
\* The ways to read a sequence of times, each given as the set of its values.
Readings(times) ==
    {r \in [DOMAIN times -> UNION {times[i] : i \in DOMAIN times}] :
        \A i \in DOMAIN times : r[i] \in times[i]}

\* The queue with amount[i] events at each time[i].
Filled(time, amount) ==
    [t \in Times |->
        Cardinality(Events(amount, {i \in DOMAIN time : Cap(time[i]) = t}))]

(***************************************************************************)
(* What the constructors may leave.                                        *)
(***************************************************************************)
MakeExact(profile) ==
    {Scheduled(Filled(r, [i \in DOMAIN r |-> 1]), 0) :
        r \in Readings(profile.times)}

MakeNTimesRandom(profile) ==
    {Scheduled(Filled(profile.times, profile.repetitions), 0)}

MakeFullDictionary(profile) ==
    {Scheduled(Filled(r, [i \in DOMAIN r |-> profile.setSize]), 0) :
        r \in Readings(profile.times)}

MakeNow(profile) ==
    {Scheduled(Push(EmptyQueue, t, 1), 0) : t \in profile.minimum}

MakeInterval(profile) ==
    {Scheduled(Push(EmptyQueue, t, profile.repetitions), Cap(t)) :
        t \in profile.startTime}

MakePoissonRandom(profile) ==
    {Scheduled(Push(EmptyQueue, profile.timeBegin + s, 1),
               Cap(profile.timeBegin + s)) : s \in Samples}

MakeProfile(profile) ==
    CASE profile.type \in {"none", "weibullrandom"} ->
            {Scheduled(EmptyQueue, 0)}
      [] profile.type = "exact" -> MakeExact(profile)
      [] profile.type = "ntimesrandom" -> MakeNTimesRandom(profile)
      [] profile.type = "fulldictionary" -> MakeFullDictionary(profile)
      [] profile.type = "now" -> MakeNow(profile)
      [] profile.type = "interval" -> MakeInterval(profile)
      [] profile.type = "poissonrandom" -> MakePoissonRandom(profile)

(***************************************************************************)
(* What the generators push when their queue looks empty.                  *)
(***************************************************************************)
NextNow(q, l, currentTime) == {Scheduled(Push(q, currentTime, 1), l)}

NextInterval(profile, q, l) ==
    {Scheduled(Push(q, l + profile.frequency, profile.repetitions),
               Cap(l + profile.frequency))}

NextPoissonRandom(q, l) ==
    {Scheduled(Push(q, l + s, 1), Cap(l + s)) : s \in Samples}

NextWeibullRandom(q, l, currentTime) ==
    {Scheduled(Push(q, currentTime + s, 1), l) : s \in Samples}

\* What scheduleNextEvent(currentTime) may leave.
ScheduleNextEvent(profile, q, l, currentTime) ==
    IF NextEventTime(q) # 0 \/ profile.type \in FixedTypes
    THEN {Scheduled(q, l)}
    ELSE CASE profile.type = "now" -> NextNow(q, l, currentTime)
           [] profile.type = "interval" -> NextInterval(profile, q, l)
           [] profile.type = "poissonrandom" -> NextPoissonRandom(q, l)
           [] profile.type = "weibullrandom" ->
                 NextWeibullRandom(q, l, currentTime)
=============================================================================
