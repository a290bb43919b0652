--------------------------- MODULE EventLoopProofs --------------------------
(***************************************************************************)
(* Theorems about start(), for any profiles, any duration of the workload  *)
(* and any fineness of the clock.                                          *)
(***************************************************************************)
EXTENDS EventLoop, FiniteSetTheorems, WellFoundedInduction, TLAPS

\* No two events are waiting.
OneWaiting(q) ==
    /\ \A t \in Times : q[t] <= 1
    /\ \A t, u \in Times : q[t] > 0 /\ q[u] > 0 => t = u

\* The profiles are those of the workload file.
ProfilesInvariant ==
    /\ profile["join"] \in JoinProfiles /\ profile["leave"] \in LeaveProfiles
    /\ profile["put"] \in PutProfiles /\ profile["get"] \in GetProfiles

\* The batch of a node out of the DHT is one of joins; of one in the DHT, the
\* leaves are left when it gets out.
OrderInvariant ==
    /\ pc \in {"batch", "retry"} =>
          /\ connected \/ (batch["put"] = 0 /\ batch["get"] = 0)
          /\ batch["join"] = 0 \/ \A op \in {"put", "get", "leave"} : batch[op] = 0
    /\ pc = "retry" => ~connected /\ batch["join"] > 0

\* A generator of joins has one event waiting, or one at time 0, which hides
\* what it has pushed since: that one is never due.
JoinsGenerated ==
    profile["join"].type # "exact" =>
        /\ queue["join"][0] = 0 => OneWaiting(queue["join"])
        /\ pc \in {"batch", "retry"} =>
              batch["join"] <= 1 /\ (connected => batch["join"] = 0)

\* One of leaves that does not begin at time 0 has one event waiting, because a
\* node is in the DHT only when the first second is over.
LeavesGenerated ==
    profile["leave"].type # "exact" /\ ~MayBeginAtZero(profile["leave"]) =>
        /\ queue["leave"][0] = 0 /\ OneWaiting(queue["leave"])
        /\ profile["leave"].type = "poissonrandom" => last["leave"] > 0
        /\ pc \in {"batch", "retry"} =>
              batch["leave"] <= 1 /\ (~connected => batch["leave"] = 0)

ClockInvariant == connected \/ pc \in {"batch", "retry"} => now > 0

LoopInvariant ==
    /\ TypeOK /\ MetricsConsistent /\ ProfilesInvariant /\ OrderInvariant
    /\ JoinsGenerated /\ LeavesGenerated /\ ClockInvariant
    /\ FatalOnlyWithTwoWaiting /\ NeverOversleeps

-----------------------------------------------------------------------------
(* Queues *)

\* A set of natural numbers has a least one.
LEMMA Least ==
    ASSUME NEW S \in SUBSET Nat, S # {}
    PROVE  \E n \in S : \A m \in S : n <= m
  <1> DEFINE R == OpToRel(<, Nat)
  <1>1. IsWellFoundedOn(R, Nat)
    BY NatLessThanWellFounded
  <1>2. PICK n \in S : \A m \in S : ~(<<m, n>> \in R)
    <2> HIDE DEF R
    <2> QED  BY <1>1, WFMin, Zenon
  <1>3. \A m \in S : ~(m < n)
    BY <1>2 DEF OpToRel
  <1> QED  BY <1>3

\* Times after the end of the workload are alike.
LEMMA CapTyped ==
    ASSUME NEW t \in Nat
    PROVE  Cap(t) \in Times /\ (Cap(t) = 0 <=> t = 0)
  BY HorizonAssumption DEF Cap, Times

\* getNextEventTime: the first event's time if there is one and it is not 0.
LEMMA NextEventTimeIs ==
    ASSUME NEW q \in Queues
    PROVE  /\ NextEventTime(q) \in Times
           /\ NextEventTime(q) # 0 => q[0] = 0
           /\ NextEventTime(q) = 0 => q[0] > 0 \/ q = EmptyQueue
           /\ \A t \in Times : q[t] > 0 => NextEventTime(q) <= t
  <1> DEFINE S == {t \in Times : q[t] > 0}
  <1>1. 0 \in Times /\ Times \subseteq Nat
    BY HorizonAssumption DEF Times
  <1>2. CASE \A t \in Times : q[t] = 0
    BY <1>1, <1>2 DEF NextEventTime, Queues, EmptyQueue
  <1>3. CASE ~\A t \in Times : q[t] = 0
    <2>1. S # {} /\ S \in SUBSET Nat
      <3>1. PICK t \in Times : q[t] # 0
        BY <1>3
      <3>2. t \in S
        BY <3>1 DEF Queues
      <3> QED  BY <1>1, <3>2
    <2>2. PICK n \in S : \A m \in S : n <= m
      <3> HIDE DEF S
      <3> QED  BY <2>1, Least
    <2>3. n \in Times /\ q[n] > 0 /\ \A u \in Times : u < n => q[u] = 0
      BY <1>1, <2>2 DEF Queues
    <2>4. PICK m \in Times : /\ NextEventTime(q) = m /\ q[m] > 0
                             /\ \A u \in Times : u < m => q[u] = 0
      BY <1>3, <2>3 DEF NextEventTime
    <2>5. ASSUME NEW t \in Times, q[t] > 0
          PROVE  m <= t
      <3>1. ~(t < m)
        BY <2>4, <2>5 DEF Queues
      <3> QED  BY <1>1, <3>1
    <2>6. m # 0 => q[0] = 0
      BY <1>1, <2>4
    <2> QED  BY <2>4, <2>5, <2>6
  <1> QED  BY <1>2, <1>3

\* A finite number of times with a finite number of events each.
LEMMA EventsCounted ==
    ASSUME NEW S, IsFiniteSet(S), NEW amount, \A i \in S : amount[i] \in Nat
    PROVE  IsFiniteSet(Events(amount, S)) /\ Cardinality(Events(amount, S)) \in Nat
  <1> DEFINE At(i) == {i} \X (1 .. amount[i])
             All == {At(i) : i \in S}
  <1>1. ASSUME NEW i \in S
        PROVE  IsFiniteSet(At(i))
    <2>1. IsFiniteSet({i})
      BY FS_Singleton
    <2>2. amount[i] \in Int /\ 1 \in Int
      OBVIOUS
    <2>3. IsFiniteSet(1 .. amount[i])
      BY <2>2, FS_Interval
    <2> QED  BY <2>1, <2>3, FS_Product
  <1>2. IsFiniteSet(All)
    <2> DEFINE f == [i \in S |-> At(i)]
    <2>1. f \in Surjection(S, All)
      BY DEF Surjection
    <2> HIDE DEF f, All
    <2> QED  BY <2>1, FS_Surjection
  <1>3. IsFiniteSet(UNION All)
    <2>1. \A T \in All : IsFiniteSet(T)
      BY <1>1
    <2> HIDE DEF All
    <2> QED  BY <1>2, <2>1, FS_UNION
  <1>4. Events(amount, S) = UNION All
    BY DEF Events
  <1> QED  BY <1>3, <1>4, FS_CardinalityType

\* Queues stay queues.
LEMMA QueuesTyped ==
    /\ EmptyQueue \in Queues
    /\ \A q \in Queues, t, n \in Nat : Push(q, t, n) \in Queues
    /\ \A q \in Queues, time \in Nat : Rest(q, time) \in Queues
    /\ \A q \in Queues, time \in Nat : Due(q, time) \in Nat
  <1>1. EmptyQueue \in Queues
    BY DEF EmptyQueue, Queues
  <1>2. ASSUME NEW q \in Queues, NEW t \in Nat, NEW n \in Nat
        PROVE  Push(q, t, n) \in Queues
    BY CapTyped DEF Push, Queues
  <1>3. ASSUME NEW q \in Queues, NEW time \in Nat
        PROVE  Rest(q, time) \in Queues
    BY DEF Rest, Queues
  <1>4. ASSUME NEW q \in Queues, NEW time \in Nat
        PROVE  Due(q, time) \in Nat
    <2> DEFINE S == {t \in Times : t <= time}
    <2>1. IsFiniteSet(S)
      <3>1. IsFiniteSet(Times)
        BY FS_Interval, HorizonAssumption DEF Times
      <3>2. S \subseteq Times
        OBVIOUS
      <3> QED  BY <3>1, <3>2, FS_Subset
    <2>2. \A t \in S : q[t] \in Nat
      BY DEF Queues
    <2> HIDE DEF S
    <2>3. Cardinality(Events(q, S)) \in Nat
      BY <2>1, <2>2, EventsCounted
    <2> QED  BY <2>3 DEF Due, S
  <1> QED  BY <1>1, <1>2, <1>3, <1>4

\* The queue that a constructor fills.
LEMMA FilledTyped ==
    ASSUME NEW time, IsFiniteSet(DOMAIN time), NEW amount,
           \A i \in DOMAIN time : amount[i] \in Nat
    PROVE  Filled(time, amount) \in Queues
  <1>1. ASSUME NEW t \in Times
        PROVE  Cardinality(Events(amount, {i \in DOMAIN time : Cap(time[i]) = t})) \in Nat
    <2> DEFINE S == {i \in DOMAIN time : Cap(time[i]) = t}
    <2>1. IsFiniteSet(S)
      BY FS_Subset
    <2>2. \A i \in S : amount[i] \in Nat
      OBVIOUS
    <2> HIDE DEF S
    <2>3. Cardinality(Events(amount, S)) \in Nat
      BY <2>1, <2>2, EventsCounted
    <2> QED  BY <2>3 DEF S
  <1> QED  BY <1>1 DEF Filled, Queues

\* popEvents takes one event from a queue with no two waiting.
LEMMA OneDue ==
    ASSUME NEW q \in Queues, OneWaiting(q), NEW time \in Nat
    PROVE  Due(q, time) <= 1
  <1> DEFINE S == {t \in Times : t <= time}
  <1>1. CASE \A t \in Times : q[t] = 0
    <2>1. Events(q, S) = {}
      BY <1>1 DEF Events
    <2> QED  BY <2>1, FS_EmptySet DEF Due
  <1>2. CASE ~\A t \in Times : q[t] = 0
    <2>1. PICK t \in Times : q[t] > 0
      BY <1>2 DEF Queues
    <2>2. \A u \in Times : u # t => q[u] = 0
      BY <2>1 DEF OneWaiting, Queues
    <2>3. q[t] = 1
      BY <2>1 DEF OneWaiting, Queues
    <2>4. ASSUME NEW u \in S, NEW i \in 1 .. q[u]
          PROVE  u = t /\ i = 1
      BY <2>2, <2>3, <2>4 DEF Queues
    <2>5. Events(q, S) \subseteq {<<t, 1>>}
      <3> HIDE DEF S
      <3> QED  BY <2>4 DEF Events
    <2>6. IsFiniteSet({<<t, 1>>}) /\ Cardinality({<<t, 1>>}) = 1
      BY FS_Singleton
    <2>7. Cardinality(Events(q, S)) <= 1
      <3> HIDE DEF S
      <3> QED  BY <2>5, <2>6, FS_Subset
    <2> QED  BY <2>7 DEF Due
  <1> QED  BY <1>1, <1>2

-----------------------------------------------------------------------------
(* Profiles *)

Types == FixedTypes \cup {"now", "interval", "poissonrandom", "weibullrandom"}
Generators == {"none", "now", "poissonrandom", "weibullrandom"}

\* One event in an empty queue, at 0 only if it is an event of time 0.
LEMMA PushOne ==
    ASSUME NEW t \in Nat
    PROVE  /\ OneWaiting(Push(EmptyQueue, t, 1))
           /\ Push(EmptyQueue, t, 1)[0] = 0 <=> t # 0
  <1>1. Cap(t) \in Times /\ (Cap(t) = 0 <=> t = 0) /\ 0 \in Times
    BY CapTyped, HorizonAssumption DEF Times
  <1>2. \A u \in Times : Push(EmptyQueue, t, 1)[u] = IF u = Cap(t) THEN 1 ELSE 0
    BY <1>1 DEF Push, EmptyQueue
  <1> QED  BY <1>1, <1>2 DEF OneWaiting

\* Every way to read a sequence of times.
LEMMA ReadingsTyped ==
    ASSUME NEW times \in Seq(SUBSET Nat), NEW r \in Readings(times)
    PROVE  IsFiniteSet(DOMAIN r)
  <1>1. DOMAIN r = 1 .. Len(times) /\ Len(times) \in Int /\ 1 \in Int
    BY DEF Readings
  <1> QED  BY <1>1, FS_Interval

\* What the constructors leave is a queue and a time; a generator has one event,
\* at time 0 only if it may begin there.
LEMMA MakeTyped ==
    ASSUME NEW p, p.type \in Types, WellFormed(p), NEW m \in MakeProfile(p)
    PROVE  /\ m.queue \in Queues /\ m.last \in Times
           /\ p.type \in Generators =>
                 /\ OneWaiting(m.queue)
                 /\ ~MayBeginAtZero(p) =>
                       /\ m.queue[0] = 0
                       /\ p.type = "poissonrandom" => m.last > 0
  <1> USE DEF Types, Generators, FixedTypes
  <1>1. 0 \in Times /\ EmptyQueue \in Queues
    BY QueuesTyped, HorizonAssumption DEF Times
  <1>2. CASE p.type \in {"none", "weibullrandom"}
    <2>1. m.queue = EmptyQueue /\ m.last = 0
      BY <1>2 DEF MakeProfile, Scheduled
    <2> QED  BY <1>1, <1>2, <2>1 DEF EmptyQueue, OneWaiting
  <1>3. CASE p.type = "exact"
    <2>1. PICK r \in Readings(p.times) :
             m.queue = Filled(r, [i \in DOMAIN r |-> 1]) /\ m.last = 0
      BY <1>3 DEF MakeProfile, MakeExact, Scheduled
    <2>2. IsFiniteSet(DOMAIN r)
      BY <1>3, ReadingsTyped DEF WellFormed
    <2>3. \A i \in DOMAIN r : [j \in DOMAIN r |-> 1][i] \in Nat
      OBVIOUS
    <2>4. Filled(r, [i \in DOMAIN r |-> 1]) \in Queues
      BY <2>2, <2>3, FilledTyped
    <2> QED  BY <1>1, <1>3, <2>1, <2>4
  <1>4. CASE p.type = "ntimesrandom"
    <2>1. m.queue = Filled(p.times, p.repetitions) /\ m.last = 0
      BY <1>4 DEF MakeProfile, MakeNTimesRandom, Scheduled
    <2>2. /\ p.times \in Seq(Nat) /\ p.repetitions \in Seq(Nat)
          /\ Len(p.times) = Len(p.repetitions)
      BY <1>4 DEF WellFormed
    <2>3. /\ DOMAIN p.times = 1 .. Len(p.times) /\ Len(p.times) \in Int /\ 1 \in Int
          /\ \A i \in DOMAIN p.times : p.repetitions[i] \in Nat
      BY <2>2
    <2>4. IsFiniteSet(DOMAIN p.times)
      BY <2>3, FS_Interval
    <2>5. Filled(p.times, p.repetitions) \in Queues
      BY <2>3, <2>4, FilledTyped
    <2> QED  BY <1>1, <1>4, <2>1, <2>5
  <1>5. CASE p.type = "fulldictionary"
    <2>1. PICK r \in Readings(p.times) :
             m.queue = Filled(r, [i \in DOMAIN r |-> p.setSize]) /\ m.last = 0
      BY <1>5 DEF MakeProfile, MakeFullDictionary, Scheduled
    <2>2. IsFiniteSet(DOMAIN r)
      BY <1>5, ReadingsTyped DEF WellFormed
    <2>3. \A i \in DOMAIN r : [j \in DOMAIN r |-> p.setSize][i] \in Nat
      BY <1>5 DEF WellFormed
    <2>4. Filled(r, [i \in DOMAIN r |-> p.setSize]) \in Queues
      BY <2>2, <2>3, FilledTyped
    <2> QED  BY <1>1, <1>5, <2>1, <2>4
  <1>6. CASE p.type = "now"
    <2>1. PICK t \in p.minimum : m.queue = Push(EmptyQueue, t, 1) /\ m.last = 0
      BY <1>6 DEF MakeProfile, MakeNow, Scheduled
    <2>2. t \in Nat
      BY <1>6 DEF WellFormed
    <2>3. m.queue \in Queues
      BY <1>1, <2>1, <2>2, QueuesTyped
    <2>4. ~MayBeginAtZero(p) => t # 0
      BY <1>6, <2>1 DEF MayBeginAtZero
    <2>5. OneWaiting(m.queue) /\ (t # 0 => m.queue[0] = 0)
      BY <2>1, <2>2, PushOne
    <2> QED  BY <1>1, <1>6, <2>1, <2>3, <2>4, <2>5
  <1>7. CASE p.type = "interval"
    <2>1. PICK t \in p.startTime :
             m.queue = Push(EmptyQueue, t, p.repetitions) /\ m.last = Cap(t)
      BY <1>7 DEF MakeProfile, MakeInterval, Scheduled
    <2>2. t \in Nat /\ p.repetitions \in Nat
      BY <1>7 DEF WellFormed
    <2> QED  BY <1>1, <1>7, <2>1, <2>2, CapTyped, QueuesTyped
  <1>8. CASE p.type = "poissonrandom"
    <2>1. PICK s \in Samples : /\ m.queue = Push(EmptyQueue, p.timeBegin + s, 1)
                               /\ m.last = Cap(p.timeBegin + s)
      BY <1>8 DEF MakeProfile, MakePoissonRandom, Scheduled
    <2>2. p.timeBegin \in Nat /\ s \in Nat
      BY <1>8, SamplesAssumption DEF WellFormed
    <2>3. PICK t \in Nat : t = p.timeBegin + s
      BY <2>2
    <2>4. ~MayBeginAtZero(p) => t # 0
      BY <1>8, <2>2, <2>3 DEF MayBeginAtZero
    <2>5. m.queue \in Queues /\ m.last \in Times /\ (t # 0 => m.last > 0)
      <3>1. m.queue \in Queues
        BY <1>1, <2>1, <2>3, QueuesTyped
      <3>2. m.last \in Times /\ (m.last = 0 <=> t = 0)
        BY <2>1, <2>3, CapTyped
      <3> QED  BY <3>1, <3>2, HorizonAssumption DEF Times
    <2>6. OneWaiting(m.queue) /\ (t # 0 => m.queue[0] = 0)
      BY <2>1, <2>3, PushOne
    <2> QED  BY <2>4, <2>5, <2>6
  <1> QED  BY <1>2, <1>3, <1>4, <1>5, <1>6, <1>7, <1>8

\* scheduleNextEvent leaves all as it was, or pushes behind an event of time 0
\* or into an empty queue; a generator pushes one event, and not at time 0 when
\* the first second, or its last event, is past it.
LEMMA ScheduleTyped ==
    ASSUME NEW p, p.type \in Types, WellFormed(p), NEW q \in Queues, NEW l \in Times,
           NEW currentTime \in Nat,
           NEW r \in ScheduleNextEvent(p, q, l, currentTime)
    PROVE  /\ r.queue \in Queues /\ r.last \in Times
           /\ \/ r.queue = q /\ r.last = l
              \/ /\ q[0] > 0 \/ q = EmptyQueue
                 /\ p.type \in Generators =>
                       \E t \in Nat :
                          /\ r.queue = Push(q, t, 1)
                          /\ p.type = "poissonrandom" => t >= l /\ r.last = Cap(t)
                          /\ p.type # "poissonrandom" => t >= currentTime
  <1> USE DEF Types, Generators, FixedTypes
  <1>1. CASE NextEventTime(q) # 0 \/ p.type \in FixedTypes
    BY <1>1 DEF ScheduleNextEvent, Scheduled
  <1>2. CASE ~(NextEventTime(q) # 0 \/ p.type \in FixedTypes)
    <2>1. q[0] > 0 \/ q = EmptyQueue
      BY <1>2, NextEventTimeIs
    <2>2. l \in Nat
      BY HorizonAssumption DEF Times
    <2>3. CASE p.type = "now"
      <3>1. r.queue = Push(q, currentTime, 1) /\ r.last = l
        BY <1>2, <2>3 DEF ScheduleNextEvent, NextNow, Scheduled
      <3>2. r.queue \in Queues
        BY <3>1, QueuesTyped
      <3>3. currentTime >= currentTime
        OBVIOUS
      <3> QED  BY <2>1, <2>3, <3>1, <3>2, <3>3
    <2>4. CASE p.type = "interval"
      <3>1. /\ r.queue = Push(q, l + p.frequency, p.repetitions)
            /\ r.last = Cap(l + p.frequency)
        BY <1>2, <2>4 DEF ScheduleNextEvent, NextInterval, Scheduled
      <3>2. p.repetitions \in Nat /\ l + p.frequency \in Nat
        BY <2>2, <2>4 DEF WellFormed
      <3> QED  BY <2>1, <2>4, <3>1, <3>2, CapTyped, QueuesTyped
    <2>5. CASE p.type = "poissonrandom"
      <3>1. PICK s \in Samples : r.queue = Push(q, l + s, 1) /\ r.last = Cap(l + s)
        BY <1>2, <2>5 DEF ScheduleNextEvent, NextPoissonRandom, Scheduled
      <3>2. PICK t \in Nat : t = l + s /\ t >= l
        BY <2>2, SamplesAssumption
      <3> QED  BY <2>1, <2>5, <3>1, <3>2, CapTyped, QueuesTyped
    <2>6. CASE p.type = "weibullrandom"
      <3>1. PICK s \in Samples : r.queue = Push(q, currentTime + s, 1) /\ r.last = l
        BY <1>2, <2>6 DEF ScheduleNextEvent, NextWeibullRandom, Scheduled
      <3>2. PICK t \in Nat : t = currentTime + s /\ t >= currentTime
        BY SamplesAssumption
      <3> QED  BY <2>1, <2>6, <3>1, <3>2, QueuesTyped
    <2> QED  BY <1>2, <2>3, <2>4, <2>5, <2>6
  <1> QED  BY <1>1, <1>2

-----------------------------------------------------------------------------
(* The clock *)

\* The seconds that are left and those that have passed, and what their
\* rounding does.
LEMMA SecondsAre ==
    ASSUME now \in Nat
    PROVE  /\ RemainingSeconds \in 0 .. WorkloadDuration
           /\ Elapsed \in 0 .. WorkloadDuration
           /\ Elapsed > 0 <=> now > 0
           /\ ~TimeIsUp => now <= TicksPerSecond * Elapsed
           /\ TimeIsUp => now > (WorkloadDuration - 1) * TicksPerSecond
  <1> DEFINE D == WorkloadDuration
             T == TicksPerSecond
             E == D * T
  <1>1. D \in Nat /\ T \in Nat /\ D >= 1 /\ T >= 1
    BY LoopAssumption
  <1>2. E \in Nat /\ (D - 1) * T = E - T
    BY <1>1
  <1>3. PICK R \in Nat : R = RemainingSeconds
    BY <1>1, <1>2 DEF RemainingSeconds
  <1>4. CASE now >= E
    <2>1. R = 0
      BY <1>3, <1>4 DEF RemainingSeconds
    <2>2. now > E - T
      BY <1>1, <1>2, <1>4
    <2>3. now > 0
      BY <1>1, <1>4
    <2> QED  BY <1>1, <1>2, <1>3, <2>1, <2>2, <2>3 DEF Elapsed, TimeIsUp
  <1>5. CASE now < E
    <2>1. T * R <= E - now /\ E - now < T * R + T
      <3>1. E - now \in Nat
        BY <1>2, <1>5
      <3>2. PICK x \in Nat : x = E - now
        BY <3>1
      <3>3. R = x \div T
        BY <1>2, <1>3, <1>5, <3>2 DEF RemainingSeconds
      <3>4. T * (x \div T) <= x /\ x < T * (x \div T) + T
        BY <1>1
      <3> QED  BY <3>2, <3>3, <3>4
    <2>2. T * R \in Nat /\ T * D = E /\ T * (D - R) = E - T * R
      BY <1>1
    <2>3. now <= T * (D - R)
      BY <1>2, <2>1, <2>2
    <2>4. R <= D
      <3>1. R >= D + 1 => T * R >= T * D + T
        BY <1>1
      <3> QED  BY <1>1, <1>2, <2>1, <2>2, <3>1
    <2>5. R = 0 => now > E - T
      BY <1>1, <1>2, <2>1
    <2>6. R < D <=> now > 0
      <3>1. R >= D => T * R >= T * D
        BY <1>1
      <3>2. R < D => T * D >= T * R + T
        BY <1>1
      <3> QED  BY <1>1, <1>2, <2>1, <2>2, <3>1, <3>2
    <2> QED  BY <1>1, <1>2, <1>3, <2>3, <2>4, <2>5, <2>6 DEF Elapsed, TimeIsUp
  <1> QED  BY <1>2, <1>4, <1>5

-----------------------------------------------------------------------------
(* Scheduling *)

\* What the workload file may say.
LEMMA ProfilesTyped ==
    ASSUME ProfilesInvariant
    PROVE  /\ \A op \in Operations :
                 profile[op].type \in Types /\ WellFormed(profile[op])
           /\ \A op \in {"join", "leave"} :
                 profile[op].type \in Generators \cup {"exact"}
  BY ProfilesAssumption DEF ProfilesInvariant, Operations, Types, Generators, FixedTypes

\* getNextEventTime of all profiles that count: no later than any event that
\* no event of time 0 hides.
LEMMA NextEventIs ==
    ASSUME NEW q \in [Operations -> Queues]
    PROVE  /\ NextEvent(q) \in 0 .. WorkloadDuration
           /\ NextEvent(q) # 0 =>
                 \E op \in Relevant : NextEventTime(q[op]) = NextEvent(q)
           /\ \A op \in Relevant : q[op][0] = 0 =>
                 \A t \in 1 .. WorkloadDuration :
                    q[op][t] > 0 => NextEvent(q) # 0 /\ NextEvent(q) <= t
  <1> DEFINE times == {NextEventTime(q[op]) : op \in Relevant} \ {0}
  <1>1. Relevant \subseteq Operations /\ WorkloadDuration \in Nat
    BY LoopAssumption DEF Relevant, Operations
  <1>2. times \in SUBSET Nat
    BY <1>1, NextEventTimeIs, HorizonAssumption DEF Times
  <1>3. CASE times = {}
    <2>1. NextEvent(q) = 0
      BY <1>3 DEF NextEvent
    <2>2. ASSUME NEW op \in Relevant, q[op][0] = 0,
                 NEW t \in 1 .. WorkloadDuration, q[op][t] > 0
          PROVE  FALSE
      <3>1. q[op] \in Queues /\ NextEventTime(q[op]) = 0
        BY <1>1, <1>3
      <3>2. q[op] = EmptyQueue /\ t \in Times
        BY <2>2, <3>1, NextEventTimeIs, LoopAssumption, HorizonAssumption DEF Times
      <3> QED  BY <2>2, <3>2 DEF EmptyQueue
    <2> QED  BY <1>1, <2>1, <2>2
  <1>4. CASE times # {}
    <2>1. PICK m \in times : \A n \in times : m <= n
      <3> HIDE DEF times
      <3> QED  BY <1>2, <1>4, Least
    <2>2. Min(times) = m
      <3>1. \A x \in times : (\A y \in times : x <= y) => x = m
        BY <1>2, <2>1
      <3> HIDE DEF times
      <3> QED  BY <2>1, <3>1 DEF Min
    <2>3. m \in Nat \ {0} /\ NextEvent(q) = IF m > WorkloadDuration THEN 0 ELSE m
      BY <1>2, <1>4, <2>2 DEF NextEvent
    <2>4. ASSUME NEW op \in Relevant, q[op][0] = 0,
                 NEW t \in 1 .. WorkloadDuration, q[op][t] > 0
          PROVE  m <= t
      <3>1. q[op] \in Queues /\ t \in Times
        BY <1>1, LoopAssumption, HorizonAssumption DEF Times
      <3>2. PICK n \in Times : n = NextEventTime(q[op])
        BY <3>1, NextEventTimeIs
      <3>3. n <= t
        BY <2>4, <3>1, <3>2, NextEventTimeIs
      <3>4. n # 0
        <4>1. q[op] # EmptyQueue
          BY <2>4, <3>1 DEF EmptyQueue
        <4> QED  BY <2>4, <3>1, <3>2, <4>1, NextEventTimeIs
      <3>5. n \in times
        BY <3>2, <3>4
      <3>6. m <= n /\ n \in Nat
        BY <1>2, <2>1, <3>5
      <3> QED  BY <2>3, <3>3, <3>6
    <2>5. \E op \in Relevant : NextEventTime(q[op]) = m
      BY <2>1
    <2> QED  BY <1>1, <2>3, <2>4, <2>5
  <1> QED  BY <1>3, <1>4

\* popEvents leaves no event behind that it should take.
LEMMA RestOne ==
    ASSUME NEW q \in Queues, NEW time \in Nat
    PROVE  /\ Rest(q, time)[0] = 0
           /\ OneWaiting(q) => OneWaiting(Rest(q, time))
  <1>1. 0 \in Times /\ Times \subseteq Nat
    BY HorizonAssumption DEF Times
  <1>2. \A t \in Times : Rest(q, time)[t] = IF t <= time THEN 0 ELSE q[t]
    BY DEF Rest
  <1> QED  BY <1>1, <1>2 DEF OneWaiting, Queues

\* Scheduling keeps what is known of a generator's queue.
LEMMA ScheduleOne ==
    ASSUME NEW p, p.type \in Generators, p.type \in Types, WellFormed(p), NEW q \in Queues,
           NEW l \in Times, NEW currentTime \in Nat,
           NEW r \in ScheduleNextEvent(p, q, l, currentTime)
    PROVE  /\ (q[0] = 0 => OneWaiting(q)) => (r.queue[0] = 0 => OneWaiting(r.queue))
           /\ /\ q[0] = 0 /\ OneWaiting(q) /\ currentTime > 0
              /\ p.type = "poissonrandom" => l > 0
              => /\ r.queue[0] = 0 /\ OneWaiting(r.queue)
                 /\ p.type = "poissonrandom" => r.last > 0
  <1>1. CASE r.queue = q /\ r.last = l
    BY <1>1
  <1>2. CASE ~(r.queue = q /\ r.last = l)
    <2>1. PICK t \in Nat : /\ r.queue = Push(q, t, 1)
                           /\ p.type = "poissonrandom" => t >= l /\ r.last = Cap(t)
                           /\ p.type # "poissonrandom" => t >= currentTime
      BY <1>2, ScheduleTyped
    <2>2. q[0] > 0 \/ q = EmptyQueue
      BY <1>2, ScheduleTyped
    <2>3. 0 \in Times /\ Times \subseteq Nat /\ Cap(t) \in Times /\ (Cap(t) = 0 <=> t = 0)
      BY CapTyped, HorizonAssumption DEF Times
    <2>4. CASE q[0] > 0
      <3>1. r.queue[0] > 0
        BY <2>1, <2>3, <2>4 DEF Push, Queues
      <3> QED  BY <2>4, <3>1
    <2>5. CASE q = EmptyQueue
      <3>1. OneWaiting(r.queue) /\ (r.queue[0] = 0 <=> t # 0)
        BY <2>1, <2>5, PushOne
      <3>2. ASSUME p.type = "poissonrandom", l > 0
            PROVE  t # 0 /\ r.last > 0
        <4>1. l \in Nat /\ t >= l /\ r.last = Cap(t) /\ Cap(t) \in Nat
          BY <2>1, <2>3, <3>2
        <4>2. t # 0
          BY <3>2, <4>1
        <4> QED  BY <2>3, <4>1, <4>2
      <3>3. ASSUME p.type # "poissonrandom", currentTime > 0
            PROVE  t # 0
        BY <2>1, <3>3
      <3> QED  BY <3>1, <3>2, <3>3
    <2> QED  BY <2>2, <2>4, <2>5
  <1> QED  BY <1>1, <1>2

-----------------------------------------------------------------------------
(* The steps *)

\* Profiles as their constructors leave them, before anything has happened.
LEMMA InitLoop ==
    Init => LoopInvariant
  <1> SUFFICES ASSUME Init PROVE LoopInvariant
    OBVIOUS
  <1>1. ProfilesInvariant
    BY DEF Init, ProfilesInvariant
  <1>2. PICK made : /\ \A op \in Operations : made[op] \in MakeProfile(profile[op])
                    /\ queue = [op \in Operations |-> made[op].queue]
                    /\ last = [op \in Operations |-> made[op].last]
    BY DEF Init
  <1>3. \A op \in Operations : made[op].queue \in Queues /\ made[op].last \in Times
    BY <1>1, <1>2, ProfilesTyped, MakeTyped
  <1>4. "join" \in Operations /\ "leave" \in Operations
    BY DEF Operations
  <1>5. TypeOK
    <2>1. queue \in [Operations -> Queues] /\ last \in [Operations -> Times]
      BY <1>2, <1>3
    <2>2. now \in 0 .. EndOfTime /\ wake \in 0 .. EndOfTime
      BY LoopAssumption DEF Init
    <2>3. NoEvents \in [Operations -> Nat]
      BY DEF NoEvents
    <2> QED  BY <2>1, <2>2, <2>3 DEF Init, TypeOK, Locations
  <1>6. MetricsConsistent /\ OrderInvariant /\ ClockInvariant
    BY DEF Init, MetricsConsistent, OrderInvariant, ClockInvariant, NoEvents, Operations
  <1>7. JoinsGenerated
    <2>1. profile["join"].type # "exact" => OneWaiting(made["join"].queue)
      BY <1>1, <1>2, <1>4, ProfilesTyped, MakeTyped
    <2> QED  BY <1>2, <1>4, <2>1 DEF Init, JoinsGenerated
  <1>8. LeavesGenerated
    <2>1. profile["leave"].type # "exact" /\ ~MayBeginAtZero(profile["leave"]) =>
             /\ OneWaiting(made["leave"].queue) /\ made["leave"].queue[0] = 0
             /\ profile["leave"].type = "poissonrandom" => made["leave"].last > 0
      BY <1>1, <1>2, <1>4, ProfilesTyped, MakeTyped
    <2> QED  BY <1>2, <1>4, <2>1 DEF Init, LeavesGenerated
  <1>9. FatalOnlyWithTwoWaiting /\ NeverOversleeps
    BY DEF Init, FatalOnlyWithTwoWaiting, NeverOversleeps
  <1> QED  BY <1>1, <1>5, <1>6, <1>7, <1>8, <1>9 DEF LoopInvariant

\* Steps of the loop that touch no queue: the end, the end of a sleep, and
\* time itself.
LEMMA PassingStep ==
    ASSUME LoopInvariant, TimesUp \/ WakeUp \/ Tick
    PROVE  LoopInvariant'
  <1> USE DEF LoopInvariant, TimesUp, WakeUp, Tick
  <1>1. TypeOK'
    BY LoopAssumption DEF TypeOK, Locations
  <1>2. MetricsConsistent' /\ ProfilesInvariant' /\ FatalOnlyWithTwoWaiting'
    BY DEF MetricsConsistent, ProfilesInvariant, FatalOnlyWithTwoWaiting
  <1>3. OrderInvariant' /\ JoinsGenerated' /\ LeavesGenerated'
    BY DEF OrderInvariant, JoinsGenerated, LeavesGenerated
  <1>4. ClockInvariant'
    BY DEF TypeOK, ClockInvariant
  <1>5. NeverOversleeps'
    BY DEF NeverOversleeps, Relevant
  <1> QED  BY <1>1, <1>2, <1>3, <1>4, <1>5

\* What a turn of the loop makes of queues and batch.
LEMMA ScheduleStep ==
    ASSUME LoopInvariant, NEW next, Schedule(next)
    PROVE  LoopInvariant'
  <1> USE DEF LoopInvariant
  <1>1. /\ pc = "loop" /\ ~TimeIsUp /\ now \in Nat
        /\ UNCHANGED <<profile, now, connected, latencies, hits, misses>>
        /\ Relevant \subseteq Operations
    BY LoopAssumption DEF Schedule, TypeOK, Relevant, Operations
  <1>2. PICK e \in Nat : e = Elapsed /\ (e > 0 <=> now > 0)
    BY <1>1, SecondsAre, LoopAssumption
  <1>3. ASSUME NEW op \in Relevant
        PROVE  /\ next[op] \in ScheduleNextEvent(profile[op], queue[op], last[op], e)
               /\ queue[op] \in Queues /\ last[op] \in Times
               /\ profile[op].type \in Types /\ WellFormed(profile[op])
               /\ next[op].queue \in Queues /\ next[op].last \in Times
    <2>1. next[op] \in ScheduleNextEvent(profile[op], queue[op], last[op], e)
      BY <1>2 DEF Schedule
    <2>2. queue[op] \in Queues /\ last[op] \in Times
      BY <1>1 DEF TypeOK
    <2>3. profile[op].type \in Types /\ WellFormed(profile[op])
      BY <1>1, ProfilesTyped
    <2> QED  BY <2>1, <2>2, <2>3, ScheduleTyped
  <1>4. PICK queued \in [Operations -> Queues] :
           queued = [op \in Operations |->
                        IF op \in Relevant THEN next[op].queue ELSE queue[op]]
    BY <1>1, <1>3 DEF TypeOK
  <1>5. last' \in [Operations -> Times]
    BY <1>1, <1>3 DEF TypeOK, Schedule
  <1>6. PICK n \in 0 .. WorkloadDuration : n = NextEvent(queued)
    BY NextEventIs
  <1>7. /\ profile["join"].type # "exact" /\ queued["join"][0] = 0
              => OneWaiting(queued["join"])
        /\ connected => e > 0
        /\ profile["leave"].type # "exact" /\ ~MayBeginAtZero(profile["leave"]) =>
              /\ queued["leave"][0] = 0 /\ OneWaiting(queued["leave"])
              /\ profile["leave"].type = "poissonrandom" => last'["leave"] > 0
    <2>1. "join" \in Operations /\ "leave" \in Operations
      BY DEF Operations
    <2>2. ASSUME profile["join"].type # "exact", queued["join"][0] = 0
          PROVE  OneWaiting(queued["join"])
      <3>1. profile["join"].type \in Generators
        BY <2>2, ProfilesTyped
      <3>2. queue["join"][0] = 0 => OneWaiting(queue["join"])
        BY <2>2 DEF JoinsGenerated
      <3>3. CASE "join" \in Relevant
        BY <1>2, <1>3, <1>4, <2>1, <2>2, <3>1, <3>2, <3>3, ScheduleOne
      <3>4. CASE "join" \notin Relevant
        BY <1>4, <2>1, <2>2, <3>2, <3>4
      <3> QED  BY <3>3, <3>4
    <2>3. connected => e > 0
      BY <1>2 DEF ClockInvariant
    <2>4. ASSUME profile["leave"].type # "exact", ~MayBeginAtZero(profile["leave"])
          PROVE  /\ queued["leave"][0] = 0 /\ OneWaiting(queued["leave"])
                 /\ profile["leave"].type = "poissonrandom" => last'["leave"] > 0
      <3>1. profile["leave"].type \in Generators
        BY <2>4, ProfilesTyped
      <3>2. /\ queue["leave"][0] = 0 /\ OneWaiting(queue["leave"])
            /\ profile["leave"].type = "poissonrandom" => last["leave"] > 0
        BY <2>4 DEF LeavesGenerated
      <3>3. last'["leave"] = IF "leave" \in Relevant THEN next["leave"].last
                                                    ELSE last["leave"]
        BY <2>1 DEF Schedule
      <3>4. CASE connected
        <4>1. "leave" \in Relevant
          BY <3>4 DEF Relevant
        <4> QED  BY <1>2, <1>3, <1>4, <2>1, <2>3, <3>1, <3>2, <3>3, <3>4, <4>1, ScheduleOne
      <3>5. CASE ~connected
        <4>1. "leave" \notin Relevant
          BY <3>5 DEF Relevant
        <4> QED  BY <1>4, <2>1, <3>2, <3>3, <4>1
      <3> QED  BY <3>4, <3>5
    <2> QED  BY <2>2, <2>3, <2>4
  <1>8. MetricsConsistent' /\ ProfilesInvariant' /\ latencies' \in [Operations -> Nat]
        /\ hits' \in [Operations -> Nat] /\ misses' \in [Operations -> Nat]
    BY <1>1 DEF MetricsConsistent, ProfilesInvariant, TypeOK
  <1> HIDE DEF LoopInvariant
  <1>9. CASE n # 0 /\ n <= e
    <2>1. /\ pc' = "batch" /\ UNCHANGED wake
          /\ batch' = [op \in Operations |->
                          IF op \in Relevant THEN Due(queued[op], e) ELSE 0]
          /\ queue' = [op \in Operations |->
                          IF op \in Relevant THEN Rest(queued[op], e) ELSE queued[op]]
      BY <1>2, <1>4, <1>6, <1>9 DEF Schedule
    <2>2. /\ \A op \in Operations : Due(queued[op], e) \in Nat
          /\ \A op \in Operations : Rest(queued[op], e) \in Queues
      BY QueuesTyped
    <2>3. TypeOK'
      <3>1. queue' \in [Operations -> Queues]
        BY <2>1, <2>2
      <3>2. batch' \in [Operations -> Nat]
        BY <2>1, <2>2
      <3> QED  BY <1>1, <1>5, <1>8, <2>1, <3>1, <3>2 DEF LoopInvariant, TypeOK, Locations
    <2>4. e > 0
      BY <1>6, <1>9, LoopAssumption
    <2>5. /\ ~connected => batch'["put"] = 0 /\ batch'["get"] = 0 /\ batch'["leave"] = 0
          /\ connected => batch'["join"] = 0
          /\ {"join", "put", "get", "leave"} = Operations
      BY <2>1 DEF Relevant, Operations
    <2>6. OrderInvariant' /\ ClockInvariant' /\ FatalOnlyWithTwoWaiting' /\ NeverOversleeps'
      BY <1>1, <1>2, <2>1, <2>4, <2>5 DEF OrderInvariant, ClockInvariant,
         FatalOnlyWithTwoWaiting, NeverOversleeps
    <2>7. JoinsGenerated'
      <3> SUFFICES ASSUME profile["join"].type # "exact"
                   PROVE  /\ queue'["join"][0] = 0 => OneWaiting(queue'["join"])
                          /\ batch'["join"] <= 1 /\ (connected => batch'["join"] = 0)
        BY <1>1 DEF JoinsGenerated
      <3>1. CASE connected
        <4>1. queue'["join"] = queued["join"] /\ batch'["join"] = 0
          BY <2>1, <2>5, <3>1 DEF Relevant
        <4> QED  BY <1>7, <4>1
      <3>2. CASE ~connected
        <4>1. Relevant = {"join"}
          BY <3>2 DEF Relevant
        <4>2. queued["join"] \in Queues /\ NextEventTime(queued["join"]) = n
          BY <1>6, <1>9, <2>5, <4>1, NextEventIs
        <4>3. queued["join"][0] = 0
          BY <1>9, <4>2, NextEventTimeIs
        <4>4. OneWaiting(queued["join"])
          BY <1>7, <4>3
        <4>5. queue'["join"] = Rest(queued["join"], e) /\ batch'["join"] = Due(queued["join"], e)
          BY <2>1, <2>5, <4>1
        <4>6. OneWaiting(queue'["join"]) /\ batch'["join"] <= 1
          BY <4>2, <4>4, <4>5, RestOne, OneDue
        <4> QED  BY <3>2, <4>6
      <3> QED  BY <3>1, <3>2
    <2>8. LeavesGenerated'
      <3> SUFFICES ASSUME profile["leave"].type # "exact", ~MayBeginAtZero(profile["leave"])
                   PROVE  /\ queue'["leave"][0] = 0 /\ OneWaiting(queue'["leave"])
                          /\ profile["leave"].type = "poissonrandom" => last'["leave"] > 0
                          /\ batch'["leave"] <= 1 /\ (~connected => batch'["leave"] = 0)
        BY <1>1 DEF LeavesGenerated, MayBeginAtZero
      <3>1. queued["leave"] \in Queues
        BY <2>5
      <3>2. CASE connected
        <4>1. /\ queue'["leave"] = Rest(queued["leave"], e)
              /\ batch'["leave"] = Due(queued["leave"], e)
          BY <2>1, <2>5, <3>2 DEF Relevant
        <4> QED  BY <1>7, <3>1, <3>2, <4>1, RestOne, OneDue
      <3>3. CASE ~connected
        <4>1. queue'["leave"] = queued["leave"] /\ batch'["leave"] = 0
          BY <2>1, <2>5, <3>3 DEF Relevant
        <4> QED  BY <1>7, <4>1
      <3> QED  BY <3>2, <3>3
    <2> QED  BY <1>8, <2>3, <2>6, <2>7, <2>8 DEF LoopInvariant
  <1>10. CASE ~(n # 0 /\ n <= e)
    <2>1. /\ pc' = "sleep" /\ queue' = queued /\ UNCHANGED batch
          /\ wake' = Until(now + TicksPerSecond *
                              (IF n # 0 THEN n - e ELSE RemainingSeconds))
      BY <1>2, <1>4, <1>6, <1>10 DEF Schedule
    <2>2. PICK d \in Nat : /\ wake' = Until(now + TicksPerSecond * d)
                           /\ n # 0 => d = n - e
      <3>1. n \in Nat /\ RemainingSeconds \in Nat
        BY <1>1, <1>6, SecondsAre, LoopAssumption
      <3>2. CASE n # 0
        <4>1. n - e \in Nat
          BY <1>10, <3>1, <3>2
        <4> QED  BY <2>1, <3>2, <4>1
      <3>3. CASE n = 0
        BY <2>1, <3>1, <3>3
      <3> QED  BY <3>2, <3>3
    <2>3. PICK w \in Nat : w = now + TicksPerSecond * d
      BY <1>1, LoopAssumption
    <2>4. wake' \in 0 .. EndOfTime /\ wake' <= w
      BY <2>2, <2>3, LoopAssumption DEF Until
    <2>5. TypeOK'
      BY <1>1, <1>5, <1>8, <2>1, <2>4 DEF LoopInvariant, TypeOK, Locations
    <2>6. OrderInvariant' /\ ClockInvariant' /\ FatalOnlyWithTwoWaiting'
      BY <1>1, <2>1 DEF LoopInvariant, OrderInvariant, ClockInvariant,
         FatalOnlyWithTwoWaiting
    <2>7. JoinsGenerated' /\ LeavesGenerated'
      BY <1>1, <1>7, <2>1 DEF JoinsGenerated, LeavesGenerated, MayBeginAtZero
    <2>8. NeverOversleeps'
      <3> SUFFICES ASSUME NEW op \in Relevant, queued[op][0] = 0,
                          NEW t \in 1 .. WorkloadDuration, queued[op][t] > 0
                   PROVE  wake' <= t * TicksPerSecond
        BY <1>1, <2>1 DEF NeverOversleeps, Relevant
      <3>1. n # 0 /\ n <= t
        BY <1>6, NextEventIs
      <3>2. now <= TicksPerSecond * e
        BY <1>1, <1>2, SecondsAre
      <3>3. TicksPerSecond * e + TicksPerSecond * d <= t * TicksPerSecond
        <4>1. e + d = n /\ n \in Nat /\ t \in Nat /\ TicksPerSecond \in Nat
          BY <1>6, <2>2, <3>1, LoopAssumption
        <4>2. TicksPerSecond * e + TicksPerSecond * d = TicksPerSecond * n
          BY <4>1
        <4>3. TicksPerSecond * n <= t * TicksPerSecond
          BY <3>1, <4>1
        <4> QED  BY <4>2, <4>3
      <3> QED  BY <1>1, <2>3, <2>4, <3>2, <3>3, LoopAssumption
    <2> QED  BY <1>8, <2>5, <2>6, <2>7, <2>8 DEF LoopInvariant
  <1> QED  BY <1>9, <1>10

-----------------------------------------------------------------------------
(* Events *)

\* The rest of a turn takes one event from the batch, or returns.
LEMMA AfterEventIs ==
    ASSUME TypeOK, NEW op \in Operations, batch[op] > 0, AfterEvent(Without(op))
    PROVE  /\ batch' \in [Operations -> Nat]
           /\ pc' \in {"returned", "loop", "batch"}
           /\ \A o \in Operations : batch'[o] <= batch[o]
           /\ pc' = "batch" => batch'[op] = batch[op] - 1
  <1>1. Without(op) \in [Operations -> Nat] /\ NoEvents \in [Operations -> Nat]
    BY DEF TypeOK, Without, NoEvents
  <1>2. \A o \in Operations : Without(op)[o] = IF o = op THEN batch[o] - 1 ELSE batch[o]
    BY DEF TypeOK, Without
  <1>3. batch' \in {Without(op), NoEvents}
    BY DEF AfterEvent
  <1>4. \A o \in Operations : batch'[o] <= batch[o]
    BY <1>2, <1>3 DEF NoEvents, TypeOK
  <1>5. pc' \in {"returned", "loop", "batch"} /\ (pc' = "batch" => batch' = Without(op))
    BY DEF AfterEvent
  <1> QED  BY <1>1, <1>2, <1>3, <1>4, <1>5

\* What no event changes.
LEMMA EventKeeps ==
    ASSUME LoopInvariant, pc \in {"batch", "retry"},
           UNCHANGED <<profile, queue, last, now>>,
           pc' \in {"returned", "loop", "batch", "retry", "exit"}
    PROVE  ProfilesInvariant' /\ ClockInvariant' /\ NeverOversleeps'
  BY DEF LoopInvariant, ProfilesInvariant, ClockInvariant, NeverOversleeps

LEMMA PutStep ==
    ASSUME LoopInvariant, ProcessPutEvent
    PROVE  LoopInvariant'
  <1>1. /\ pc = "batch" /\ batch["put"] > 0 /\ AfterEvent(Without("put"))
        /\ "put" \in Operations
        /\ UNCHANGED <<profile, queue, last, now, wake, connected, hits, misses>>
    BY DEF ProcessPutEvent, FirstOf, Operations
  <1>2. /\ batch' \in [Operations -> Nat] /\ pc' \in {"returned", "loop", "batch"}
        /\ \A o \in Operations : batch'[o] <= batch[o]
    BY <1>1, AfterEventIs DEF LoopInvariant
  <1>3. /\ latencies' \in [Operations -> Nat]
        /\ \A o \in Operations \ {"put"} : latencies'[o] = latencies[o]
    BY DEF ProcessPutEvent, Measured, LoopInvariant, TypeOK
  <1>4. TypeOK'
    BY <1>1, <1>2, <1>3 DEF LoopInvariant, TypeOK, Locations
  <1>5. MetricsConsistent'
    BY <1>1, <1>3 DEF LoopInvariant, MetricsConsistent, Operations
  <1>6. OrderInvariant'
    BY <1>1, <1>2 DEF LoopInvariant, TypeOK, OrderInvariant, Operations
  <1>7. JoinsGenerated' /\ LeavesGenerated'
    BY <1>1, <1>2 DEF LoopInvariant, TypeOK, JoinsGenerated, LeavesGenerated,
       MayBeginAtZero, Operations
  <1>8. FatalOnlyWithTwoWaiting'
    BY <1>2 DEF FatalOnlyWithTwoWaiting
  <1>9. ProfilesInvariant' /\ ClockInvariant' /\ NeverOversleeps'
    BY <1>1, <1>2, EventKeeps
  <1> QED  BY <1>2, <1>4, <1>5, <1>6, <1>7, <1>8, <1>9 DEF LoopInvariant

LEMMA GetStep ==
    ASSUME LoopInvariant, NEW success \in BOOLEAN, ProcessGetEvent(success)
    PROVE  LoopInvariant'
  <1>1. /\ pc = "batch" /\ batch["get"] > 0 /\ AfterEvent(Without("get"))
        /\ "get" \in Operations
        /\ UNCHANGED <<profile, queue, last, now, wake, connected>>
    BY DEF ProcessGetEvent, FirstOf, Operations
  <1>2. /\ batch' \in [Operations -> Nat] /\ pc' \in {"returned", "loop", "batch"}
        /\ \A o \in Operations : batch'[o] <= batch[o]
    BY <1>1, AfterEventIs DEF LoopInvariant
  <1>3. /\ latencies' \in [Operations -> Nat] /\ hits' \in [Operations -> Nat]
        /\ misses' \in [Operations -> Nat]
        /\ \A o \in Operations \ {"get"} :
              latencies'[o] = latencies[o] /\ hits'[o] = hits[o] /\ misses'[o] = misses[o]
    BY DEF ProcessGetEvent, Measured, LoopInvariant, TypeOK
  <1>4. TypeOK'
    BY <1>1, <1>2, <1>3 DEF LoopInvariant, TypeOK, Locations
  <1>5. MetricsConsistent'
    <2>1. latencies'["get"] = hits'["get"] + misses'["get"]
      BY <1>1 DEF ProcessGetEvent, Measured, LoopInvariant, TypeOK, MetricsConsistent
    <2> QED  BY <1>1, <1>3, <2>1 DEF LoopInvariant, MetricsConsistent, Operations
  <1>6. OrderInvariant'
    BY <1>1, <1>2 DEF LoopInvariant, TypeOK, OrderInvariant, Operations
  <1>7. JoinsGenerated' /\ LeavesGenerated'
    BY <1>1, <1>2 DEF LoopInvariant, TypeOK, JoinsGenerated, LeavesGenerated,
       MayBeginAtZero, Operations
  <1>8. FatalOnlyWithTwoWaiting'
    BY <1>2 DEF FatalOnlyWithTwoWaiting
  <1>9. ProfilesInvariant' /\ ClockInvariant' /\ NeverOversleeps'
    BY <1>1, <1>2, EventKeeps
  <1> QED  BY <1>2, <1>4, <1>5, <1>6, <1>7, <1>8, <1>9 DEF LoopInvariant

\* A leave that finds the node out of the DHT is the second of its batch.
LEMMA LeaveStep ==
    ASSUME LoopInvariant, ProcessLeaveEvent
    PROVE  LoopInvariant'
  <1>1. /\ pc = "batch" /\ batch["leave"] > 0 /\ batch["put"] = 0 /\ batch["get"] = 0
        /\ "leave" \in Operations
        /\ UNCHANGED <<profile, queue, last, now, wake, hits, misses>>
    BY DEF ProcessLeaveEvent, FirstOf, Operations
  <1>2. CASE connected
    <2>1. AfterEvent(Without("leave")) /\ connected' = FALSE /\ Measured("leave")
      BY <1>2 DEF ProcessLeaveEvent
    <2>2. /\ batch' \in [Operations -> Nat] /\ pc' \in {"returned", "loop", "batch"}
          /\ \A o \in Operations : batch'[o] <= batch[o]
          /\ pc' = "batch" => batch'["leave"] = batch["leave"] - 1
      BY <1>1, <2>1, AfterEventIs DEF LoopInvariant
    <2>3. /\ latencies' \in [Operations -> Nat]
          /\ latencies'["leave"] = latencies["leave"] + 1
          /\ \A o \in Operations \ {"leave"} : latencies'[o] = latencies[o]
      BY <1>1, <2>1 DEF Measured, LoopInvariant, TypeOK
    <2>4. TypeOK'
      BY <1>1, <2>1, <2>2, <2>3 DEF LoopInvariant, TypeOK, Locations
    <2>5. MetricsConsistent'
      BY <1>1, <1>2, <2>1, <2>3 DEF LoopInvariant, TypeOK, MetricsConsistent, Operations
    <2>6. OrderInvariant'
      BY <1>1, <2>1, <2>2 DEF LoopInvariant, TypeOK, OrderInvariant, Operations
    <2>7. JoinsGenerated'
      BY <1>1, <2>1, <2>2 DEF LoopInvariant, TypeOK, JoinsGenerated, Operations
    <2>8. LeavesGenerated'
      BY <1>1, <2>1, <2>2 DEF LoopInvariant, TypeOK, LeavesGenerated, MayBeginAtZero
    <2>9. FatalOnlyWithTwoWaiting'
      BY <2>2 DEF FatalOnlyWithTwoWaiting
    <2>10. ProfilesInvariant' /\ ClockInvariant' /\ NeverOversleeps'
      BY <1>1, <2>2, EventKeeps
    <2> QED  BY <2>2, <2>4, <2>5, <2>6, <2>7, <2>8, <2>9, <2>10 DEF LoopInvariant
  <1>3. CASE ~connected
    <2>1. pc' = "exit" /\ UNCHANGED <<batch, latencies, connected>>
      BY <1>3 DEF ProcessLeaveEvent
    <2>2. profile["leave"].type = "exact" \/ MayBeginAtZero(profile["leave"])
      BY <1>1, <1>3 DEF LoopInvariant, LeavesGenerated
    <2>3. FatalOnlyWithTwoWaiting'
      BY <1>1, <2>2 DEF FatalOnlyWithTwoWaiting, MayBeginAtZero
    <2>4. TypeOK' /\ MetricsConsistent'
      BY <1>1, <2>1 DEF LoopInvariant, TypeOK, Locations, MetricsConsistent
    <2>5. OrderInvariant' /\ JoinsGenerated' /\ LeavesGenerated'
      BY <1>1, <2>1 DEF LoopInvariant, OrderInvariant, JoinsGenerated, LeavesGenerated,
         MayBeginAtZero
    <2>6. ProfilesInvariant' /\ ClockInvariant' /\ NeverOversleeps'
      BY <1>1, <2>1, EventKeeps
    <2> QED  BY <2>3, <2>4, <2>5, <2>6 DEF LoopInvariant
  <1> QED  BY <1>2, <1>3

\* A join event, the first time or again.
LEMMA JoinPending ==
    ASSUME LoopInvariant, FirstOf("join") \/ (pc = "retry" /\ now >= wake)
    PROVE  /\ pc \in {"batch", "retry"} /\ batch["join"] > 0 /\ "join" \in Operations
           /\ batch["put"] = 0 /\ batch["get"] = 0 /\ batch["leave"] = 0
  BY DEF FirstOf, LoopInvariant, TypeOK, OrderInvariant, Operations

\* A join that finds the node in the DHT is the second of its batch.
LEMMA JoinStep ==
    ASSUME LoopInvariant, JoinSucceeds
    PROVE  LoopInvariant'
  <1>1. /\ pc \in {"batch", "retry"} /\ batch["join"] > 0 /\ "join" \in Operations
        /\ batch["put"] = 0 /\ batch["get"] = 0 /\ batch["leave"] = 0
        /\ UNCHANGED <<profile, queue, last, now, wake, misses>>
    BY JoinPending DEF JoinSucceeds
  <1>2. CASE connected
    <2>1. pc' = "exit" /\ UNCHANGED <<batch, latencies, connected, hits>>
      BY <1>2 DEF JoinSucceeds
    <2>2. profile["join"].type = "exact"
      BY <1>1, <1>2 DEF LoopInvariant, JoinsGenerated
    <2>3. FatalOnlyWithTwoWaiting'
      BY <1>1, <2>2 DEF FatalOnlyWithTwoWaiting
    <2>4. TypeOK' /\ MetricsConsistent'
      BY <1>1, <2>1 DEF LoopInvariant, TypeOK, Locations, MetricsConsistent
    <2>5. OrderInvariant' /\ JoinsGenerated' /\ LeavesGenerated'
      BY <1>1, <2>1 DEF LoopInvariant, OrderInvariant, JoinsGenerated, LeavesGenerated,
         MayBeginAtZero
    <2>6. ProfilesInvariant' /\ ClockInvariant' /\ NeverOversleeps'
      BY <1>1, <2>1, EventKeeps
    <2> QED  BY <2>3, <2>4, <2>5, <2>6 DEF LoopInvariant
  <1>3. CASE ~connected
    <2>1. /\ AfterEvent(Without("join")) /\ connected' = TRUE /\ Measured("join")
          /\ hits' = [hits EXCEPT !["join"] = @ + 1]
      BY <1>3 DEF JoinSucceeds
    <2>2. /\ batch' \in [Operations -> Nat] /\ pc' \in {"returned", "loop", "batch"}
          /\ \A o \in Operations : batch'[o] <= batch[o]
          /\ pc' = "batch" => batch'["join"] = batch["join"] - 1
      BY <1>1, <2>1, AfterEventIs DEF LoopInvariant
    <2>3. /\ latencies' \in [Operations -> Nat] /\ hits' \in [Operations -> Nat]
          /\ latencies'["join"] = latencies["join"] + 1
          /\ hits'["join"] = hits["join"] + 1
          /\ \A o \in Operations \ {"join"} :
                latencies'[o] = latencies[o] /\ hits'[o] = hits[o]
      BY <1>1, <2>1 DEF Measured, LoopInvariant, TypeOK
    <2>4. TypeOK'
      BY <1>1, <2>1, <2>2, <2>3 DEF LoopInvariant, TypeOK, Locations
    <2>5. MetricsConsistent'
      BY <1>1, <1>3, <2>1, <2>3 DEF LoopInvariant, TypeOK, MetricsConsistent, Operations
    <2>6. OrderInvariant'
      BY <1>1, <2>1, <2>2 DEF LoopInvariant, TypeOK, OrderInvariant, Operations
    <2>7. JoinsGenerated'
      BY <1>1, <2>1, <2>2 DEF LoopInvariant, TypeOK, JoinsGenerated
    <2>8. LeavesGenerated'
      BY <1>1, <2>1, <2>2 DEF LoopInvariant, TypeOK, LeavesGenerated, MayBeginAtZero,
         Operations
    <2>9. FatalOnlyWithTwoWaiting'
      BY <2>2 DEF FatalOnlyWithTwoWaiting
    <2>10. ProfilesInvariant' /\ ClockInvariant' /\ NeverOversleeps'
      BY <1>1, <2>2, EventKeeps
    <2> QED  BY <2>2, <2>4, <2>5, <2>6, <2>7, <2>8, <2>9, <2>10 DEF LoopInvariant
  <1> QED  BY <1>2, <1>3

\* A join that fails and is tried again keeps its event.
LEMMA JoinFailsStep ==
    ASSUME LoopInvariant, JoinFails
    PROVE  LoopInvariant'
  <1>1. /\ pc \in {"batch", "retry"} /\ batch["join"] > 0 /\ "join" \in Operations
        /\ batch["put"] = 0 /\ batch["get"] = 0 /\ batch["leave"] = 0
        /\ UNCHANGED <<profile, queue, last, now, batch, connected, hits>>
        /\ ~connected /\ pc' = "retry" /\ wake' = Until(now + TicksPerSecond)
    BY JoinPending DEF JoinFails
  <1>2. wake' \in 0 .. EndOfTime
    BY <1>1, LoopAssumption DEF LoopInvariant, TypeOK, Until
  <1>3. /\ latencies' \in [Operations -> Nat] /\ misses' \in [Operations -> Nat]
        /\ latencies'["join"] = latencies["join"] + 1
        /\ misses'["join"] = misses["join"] + 1
        /\ \A o \in Operations \ {"join"} :
              latencies'[o] = latencies[o] /\ misses'[o] = misses[o]
    BY <1>1 DEF JoinFails, Measured, LoopInvariant, TypeOK
  <1>4. TypeOK'
    BY <1>1, <1>2, <1>3 DEF LoopInvariant, TypeOK, Locations
  <1>5. MetricsConsistent'
    BY <1>1, <1>3 DEF LoopInvariant, TypeOK, MetricsConsistent, Operations
  <1>6. OrderInvariant' /\ FatalOnlyWithTwoWaiting'
    BY <1>1 DEF LoopInvariant, OrderInvariant, FatalOnlyWithTwoWaiting
  <1>7. JoinsGenerated' /\ LeavesGenerated'
    BY <1>1 DEF LoopInvariant, JoinsGenerated, LeavesGenerated, MayBeginAtZero
  <1>8. ProfilesInvariant' /\ ClockInvariant' /\ NeverOversleeps'
    BY <1>1, EventKeeps
  <1> QED  BY <1>4, <1>5, <1>6, <1>7, <1>8 DEF LoopInvariant

-----------------------------------------------------------------------------
(* The theorems *)

LEMMA NextLoop ==
    LoopInvariant /\ [Next]_vars => LoopInvariant'
  <1> SUFFICES ASSUME LoopInvariant, [Next]_vars PROVE LoopInvariant'
    OBVIOUS
  <1>1. CASE TimesUp \/ WakeUp \/ Tick
    BY <1>1, PassingStep
  <1>2. CASE ScheduleSome
    BY <1>2, ScheduleStep DEF ScheduleSome
  <1>3. CASE ProcessPutEvent
    BY <1>3, PutStep
  <1>4. CASE \E success \in BOOLEAN : ProcessGetEvent(success)
    BY <1>4, GetStep
  <1>5. CASE ProcessLeaveEvent
    BY <1>5, LeaveStep
  <1>6. CASE JoinSucceeds
    BY <1>6, JoinStep
  <1>7. CASE JoinFails
    BY <1>7, JoinFailsStep
  <1>8. CASE UNCHANGED vars
    BY <1>8 DEF vars, LoopInvariant, TypeOK, MetricsConsistent, ProfilesInvariant,
       OrderInvariant, JoinsGenerated, LeavesGenerated, MayBeginAtZero, ClockInvariant,
       FatalOnlyWithTwoWaiting, NeverOversleeps, Relevant
  <1> QED  BY <1>1, <1>2, <1>3, <1>4, <1>5, <1>6, <1>7, <1>8
           DEF Next, LoopStep, OperationStep, Finished

LEMMA LoopInvariantHolds ==
    Spec => []LoopInvariant
  BY InitLoop, NextLoop, PTL DEF Spec

(***************************************************************************)
(* What DhtNode reports adds up, for any profiles and any delays: as many  *)
(* successful joins as leaves, one more while it is in the DHT, and every  *)
(* attempt to join and every get in both its latency and its success rate. *)
(***************************************************************************)
THEOREM MetricsAddUp ==
    Spec => []NodeInvariant
  <1>1. LoopInvariant => NodeInvariant
    BY DEF LoopInvariant, NodeInvariant
  <1> QED  BY <1>1, LoopInvariantHolds, PTL

(***************************************************************************)
(* start() drops no put or get and the handlers of joins and leaves meet   *)
(* the state they expect, however late the loop is: exit(1) takes two      *)
(* events of one churn profile in the queue, which only an exact profile   *)
(* and leaves that begin at time 0 have.                                   *)
(***************************************************************************)
THEOREM BatchesRight ==
    Spec => []BatchInvariant
  <1>1. LoopInvariant => BatchInvariant
    BY DEF LoopInvariant, TypeOK, BatchInvariant, OrderInvariant,
       NoDataEventWhileDisconnected, Operations
  <1> QED  BY <1>1, LoopInvariantHolds, PTL

(***************************************************************************)
(* For any duration and any fineness of the clock, the seconds that        *)
(* total_seconds() rounds down never make start() sleep past an event that *)
(* getNextEventTime can see.                                               *)
(***************************************************************************)
THEOREM SleepsEndInTime ==
    Spec => []NeverOversleeps
  <1>1. LoopInvariant => NeverOversleeps
    BY DEF LoopInvariant
  <1> QED  BY <1>1, LoopInvariantHolds, PTL
=============================================================================
