------------------------------ MODULE EventLoop -----------------------------
(***************************************************************************)
(* DhtperfController::start() of one controller, with the profiles it      *)
(* schedules and the DhtNode it drives. The clock counts TicksPerSecond    *)
(* ticks a second, because the loop sees it through total_seconds(), which *)
(* drops the fraction. Time may pass between any two steps, so operations  *)
(* take as long as they like.                                              *)
(***************************************************************************)
EXTENDS Profiles

CONSTANTS
    JoinProfiles, LeaveProfiles, PutProfiles, GetProfiles,
    WorkloadDuration,   \* profile_.duration(), in seconds
    TicksPerSecond,
    EndOfTime,          \* bound of the clock, in ticks
    MaxOperations       \* bound: of each kind, where time does not bound them

ASSUME LoopAssumption ==
    /\ WorkloadDuration \in Nat \ {0}
    /\ Horizon > WorkloadDuration
    /\ TicksPerSecond \in Nat \ {0}
    /\ EndOfTime \in Nat /\ EndOfTime > WorkloadDuration * TicksPerSecond
    /\ MaxOperations \in Nat

\* The other types exit(1) in their constructor for these operations.
ASSUME ProfilesAssumption ==
    /\ \A p \in JoinProfiles \cup LeaveProfiles \cup PutProfiles \cup GetProfiles :
          WellFormed(p)
    /\ \A p \in JoinProfiles \cup LeaveProfiles :
          p.type \in {"none", "exact", "now", "poissonrandom", "weibullrandom"}
    /\ \A p \in PutProfiles \cup GetProfiles :
          p.type \in FixedTypes \cup {"interval", "poissonrandom", "weibullrandom"}

VARIABLES
    profile,    \* per operation: its profile
    queue,      \* per operation: eventQueue_
    last,       \* per operation: lastEvent_ / lastEventTime_
    now,        \* ticks since the timer was armed
    pc,         \* where start() is
    wake,       \* when the sleep under way ends
    batch,      \* per operation: events popped and not yet processed
    connected,  \* DhtNode::connected_
    latencies,  \* per operation: entries of its NodeLatency
    hits,       \* per operation: NodeSuccessRate
    misses

vars == <<profile, queue, last, now, pc, wake, batch, connected, latencies,
          hits, misses>>

Operations == {"join", "leave", "put", "get"}
Locations == {"loop", "batch", "retry", "sleep", "returned", "exit"}
NoEvents == [op \in Operations |-> 0]

TypeOK ==
    /\ queue \in [Operations -> Queues]
    /\ last \in [Operations -> Times]
    /\ now \in 0 .. EndOfTime
    /\ pc \in Locations
    /\ wake \in 0 .. EndOfTime
    /\ batch \in [Operations -> Nat]
    /\ connected \in BOOLEAN
    /\ latencies \in [Operations -> Nat]
    /\ hits \in [Operations -> Nat]
    /\ misses \in [Operations -> Nat]

Init ==
    /\ profile \in {[join |-> j, leave |-> l, put |-> p, get |-> g] :
                       j \in JoinProfiles, l \in LeaveProfiles,
                       p \in PutProfiles, g \in GetProfiles}
    /\ \E made \in [Operations -> UNION {MakeProfile(profile[op]) :
                                            op \in Operations}] :
          /\ \A op \in Operations : made[op] \in MakeProfile(profile[op])
          /\ queue = [op \in Operations |-> made[op].queue]
          /\ last = [op \in Operations |-> made[op].last]
    /\ now = 0
    /\ pc = "loop"
    /\ wake = 0
    /\ batch = NoEvents
    /\ connected = FALSE
    /\ latencies = NoEvents
    /\ hits = NoEvents
    /\ misses = NoEvents

-----------------------------------------------------------------------------
\* remaining.total_seconds(): whole seconds left, the fraction dropped; the
\* mutant rounds up.
RemainingSecondsRoundedUp ==
    IF now >= WorkloadDuration * TicksPerSecond THEN 0
    ELSE (WorkloadDuration * TicksPerSecond - now + TicksPerSecond - 1)
             \div TicksPerSecond
RemainingSeconds ==
    IF now >= WorkloadDuration * TicksPerSecond THEN 0
    ELSE (WorkloadDuration * TicksPerSecond - now) \div TicksPerSecond

\* DHTPERF_CHECK_DONE; the mutant never stops.
Elapsed == WorkloadDuration - RemainingSeconds
TimeIsUpNever == Elapsed > WorkloadDuration
TimeIsUp == Elapsed >= WorkloadDuration

Until(t) == IF t > EndOfTime THEN EndOfTime ELSE t

\* The profiles that count: leave, put and get, or join.
Relevant == IF connected THEN {"leave", "put", "get"} ELSE {"join"}

\* ControllerWorkloadProfile::getNextEventTime: the least, zeros aside; and
\* start() takes a time after the workload's end for none.
NextEvent(q) ==
    LET times == {NextEventTime(q[op]) : op \in Relevant} \ {0}
    IN  IF times = {} \/ Min(times) > WorkloadDuration THEN 0 ELSE Min(times)

TimesUp ==
    /\ pc = "loop"
    /\ TimeIsUp
    /\ pc' = "returned"
    /\ UNCHANGED <<profile, queue, last, now, wake, batch, connected,
                   latencies, hits, misses>>

(***************************************************************************)
(* One turn of the loop: schedule, then pop what is due or go to sleep,    *)
(* until the next event or for the rest of the workload.                   *)
(***************************************************************************)
Schedule(next) ==
    /\ pc = "loop"
    /\ ~TimeIsUp
    /\ \A op \in Operations : latencies[op] < MaxOperations
    /\ \A op \in Relevant :
          next[op] \in ScheduleNextEvent(profile[op], queue[op], last[op],
                                         Elapsed)
    /\ LET queued == [op \in Operations |->
                         IF op \in Relevant THEN next[op].queue ELSE queue[op]]
           nextEvent == NextEvent(queued)
       IN  IF nextEvent # 0 /\ nextEvent <= Elapsed
           THEN /\ pc' = "batch"
                /\ batch' = [op \in Operations |->
                      IF op \in Relevant THEN Due(queued[op], Elapsed) ELSE 0]
                /\ queue' = [op \in Operations |->
                      IF op \in Relevant THEN Rest(queued[op], Elapsed)
                                         ELSE queued[op]]
                /\ UNCHANGED wake
           ELSE /\ pc' = "sleep"
                /\ wake' = Until(now + TicksPerSecond *
                      (IF nextEvent # 0 THEN nextEvent - Elapsed
                                        ELSE RemainingSeconds))
                /\ queue' = queued
                /\ UNCHANGED batch
    /\ last' = [op \in Operations |->
                   IF op \in Relevant THEN next[op].last ELSE last[op]]
    /\ UNCHANGED <<profile, now, connected, latencies, hits, misses>>

ScheduleSome ==
    \E next \in [Relevant ->
                    UNION {ScheduleNextEvent(profile[op], queue[op], last[op],
                                             Elapsed) : op \in Relevant}] :
        Schedule(next)

WakeUp ==
    /\ pc = "sleep"
    /\ now >= wake
    /\ pc' = "loop"
    /\ UNCHANGED <<profile, queue, last, now, wake, batch, connected,
                   latencies, hits, misses>>

-----------------------------------------------------------------------------
\* The rest of a BOOST_FOREACH turn: DHTPERF_CHECK_DONE may return from
\* start(); after the last event of the batch the loop starts over.
AfterEvent(left) ==
    /\ batch' = IF TimeIsUp THEN NoEvents ELSE left
    /\ pc' = IF TimeIsUp THEN "returned"
             ELSE IF left = NoEvents THEN "loop" ELSE "batch"

\* A batch is processed in this order; the mutant takes the leaves
\* first.
FirstOfLeavesFirst(op) ==
    /\ pc = "batch"
    /\ batch[op] > 0
    /\ op # "leave" => batch["leave"] = 0
FirstOf(op) ==
    /\ pc = "batch"
    /\ batch[op] > 0
    /\ CASE op \in {"join", "put"} -> TRUE
         [] op = "get" -> batch["put"] = 0
         [] op = "leave" -> batch["put"] = 0 /\ batch["get"] = 0

Without(op) == [batch EXCEPT ![op] = @ - 1]
Measured(op) == latencies' = [latencies EXCEPT ![op] = @ + 1]

ProcessPutEvent ==
    /\ FirstOf("put")
    /\ AfterEvent(Without("put"))
    /\ IF connected THEN Measured("put") ELSE UNCHANGED latencies
    /\ UNCHANGED <<profile, queue, last, now, wake, connected, hits, misses>>

ProcessGetEvent(success) ==
    /\ FirstOf("get")
    /\ AfterEvent(Without("get"))
    /\ IF connected
       THEN /\ Measured("get")
            /\ hits' = [hits EXCEPT !["get"] = @ + (IF success THEN 1 ELSE 0)]
            /\ misses' = [misses EXCEPT !["get"] =
                             @ + (IF success THEN 0 ELSE 1)]
       ELSE UNCHANGED <<latencies, hits, misses>>
    /\ UNCHANGED <<profile, queue, last, now, wake, connected>>

\* "Received a leave event, but I'm disconnected!": exit(1).
ProcessLeaveEvent ==
    /\ FirstOf("leave")
    /\ IF connected
       THEN /\ AfterEvent(Without("leave"))
            /\ Measured("leave")
            /\ connected' = FALSE
       ELSE /\ pc' = "exit"
            /\ UNCHANGED <<batch, latencies, connected>>
    /\ UNCHANGED <<profile, queue, last, now, wake, hits, misses>>

\* "Received a join event, but I'm connected!": exit(1). A failed join is
\* tried again after a second, without a look at the clock.
JoinSucceeds ==
    /\ FirstOf("join") \/ (pc = "retry" /\ now >= wake)
    /\ IF connected
       THEN /\ pc' = "exit"
            /\ UNCHANGED <<batch, latencies, connected, hits>>
       ELSE /\ AfterEvent(Without("join"))
            /\ Measured("join")
            /\ hits' = [hits EXCEPT !["join"] = @ + 1]
            /\ connected' = TRUE
    /\ UNCHANGED <<profile, queue, last, now, wake, misses>>

\* Mutant: only successful joins are measured.
JoinFailsUnmeasured ==
    /\ FirstOf("join") \/ (pc = "retry" /\ now >= wake)
    /\ ~connected
    /\ now < EndOfTime
    /\ pc' = "retry"
    /\ wake' = Until(now + TicksPerSecond)
    /\ misses' = [misses EXCEPT !["join"] = @ + 1]
    /\ UNCHANGED <<profile, queue, last, now, batch, connected, latencies,
                   hits>>

JoinFails ==
    /\ FirstOf("join") \/ (pc = "retry" /\ now >= wake)
    /\ ~connected
    /\ now < EndOfTime
    /\ pc' = "retry"
    /\ wake' = Until(now + TicksPerSecond)
    /\ Measured("join")
    /\ misses' = [misses EXCEPT !["join"] = @ + 1]
    /\ UNCHANGED <<profile, queue, last, now, batch, connected, hits>>

Tick ==
    /\ pc \notin {"returned", "exit"}
    /\ now < EndOfTime
    /\ now' = now + 1
    /\ UNCHANGED <<profile, queue, last, pc, wake, batch, connected,
                   latencies, hits, misses>>

Finished ==
    /\ pc \in {"returned", "exit"}
    /\ UNCHANGED vars

LoopStep == TimesUp \/ ScheduleSome \/ WakeUp
OperationStep ==
    \/ ProcessPutEvent
    \/ \E success \in BOOLEAN : ProcessGetEvent(success)
    \/ ProcessLeaveEvent \/ JoinSucceeds \/ JoinFails

Next == LoopStep \/ OperationStep \/ Tick \/ Finished

Spec == Init /\ [][Next]_vars

\* The thread and the clock go on; "DhtNode operations might never end".
FairSpec == Spec /\ WF_vars(LoopStep) /\ WF_vars(Tick)

-----------------------------------------------------------------------------
(***************************************************************************)
(* What the controller reports is consistent with what it did, whatever    *)
(* the order of late, repeated and failing events: joins and leaves        *)
(* alternate, and every join attempt and every get is in both its latency  *)
(* and its success rate.                                                   *)
(***************************************************************************)
MetricsConsistent ==
    /\ hits["join"] = latencies["leave"] + (IF connected THEN 1 ELSE 0)
    /\ latencies["join"] = hits["join"] + misses["join"]
    /\ latencies["get"] = hits["get"] + misses["get"]

(***************************************************************************)
(* No put or get is ever processed while the node is out of the DHT, which *)
(* would be dropped without a measurement: the batch is taken when         *)
(* connected and its leaves come last.                                     *)
(***************************************************************************)
NoDataEventWhileDisconnected ==
    pc = "batch" /\ batch["put"] + batch["get"] > 0 => connected

\* A generator that may begin with an event at time 0.
MayBeginAtZero(p) ==
    \/ p.type = "now" /\ 0 \in p.minimum
    \/ p.type = "poissonrandom" /\ p.timeBegin = 0 /\ 0 \in Samples

(***************************************************************************)
(* exit(1) in processJoinEvent or processLeaveEvent takes an exact churn   *)
(* profile with two events that a slow operation made due together: a      *)
(* generator (now, weibullrandom, poissonrandom) has one event waiting,    *)
(* unless the leaves begin at time 0, which scheduleNextEvent takes for an *)
(* empty queue and generates another.                                      *)
(***************************************************************************)
FatalOnlyWithTwoWaiting ==
    pc = "exit" => \/ \E op \in {"join", "leave"} : profile[op].type = "exact"
                   \/ MayBeginAtZero(profile["leave"])

(***************************************************************************)
(* The loop never sleeps past the time of an event that it should process  *)
(* in its present state, although it computes the sleep from rounded       *)
(* seconds. The exception is what getNextEventTime cannot tell from an     *)
(* empty queue: an event at time 0 is lost, and while it heads its queue   *)
(* so is every event behind it.                                            *)
(***************************************************************************)
NeverOversleeps ==
    pc = "sleep" =>
        \A op \in Relevant : queue[op][0] = 0 =>
            \A t \in 1 .. WorkloadDuration :
                queue[op][t] > 0 => wake <= t * TicksPerSecond

(***************************************************************************)
(* DhtperfController.cpp:162: "Don't return from this function before      *)
(* "duration" has passed". The code returns when less than a second is     *)
(* left, as DHTPERF_CHECK_DONE looks at whole seconds.                     *)
(***************************************************************************)
ReturnsAfterDuration ==
    pc = "returned" => now >= WorkloadDuration * TicksPerSecond

(***************************************************************************)
(* The loop itself always gets to its end: if start() does not end it is   *)
(* because one operation never returned, or a join failed for ever, which  *)
(* is what the timeout thread is for.                                      *)
(***************************************************************************)
OnlyOperationsBlock ==
    <>(pc \in {"returned", "exit"}) \/ <>[](pc \in {"batch", "retry"})

(***************************************************************************)
(* What DhtNode has measured is well formed and adds up.                   *)
(***************************************************************************)
NodeInvariant == TypeOK /\ MetricsConsistent

(***************************************************************************)
(* A batch that popEvents made, with however many late events, is one that *)
(* the handlers of start() expect in the state the node is in when they    *)
(* get to each event.                                                      *)
(***************************************************************************)
BatchInvariant == NoDataEventWhileDisconnected /\ FatalOnlyWithTwoWaiting
=============================================================================
