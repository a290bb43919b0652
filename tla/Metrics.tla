------------------------------ MODULE Metrics -------------------------------
(***************************************************************************)
(* The classes of metrics/: what a node measures, its textual form, and    *)
(* what the master accumulates. Doubles are exact fractions <<num, den>>,  *)
(* integers have denominator 1. Times and durations are microseconds.      *)
(***************************************************************************)
EXTENDS Maps, Integers, Sequences, FiniteSetsExt, SequencesExt

CONSTANT Uninitialized      \* max_ and min_ before the first push

Leq(a, b) == a[1] * b[2] <= b[1] * a[2]
Integer(n) == <<n, 1>>

(***************************************************************************)
(* Statistics<T>; interval is 0 when there is no frequency map.            *)
(***************************************************************************)
Statistics(interval) ==
    [count |-> 0, max |-> Uninitialized, min |-> Uninitialized,
     mean |-> <<0, 1>>, interval |-> interval, frequency |-> <<>>]

\* mean + (e - mean) / count, on fractions.
RunningMean(mean, e, count) ==
    <<mean[1] * (count - 1) * e[2] + e[1] * mean[2], mean[2] * count * e[2]>>

\* Mutant: the first element does not reset max_ and min_.
PushNoFirst(s, e) ==
    [s EXCEPT !.count = @ + 1,
              !.max = IF s.count = 0 \/ Leq(@, e) THEN e ELSE @,
              !.min = IF s.count = 0 THEN Integer(0)
                      ELSE IF Leq(e, @) THEN e ELSE @,
              !.mean = RunningMean(@, e, s.count + 1),
              !.frequency = IF s.interval = 0 THEN @
                            ELSE LET b == (e[1] \div e[2]) \div s.interval
                                 IN  Assign(@, b, Lookup(@, b) + 1)]
Push(s, e) ==
    [s EXCEPT !.count = @ + 1,
              !.max = IF s.count = 0 \/ Leq(@, e) THEN e ELSE @,
              !.min = IF s.count = 0 \/ Leq(e, @) THEN e ELSE @,
              !.mean = RunningMean(@, e, s.count + 1),
              !.frequency = IF s.interval = 0 THEN @
                            ELSE LET b == (e[1] \div e[2]) \div s.interval
                                 IN  Assign(@, b, Lookup(@, b) + 1)]

(***************************************************************************)
(* NodeLatency: the map is keyed by the time of the measurement.           *)
(***************************************************************************)
NodeLatency == [measurements |-> <<>>, statistics |-> Statistics(0)]

PushWithTime(nl, time, latency) ==
    [measurements |-> Assign(nl.measurements, time, latency),
     statistics |-> Push(nl.statistics, Integer(latency))]

\* The entries of the map in its order, and the object built from them.
LatencyToString(nl) ==
    LET times == SetToSortSeq(DOMAIN nl.measurements, <)
    IN  [k \in DOMAIN times |-> <<times[k], nl.measurements[times[k]]>>]

LatencyFromString(entries) ==
    FoldLeft(LAMBDA nl, e : PushWithTime(nl, e[1], e[2]), NodeLatency, entries)

(***************************************************************************)
(* GeneralLatency: nodes without measurements do not count.                *)
(***************************************************************************)
GeneralLatency(interval) ==
    [nodes |-> 0, means |-> Statistics(0), general |-> Statistics(interval)]

\* Mutant: pushes the empty nodes too.
PushNodeAlways(g, nl) ==
    [nodes |-> g.nodes + 1,
     means |-> Push(g.means, nl.statistics.mean),
     general |-> FoldLeft(LAMBDA s, e : Push(s, Integer(e[2])), g.general,
                          LatencyToString(nl))]
PushNode(g, nl) ==
    IF nl.statistics.count = 0 THEN g
    ELSE [nodes |-> g.nodes + 1,
          means |-> Push(g.means, nl.statistics.mean),
          general |-> FoldLeft(LAMBDA s, e : Push(s, Integer(e[2])), g.general,
                               LatencyToString(nl))]

\* The accessors that processLatency prints.
LatencyRow(g) ==
    IF g.nodes = 0
    THEN [min |-> Integer(0), minMean |-> Integer(0), mean |-> Integer(0),
          meanOfMeans |-> Integer(0), maxMean |-> Integer(0),
          max |-> Integer(0), count |-> 0]
    ELSE [min |-> g.general.min, minMean |-> g.means.min,
          mean |-> g.general.mean, meanOfMeans |-> g.means.mean,
          maxMean |-> g.means.max, max |-> g.general.max,
          count |-> g.general.count]

(***************************************************************************)
(* NodeSuccessRate, whose text is its two counters, and GeneralSuccessRate.*)
(***************************************************************************)
NodeSuccessRate == [hits |-> 0, misses |-> 0]
Hit(r) == [r EXCEPT !.hits = @ + 1]
Miss(r) == [r EXCEPT !.misses = @ + 1]

PushRate(s, r) ==
    IF r.hits + r.misses = 0 THEN s
    ELSE Push(s, <<r.hits, r.hits + r.misses>>)

RateRow(s) ==
    IF s.count = 0
    THEN [min |-> Integer(0), mean |-> Integer(0), max |-> Integer(0)]
    ELSE [min |-> s.min, mean |-> s.mean, max |-> s.max]
=============================================================================
