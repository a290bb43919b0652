------------------------------ MODULE Results -------------------------------
(***************************************************************************)
(* From measurements to result files: the DhtNodes of several controllers  *)
(* measure operations, their reports reach the master's ResultProcessor in *)
(* any interleaving (and, at the workload timeout, only some of them), and *)
(* process() appends to one file after the other. MaxRuns masters run one  *)
(* after the other in the same directory.                                  *)
(***************************************************************************)
EXTENDS Metrics

CONSTANTS
    Nodes,
    Measured,           \* the four of DhtOperation
    Rated,              \* join and get, which have a success rate
    ReportOrder,        \* the order of reportResults
    OutputOrder,        \* the order of process()
    Times, Latencies,   \* values a measurement may have
    FrequencyInterval,
    CdfPoints,          \* the 30 of processLatency
    NaN,                \* what 0/0.0 prints as
    MaxMeasurements,    \* bounds: operations of all nodes, per master
    MaxRuns             \* bound: masters

ASSUME ResultsAssumption ==
    /\ Rated \subseteq Measured
    /\ Range(ReportOrder) = {<<"latency", op>> : op \in Measured}
                            \cup {<<"rate", op>> : op \in Rated}
    /\ Range(OutputOrder) = {<<"latency", op>> : op \in Measured}
                            \cup {<<"cdf", op>> : op \in Measured}
                            \cup {<<"rate", op>> : op \in Rated}
                            \cup {<<"status", "nodes">>}
    /\ OutputOrder \in Seq(Range(OutputOrder)) /\ IsInjective(OutputOrder)
    /\ Times \subseteq Nat /\ Latencies \subseteq Nat
    /\ FrequencyInterval \in Nat \ {0} /\ CdfPoints \in Nat \ {0}

VARIABLES
    latency,    \* per node and operation: its NodeLatency
    rate,       \* per node and operation: its NodeSuccessRate
    made,       \* operations done by all nodes of this master
    reported,   \* per node: reports handled by the master
    general,    \* ResultProcessor: per operation a GeneralLatency
    rates,      \* ResultProcessor: per operation a GeneralSuccessRate
    processed,  \* files written by process()
    printed,    \* what was written to them
    phase,
    run,
    files,      \* per file: headers and rows
    completed   \* masters whose process() returned

nodeVars == <<latency, rate, made>>
masterVars == <<general, rates, reported>>
fileVars == <<files, run, completed>>
resultsVars == <<nodeVars, masterVars, processed, printed, phase, fileVars>>

EmptyFile == [headers |-> 0, rows |-> 0]

\* A master, and the controllers of its experiment, as they start.
Fresh ==
    [latency |-> [n \in Nodes |-> [op \in Measured |-> NodeLatency]],
     rate |-> [n \in Nodes |-> [op \in Rated |-> NodeSuccessRate]],
     none |-> [n \in Nodes |-> 0],
     general |-> [op \in Measured |-> GeneralLatency(FrequencyInterval)],
     rates |-> [op \in Rated |-> Statistics(0)]]

ResultsInit ==
    /\ latency = Fresh.latency /\ rate = Fresh.rate
    /\ made = 0 /\ reported = Fresh.none
    /\ general = Fresh.general /\ rates = Fresh.rates
    /\ processed = 0
    /\ printed = <<>>
    /\ phase = "running"
    /\ run = 1
    /\ files = [f \in Range(OutputOrder) |-> EmptyFile]
    /\ completed = 0

-----------------------------------------------------------------------------
\* The operation of a DhtNode: the measurement's time is taken after it, and
\* may equal the one before it.
ProcessEvent(n, op, time, duration, success) ==
    /\ phase = "running"
    /\ reported[n] = 0
    /\ made < MaxMeasurements[run]
    /\ \A o \in Measured : \A t \in DOMAIN latency[n][o].measurements :
          t <= time
    /\ made' = made + 1
    /\ latency' = [latency EXCEPT ![n][op] =
                      PushWithTime(@, time, duration)]
    /\ IF op \in Rated
       THEN rate' = [rate EXCEPT ![n][op] = IF success THEN Hit(@) ELSE Miss(@)]
       ELSE UNCHANGED rate
    /\ UNCHANGED <<masterVars, processed, printed, phase, fileVars>>

\* pushLatency and pushSuccessRate.
PushLatency(op, entries) ==
    general' = [general EXCEPT ![op] = PushNode(@, LatencyFromString(entries))]
PushSuccessRate(op, r) == rates' = [rates EXCEPT ![op] = PushRate(@, r)]

\* handleReportMessage: pushResult, by the report's type.
PushResult(n) ==
    /\ phase = "running"
    /\ reported[n] < Len(ReportOrder)
    /\ LET report == ReportOrder[reported[n] + 1]
           op == report[2]
       IN  \/ /\ report[1] = "latency"
              /\ PushLatency(op, LatencyToString(latency[n][op]))
              /\ UNCHANGED rates
           \/ /\ report[1] = "rate"
              /\ PushSuccessRate(op, rate[n][op])
              /\ UNCHANGED general
    /\ reported' = [reported EXCEPT ![n] = @ + 1]
    /\ UNCHANGED <<nodeVars, processed, printed, phase, fileVars>>

\* The io_service stopped: everybody finished, or the timer fired.
Stop ==
    /\ phase = "running"
    /\ phase' = "processing"
    /\ UNCHANGED <<nodeVars, masterVars, processed, printed, fileVars>>

\* The points of the cumulative distribution: fractions with the count, which
\* is a double, as denominator.
CdfRow(g) ==
    [i \in 0 .. CdfPoints - 1 |->
        IF LatencyRow(g).count = 0 THEN NaN
        ELSE <<MapThenSumSet(LAMBDA b : Lookup(g.general.frequency, b), 0 .. i),
               LatencyRow(g).count>>]

RowOf(output) ==
    CASE output[1] = "latency" -> LatencyRow(general[output[2]])
      [] output[1] = "cdf" -> CdfRow(general[output[2]])
      [] output[1] = "rate" -> RateRow(rates[output[2]])
      [] output[1] = "status" -> <<>>

\* A row is appended, below a header if the file is new; the mutant always
\* writes the header.
AppendRowWithHeader(file) ==
    [headers |-> file.headers + 1, rows |-> file.rows + 1]
AppendRow(file) ==
    [headers |-> IF file = EmptyFile THEN 1 ELSE file.headers,
     rows |-> file.rows + 1]

(***************************************************************************)
(* process(): the next file is opened and written, or cannot be opened.    *)
(***************************************************************************)
ProcessNext ==
    /\ phase = "processing"
    /\ processed < Len(OutputOrder)
    /\ LET output == OutputOrder[processed + 1]
       IN  /\ files' = [files EXCEPT ![output] = AppendRow(@)]
           /\ printed' = Append(printed, RowOf(output))
    /\ processed' = processed + 1
    /\ UNCHANGED <<nodeVars, masterVars, phase, run, completed>>

OpenFails ==
    /\ phase = "processing"
    /\ processed < Len(OutputOrder)
    /\ phase' = "exit"
    /\ UNCHANGED <<nodeVars, masterVars, processed, printed, fileVars>>

ProcessReturns ==
    /\ phase = "processing"
    /\ processed = Len(OutputOrder)
    /\ phase' = "done"
    /\ completed' = completed + 1
    /\ UNCHANGED <<nodeVars, masterVars, processed, printed, files, run>>

NextRun ==
    /\ phase \in {"done", "exit"}
    /\ run < MaxRuns
    /\ run' = run + 1
    /\ latency' = Fresh.latency /\ rate' = Fresh.rate
    /\ made' = 0 /\ reported' = Fresh.none
    /\ general' = Fresh.general /\ rates' = Fresh.rates
    /\ processed' = 0
    /\ printed' = <<>>
    /\ phase' = "running"
    /\ UNCHANGED <<files, completed>>

AllRunsDone ==
    /\ phase \in {"done", "exit"} /\ run = MaxRuns
    /\ UNCHANGED resultsVars

ResultsNext ==
    \/ \E n \in Nodes, op \in Measured, t \in Times, d \in Latencies,
          success \in BOOLEAN : ProcessEvent(n, op, t, d, success)
    \/ \E n \in Nodes : PushResult(n)
    \/ Stop \/ ProcessNext \/ OpenFails \/ ProcessReturns \/ NextRun \/ AllRunsDone

ResultsSpec == ResultsInit /\ [][ResultsNext]_resultsVars

-----------------------------------------------------------------------------
\* Position of a report in the order they are sent.
Position(report) ==
    CHOOSE k \in DOMAIN ReportOrder : ReportOrder[k] = report

\* The measurements of op that the master was told of, as <<node, time>>.
Told(op) ==
    UNION {{<<n, t>> : t \in DOMAIN latency[n][op].measurements} :
              n \in {m \in Nodes :
                        reported[m] >= Position(<<"latency", op>>)}}
Value(op, m) == latency[m[1]][op].measurements[m[2]]
Sum(op, S) == MapThenSumSet(LAMBDA m : Value(op, m), S)

(***************************************************************************)
(* What ResultProcessor keeps of an operation, updated report by report in *)
(* whatever order they arrive, is the statistics of all the measurements   *)
(* it was told of: count, extremes, mean (a running one in the code) and   *)
(* frequencies, each report in the statistics of its own operation.        *)
(***************************************************************************)
GeneralIsExact ==
    \A op \in Measured :
        LET g == general[op].general
            S == Told(op)
            values == {Value(op, m) : m \in S}
        IN  /\ g.count = Cardinality(S)
            /\ g.mean[1] * Cardinality(S) = Sum(op, S) * g.mean[2]
            /\ S # {} => /\ g.max = Integer(Max(values))
                         /\ g.min = Integer(Min(values))
            /\ \A b \in {v \div FrequencyInterval : v \in Latencies} :
                  Lookup(g.frequency, b) = Cardinality(
                      {m \in S : Value(op, m) \div FrequencyInterval = b})

(***************************************************************************)
(* The columns of every latency row printed are in order, min <= min mean  *)
(* <= mean <= max mean <= max with the mean of means between the extreme   *)
(* means, and no column is an uninitialized max_ or min_.                  *)
(***************************************************************************)
RowsOrdered ==
    \A k \in DOMAIN printed :
        OutputOrder[k][1] = "latency" =>
            LET row == printed[k]
            IN  /\ Uninitialized \notin {row.min, row.max, row.minMean,
                                         row.maxMean}
                /\ Leq(row.min, row.minMean) /\ Leq(row.minMean, row.mean)
                /\ Leq(row.mean, row.maxMean) /\ Leq(row.maxMean, row.max)
                /\ Leq(row.minMean, row.meanOfMeans)
                /\ Leq(row.meanOfMeans, row.maxMean)

(***************************************************************************)
(* A printed distribution is one whenever there is something to distribute:*)
(* it never decreases, and its last point is 1 exactly when no latency is  *)
(* beyond the 30 intervals ("Maximum values for the plot" in the           *)
(* constructor). The points are nan, all of them, exactly for an operation *)
(* of which the master was told no measurement.                            *)
(***************************************************************************)
CdfIsDistribution ==
    \A k \in DOMAIN printed :
        OutputOrder[k][1] = "cdf" =>
            LET cdf == printed[k]
                op == OutputOrder[k][2]
                last == cdf[CdfPoints - 1]
            IN  \/ Told(op) = {} /\ Range(cdf) = {NaN}
                \/ /\ Told(op) # {} /\ NaN \notin Range(cdf)
                   /\ \A i \in 1 .. CdfPoints - 1 : cdf[i - 1][1] <= cdf[i][1]
                   /\ last[1] = last[2] <=>
                         \A m \in Told(op) :
                             Value(op, m) < CdfPoints * FrequencyInterval

(***************************************************************************)
(* Whatever files could not be opened in earlier runs, a file has one      *)
(* header when it has rows, files written earlier by process() never have  *)
(* fewer rows, and nodes-status.csv has a row for each complete run.       *)
(***************************************************************************)
FilesInStep ==
    /\ \A f \in DOMAIN files :
          files[f].headers = IF files[f].rows = 0 THEN 0 ELSE 1
    /\ \A j, k \in DOMAIN OutputOrder :
          j < k => files[OutputOrder[j]].rows >= files[OutputOrder[k]].rows
    /\ phase # "processing" =>
          files[OutputOrder[Len(OutputOrder)]].rows = completed

(***************************************************************************)
(* The numbers in the rows that process() appends make sense together,     *)
(* whatever nodes sent no report and whatever latencies are beyond the     *)
(* plot. An operation without measurements leaves the row of latencies at  *)
(* 0 and makes the distribution nan.                                       *)
(***************************************************************************)
PrintedInvariant == RowsOrdered /\ CdfIsDistribution
=============================================================================
