---------------------------- MODULE MCExperiment ----------------------------
(***************************************************************************)
(* Small workload files, in which two operations stand for the four, three *)
(* controllers on one host that get one of them, and the results of two    *)
(* nodes, where put and get stand for the four operations.                 *)
(***************************************************************************)
EXTENDS Experiment

CONSTANTS c1, c2, c3, n1, n2

MCOperations == {"join", "put"}

\* A profile declared twice, and one that is named and never declared.
Redeclared ==
    <<NodesLine(2), DurationLine(1), ProfileLine("a"), OperationLine("join"),
      OperationLine("put"), ProfileLine("a"), DefaultLine("a"),
      NodeLine(1, "b")>>

\* Counts given twice, and nodes given one by one.
ManyNodes ==
    <<NodesLine(1), NodesLine(2), DurationLine(1),
      ProfileLine("a"), OperationLine("join"), OperationLine("put"),
      DefaultLine("a"), NodeLine(0, "a")>>

\* Two complete profiles for two nodes.
BothUsed ==
    <<DurationLine(1), ProfileLine("a"), OperationLine("join"),
      OperationLine("put"), ProfileLine("b"), OperationLine("join"),
      OperationLine("put"), DefaultLine("b"), NodeLine(0, "a")>>

\* Lines that go wrong.
BadLines ==
    <<NodesLine(0), NodesLine(1), DurationLine(0), DurationLine(1),
      ProfileLine("a"), OperationLine("join"), BadNodeLine, OtherLine>>

\* A file that loads when the command line says how many nodes.
Plain ==
    <<DurationLine(1), ProfileLine("a"), OperationLine("join"),
      OperationLine("put"), DefaultLine("a")>>

\* The same for the results, so that each is looked at for itself.
Measurable ==
    <<DurationLine(1), ProfileLine("b"), OperationLine("join"),
      OperationLine("put"), DefaultLine("b")>>

MCPools == {Redeclared, ManyNodes, BothUsed, BadLines, Plain, Measurable}
MCControllersFollowed == {Plain}
MCResultsFollowed == {Measurable}

MCReportOrder == <<<<"latency", "get">>, <<"latency", "put">>, <<"rate", "get">>>>
MCOutputOrder ==
    <<<<"latency", "put">>, <<"cdf", "put">>, <<"latency", "get">>,
      <<"cdf", "get">>, <<"rate", "get">>, <<"status", "nodes">>>>

\* The second master has fewer: what it may mix up are its rows with those of
\* the first.
MCMaxMeasurements == <<3, 2>>

\* The nodes of the results are interchangeable.
MCSymmetry == Permutations({n1, n2})
=============================================================================
