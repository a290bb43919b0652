---------------------------- MODULE MCEventLoop -----------------------------
(***************************************************************************)
(* Small workloads for EventLoop: every profile type, churn included.      *)
(***************************************************************************)
EXTENDS EventLoop

At(t) == GetTimeFromString(t, t)

\* The third loses its join at time 0, and the one behind it.
MCJoinProfiles ==
    {Now(At(1)), Exact(<<At(1), At(3)>>), Exact(<<At(0), At(2)>>)}
MCLeaveProfiles ==
    {None, WeibullRandom, PoissonRandom(0),
     Exact(<<GetTimeFromString(2, 3), At(3)>>)}
MCPutProfiles ==
    {Interval(2, 1, At(1)),
     FullDictionary(2, <<GetTimeFromString(2, 3)>>)}
MCGetProfiles ==
    {PoissonRandom(0), NTimesRandom(<<1, 2>>, <<1, 2>>)}
=============================================================================
