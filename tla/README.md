# dhtperf: a TLA+ model

dhtperf measures distributed hash tables. One `dhtperf-master` reads a workload
file, waits for as many `dhtperf-controller` processes as the workload has
nodes, hands each its DHT type and its profile, starts them all, collects their
measurements over TCP and appends the statistics to CSV files. Each controller
drives one node of a DHT, which is a library or a child process behind a pipe.

This directory models the experiment from the workload file to the result files,
the programs behind the DHT wrappers, and the service that starts and stops
controllers on its hosts. Paths below are relative to `src/src/`. `PROJECT.json` maps every definition to
the lines it models.

## 1. Inventory

| component | state | operations | interacts with |
|---|---|---|---|
| **protocol** (`protocol.*`) | none | five messages: DhtType, Profile, Start (to the controller), Report, Finish (to the master) | both ends |
| **dhtperf-master** (`master/DhtperfMaster.cpp`, `ControllerConnection.cpp`) | accepted controllers, port counts per host, finished and failed counters, workload timer, pending reads and writes | io_service handlers: accept, header and body read, write done, timer; the loop of `sendStartMessages`; publication | controllers (TCP), `MasterWorkload`, `ResultProcessor` |
| **dhtperf-controller** (`controller/DhtperfController.cpp`) | where the main thread is, entry point and port offset, timer; a timeout thread | connect, three blocking reads, `start()`, six reports, Finish, cleanup, forced exit | master (TCP), `DhtNode`, profiles |
| **profiles and event queues** (`events.h`, `controller/profiles/`) | one queue per operation, time of the last event | constructors, `scheduleNextEvent`, `popEvents` | the loop of `start()` |
| **DhtNode** (`controller/DhtNode.cpp`) | `connected_`, four latencies, two success rates | join with retries, leave, put, get | wrappers, metrics |
| **workload file** (`master/MasterWorkload*.cpp`) | node count, duration, profiles, profile of each node, the profile under construction | one per kind of line, checks at the end | master |
| **metrics** (`metrics/`) | counts, extremes, running means, frequencies, measurements by microsecond | `push`, `push_with_time`, `hit`, `miss`, `toString` and back | DhtNode, ResultProcessor |
| **ResultProcessor** (`master/ResultProcessor.cpp`) | statistics per operation, result files | `pushResult`, `process` | metrics, file system |
| **DHT wrappers, RWPopen** (`controller/dhtnodes/`) | child process, two pipes, process group, working directory | start, command and prompt, kill and reap | DhtNode, consoles |
| **id server of kaddemo** (`controller/dhtnodes/KaddemoIdWrapper.cpp`) | the id, a stop flag, a thread | serve the id of node zero, ask for it | `KaddemoWrapper` of all nodes (TCP) |
| **PastConsole** (`../pastconsole/PastConsole.java`) | a pending request and its `done` flag | prompt, put, get, exit | `PastConsoleWrapper` (pipes), FreePastry |
| **dictionary, directories** (`controller/Utils.cpp`) | fixed words; directories of the machine | random word, `mkdir_p` | profiles, `Wrapper` |
| **dhtperfd, dhtperfd-client** (`service/`) | one connection at a time; a timeout thread in the client | ping, start, stop, update, version | shell, controllers |

What is hard to test here: controllers that die, hang, vanish without a FIN or
come too late at any point of the protocol; two timers (the master's and each
controller's) that start at different moments; a reset connection whose address
is still asked for; a Finish followed by the EOF of the same connection; events
that pile up behind a slow DHT operation; seconds that are rounded down before
they are subtracted from an unsigned duration; reports of a node that fails half
way; workload files whose lines come in an unusual order; result files that
cannot be opened; messages that are cut anywhere on their way, and a buffer that
is reused while it is being written; two threads that delete the same child
process; programs that crash, hang, or ignore a signal; a console that prints
from two threads; clients that give up on a service that serves one at a time. `PROJECT.json` lists these under `hazards`, each at its line.

What makes the components correct: every node gets exactly one verdict and the
published numbers are those of the verdicts; a node counts as finished only with
all its reports; nobody starts before everybody is accepted; nodes of a host
have different ports; the experiment ends whatever the DHTs do; joins and leaves
alternate and every operation is measured once; the loop does not sleep over an
event; a node gets the profile its file gives it; the statistics are those of
the measurements reported; a connection is a queue of whole messages; a node has
one program at a time, which is stopped and reaped on every path; the result of a
get is the answer to that get; descriptors do not leak; an acknowledged start
launched one controller unless `system()` failed, and an acknowledged stop leaves
nothing running but what its `pkill` commands could not match.

## 2. Modules

    Protocol <- Network <- DhtperfMaster \
                        <- DhtperfController > DhtperfSession <- DhtperfSessionProofs
    NodesStatus (abstract) ----------------/ (INSTANCE)        <- MCSession
    MessageFifo (abstract) -- (INSTANCE)
    ByteStream <- StartStream  \
               <- ReportStream > Connection <- MCConnection      (INSTANCE)
                                            <- ConnectionProofs
    Profiles <- EventLoop <- MCEventLoop, EventLoopProofs
    Maps <- Workload           <- MasterFilesProofs
    Maps <- Metrics <- Results <-/
    Console, KaddemoId         > NodeZero <- NodeZeroProofs
    WorkDir, Dictionary, Popen > Launch   <- LaunchProofs
    Workload, Launch, Results  > Experiment <- MCExperiment
    WrappedNode <- WrappedNodeProofs
    Service     <- ServiceProofs

**Protocol** has the messages, as records of the fields an end acts upon. Port
offsets keep their 16 bits.

**Network** is TCP as the two programs see it (external: kernel, Boost.Asio):
the acceptor's queue, and per connection `open`, `fin`, `reset` or `closed`. A
process that dies with unread data, or that is sent data after its death, resets
the connection; `remote_endpoint()` of a reset socket throws. Each `toController`
and `toMaster` queue is a FIFO of whole messages.

**DhtperfMaster** has one action per handler. `phase` is where `run()` is:
accepting, starting (the loop of `sendStartMessages`, one iteration per step),
startSent, running, stopped (io_service stopped), reported or aborted. `reading`
says what became of the pending read of each controller. `fatal` says which of
the exits ended the process: `accept`, `write` (`handleWrite`), `remote_endpoint`
(uncaught exception), `opcode`, `results` (a file cannot be opened).

**DhtperfController** has one action per blocking call of the main thread, and
one for the timeout thread. It also has the ports that each wrapper makes of an
offset, in 16 bits. `Die` stands for `exit(1)` in a wrapper or profile,
an uncaught exception or a signal, `Vanish` for a host that is gone.

**DhtperfSession** composes them with one clock and states the properties of the
experiment. **NodesStatus** is what the result of that name promises: verdicts
are given once and never taken back, and what is published are their numbers.

**Profiles** and **EventLoop** are `start()` in detail: each profile type, the
loop, the order of a batch, joins with retries and the metrics. A queue is a bag
of times. The clock has several ticks per second, because the code reads it
through `total_seconds()`.

**Workload** reads a file line by line and compares the outcome with what the
file says, computed from its lines alone (`NodesSaid`, `TextsOf`,
`AssignmentOf`). **Maps** is what it and `Metrics` use of `std::map`.

**Metrics** and **Results** go from measurements to result files. Means are
exact fractions; `max_` and `min_` of an empty `Statistics` are the model value
`Uninitialized`, so that a column printed from them is visible.

**ByteStream** is one direction of a connection below the messages. A cell is a
field of a message; a message is a header of two cells and a body; the kernels
hold `SendBuffer` cells, take as much of a block as they have room for and
deliver one cell at a time. **ReportStream** puts the blocking writes of
`reportResults` and `sendFinishMessage` on it, and the asynchronous reads of
`ControllerConnection`; **StartStream** the asynchronous writes of `sendMessage`
out of the one `writeBuffer_`, and the blocking reads of `getNextMessage`. What
the pending write of an overwritten buffer sends is a choice between the old
cells, those of the new block and garbage. **MessageFifo** says what both ends
expect and what `Network` assumes: whole messages, in order, until the receiver
gives up. Both streams are shown to implement it, `StartStream` as far as the
send buffer has room; a last body that the end of the master cut short counts as
the end of the channel and not as a message. **Connection** puts the two directions on one socket: the
controller reports only after it has started, the master reads only after it has
sent Start, and the end of either process ends both directions.

**WrappedNode** is the controller's main thread and its timeout thread around one
`RWPopen` at a time: every program started is an element of `children` with its
state (running, zombie, reaped), and `wrapped`, `fds`, `dhtNode` and `mutex` are
the shared variables. The destructor is four steps (close, kill, wait, reset),
which the two threads interleave: `cleanupMutex_` orders the two calls of
`cleanup()`, and not `stopWrapped()` of a leave against them. A shell may stand
between the controller and the program (`inner`), in the wrapper that uses the
`const char *` constructor.

**Popen** is the same object from the side of the kernel: the descriptor tables
of parent and child, one system call per step from `pipe` to `close`.

**Console** is what is said through the pipes: `stdin` and `stdout` are queues of
commands and lines, the wrapper reads until its prompt, and PastConsole answers
from a second thread that prints and then sets `done`. That field is not
volatile, so whether the polling thread ever sees it is a choice (`SeesDone`). The consoles of the other
DHTs are external and modelled as the wrappers expect them.

**KaddemoId** is the id server in its thread, node zero that joins and leaves,
and the nodes that ask for the id. **NodeZero** composes it with `Console`: the
server is started by the line that the wrapper reads in its join and stopped
after the line that it writes in its leave, and it ends with the process.

**WorkDir** is the constructor of `Wrapper` in several controllers of a machine,
down to the single calls of `mkdir_p`. **Dictionary** is which words a node may
use. **Launch** composes both with `Popen` in the order of
`DhtperfController::run()`: directory, profile, programs.

**Experiment** is what comes before and after a session: the master loads its
file (`Workload`) before it listens for anybody; only then is there a controller
that gets a DHT type and a profile (`Launch`), or a master with results to process
(`Results`).

**Service** is `dhtperfd` with its clients. `arrivals` is the order of the
connections, `step` where `handle_client` is, `processes` what runs on the host;
the shell that `system()` leaves in the background becomes the controller in a
step of its own. `pkill` (external: procps and the kernel) compares its pattern
with the 15 characters that the kernel keeps of a program's name (`Comm`).
`unlaunched` has the clients whose start `system()` failed, and `missed` says of
each program that a `pkill` should have ended and did not why: it was still a
shell, its name does not match, or `system()` failed.

## 3. Runs

| run | instance | checks |
|---|---|---|
| `session_safety` | 3 controllers (2 on one host), 2 nodes, 2 report types | `TypeOK`, `PhaseInvariant`; `EveryControllerCountedOnce`; `FinishedMeansReported`; `StartBarrier`; `PortsDistinct`; `EntryPointIsNodeZero`; `TimedOutNeverFailed`; the master implements `NodesStatus` |
| `session_liveness` | 2 controllers, 2 nodes | `MasterMovesOn`, `ControllersEnd`: every process ends, whatever the DHTs do |
| `session_disconnection` | 2 controllers, 2 nodes | *violated*: `DisconnectionIsOkay` |
| `connection` | 3 messages over 8 cells, 3 reports and Finish over 4 cells, either process may die | `ConnectionIsFifo`: both directions implement `MessageFifo`; `StartsOrExits`; `ConnectionConcluded` |
| `profile_overlap` | as `connection`, 5 cells to the controller | *violated*: `ProfileSizesAddUp` |
| `eventloop` | duration 4 s, 2 ticks a second, 48 combinations of profiles | `NodeInvariant`: metrics agree with what was done; `BatchInvariant`: no put or get while disconnected, `exit(1)` only with exact churn or leaves that begin at time 0; `NeverOversleeps`: no event but one at time 0 is left behind while the loop sleeps; `OnlyOperationsBlock` |
| `eventloop_early` | as `eventloop` | *violated*: `ReturnsAfterDuration` |
| `experiment` | 6 pools of up to 9 lines, node count given or not; 3 controllers, 6 kinds of entries; sizes 0 to 4 of 3 words; 3 programs, 9 descriptors; 2 nodes, 2 operations, 3 measurements, 2 masters in a row | `VerdictInvariant`: a file is loaded only if it says everything; `NodesGetWhatTheFileSays`; `PlaceInvariant`: the race lets one controller through; `ReadsInsideDictionary`; `DescriptorInvariant`: no descriptor leaks, both sides see the end of the other; `GeneralIsExact`; `PrintedInvariant`: rows in order, the CDF is one if there are measurements and `nan` if not; `FilesInStep` |
| `service` | 2 clients, all commands, one client may vanish | `AckInvariant`: an acknowledged start launched one controller, or `system()` failed; `NothingElseSurvivesStop`: an acknowledged stop leaves only what its `pkill` missed; `StopCoversEarlierStarts`; `EveryClientEnds`; `ServiceComesBack` |
| `service_stop` | 2 clients, start and stop, `system()` never fails | *violated*: `AckedStopStopped` |
| `wrapped_node` | 3 programs, 4 wrappers | `NobodySpins`; `ProgramInvariant`: one program at a time, nothing survives; `ProcessEnds` |
| `node_zero` | 4 consoles; 2 stays, 2 other nodes for kaddemo | `DialogueInvariant`: pipes in step between operations; `GetTellsTheTruth`; `OperationsReturn`; `AnswersCurrentId`; `LeaveReturns`; `ConnectedGetsId` |

The invariants that end in `Invariant` are conjunctions of the module's type
invariant or of properties that belong together; each part is a definition with
its own comment. Each property has a mutant of the model in `PROJECT.json` that
violates it.

**Bounds.** Two nodes out of three controllers, two of them on one host, is the
least instance in which a controller is too late, two nodes share a host, a node
is not the entry point, and one node can finish, fail or hang while the other is
in any other state. Two report types stand for six (the order and the number of
reports is all the master sees of them). The durations are a few ticks: only
their order matters, `Duration + ReportAndFinishTimeout` of the master against
`Grace` more in the controller. `EndOfTime` and `Horizon` of the event loop lie
after the end of the workload, where all times are alike to `start()`. A random
number is 0 or 2: 0 is what the two generators round small numbers to, and as it
lets a node operate for ever in one tick, `MaxOperations` (4) bounds the
operations of the data queues.
`FrequencyInterval` 2 and `CdfPoints` 2 make latency 5 fall beyond the last
interval, like one beyond 30 intervals in the code. `MaxMeasurements` bounds the
operations of all nodes of a master: three are two of one node and one of the
other, so that a mean of all differs from a mean of the nodes' means. The second
master has two, as it is there for the files of the first. The buffer to the master is smaller than a
report, so that both ends stop in the middle of a message; that to the controller
has room for DhtType and Profile in `connection` and not in `profile_overlap`.
Two clients are enough for each pair of commands in either order, with one that
gives up before, while or after it is served; `service_stop` leaves out what else
could be the reason that a controller survives: no `system()` fails and nobody
vanishes. In `experiment` the controllers and the results are looked at after one file each
(`ControllersFollowed`, `ResultsFollowed`), with its lines in order, as neither
depends on the others nor on the other. Two stays of node zero are the
first with a server and the one that finds `threadStop_` set; three launches are
one, one after a leave and one more to see that nothing accumulates, with nine
descriptors for the four that are open and the four of two pipes. Three programs
are a join, its retry and a rejoin. The dictionary has three words, which leaves
a size on each side of each check.

**Fairness.** Weak fairness of the master's thread (without the failures of
accept and of opening a file), of every live controller's threads, and of the
clock. Nothing is assumed of the operations of a DHT ("DhtNode operations might
never end"), of when a controller is launched, or that a fault happens:
`WorkloadDone`, `Connect`, `Die`, `Vanish` and the arrival of an RST carry no
fairness. In `EventLoop`, the steps of the loop and the clock are fair, those of
the operations are not. In `Connection`, both programs and the network go on, and
nobody has to die. In `Service`, the service, each client's two threads and the
clock are fair; a client that connects and says nothing, or vanishes, owes
nothing, which is why `ServiceComesBack` is about behaviours in which none
vanishes. In `WrappedNode` the threads are fair up to the lines a DHT may never
say, and a program need not obey a signal; strong fairness of `ReportResults`
stands for the end of the workload, which `EventLoop` shows to come unless an
operation blocks. In `NodeZero` the DHT answers in the end: that is the premise
of `OperationsReturn`, and a DHT that does not is the timeout thread's business.
PastConsole's seeing `done` carries no fairness, because Java promises none; the
other consoles are external and taken to see their answers;
the loop of `run()` polls for ever and so sees every accept and the flag.

**Deadlock** is checked in every run; the only states without a further step are
the ended ones, whose stuttering step is explicit.

## 4. Where the code does not do what it says

Four runs are violated:

* `session_disconnection`: `handleHeaderRead` and `sendStartMessages` ask a
  socket for its remote endpoint; after a reset that throws, and the master ends
  without results. `DhtperfMaster.cpp:218` says of a controller that
  disconnects: it's "okay".
* `profile_overlap`: `sendMessage` assigns to `writeBuffer_` under a pending write
  (`ControllerConnection.cpp:122`). It takes a Profile that the socket does not
  take at once; the controller then fails the assertion at `protocol.cpp:134`.
  `connection` shows that otherwise all is well.
* `eventloop_early`: "Don't return from this function before "duration" has
  passed", says `DhtperfController.cpp:162`. `DHTPERF_CHECK_DONE` (`:184`) drops
  the fraction of the remaining seconds, and `start()` returns up to a second too
  early.
* `service_stop`: `pkill dhtperf-controller` (`dhtperfd.cpp:72`) has no `-f`, and
  the kernel knows the process as `dhtperf-control`. The pattern matches nothing,
  and the controllers of earlier starts run on after the ack, before which
  `dhtperfd.cpp:88` says that the service has "done what ne needed to do" (sic).
  `NothingElseSurvivesStop` excepts them; it shows that no console is left alone.

The passing properties are stated around what the models also reach:

* A node cut off by the workload timer between two reports is published as
  unfinished while its first reports are in the statistics
  (`DhtperfMaster.cpp:281`: it "didn't report any results"). `GeneralIsExact` is
  about what was reported, not about who finished.
* `push_with_time` keys measurements by the microsecond: the second of two in one
  microsecond replaces the first. `GeneralIsExact` compares with the measurements
  so kept, and so does not show that one is lost.
* An operation without measurements has a CDF of 30 times `nan`, as
  `ResultProcessor.cpp:209-219` divides by a count of 0. `CdfIsDistribution` says
  that this happens exactly then.
* `do_system` logs a failure and `handle_client` acknowledges all the same
  (`dhtperfd.cpp:36-42`, `:66`, `:89`): a start that launched nothing is
  acknowledged like any other. `AckedStartLaunchedOnce` excepts `unlaunched`.
* `done` is a plain field that `PastConsole` polls between calls of `Thread.sleep`
  (`PastConsole.java:75`, `:95-101`, `:108`, `:125-131`): a compiler may read it
  once and loop for ever (Java Language Specification, 17.3). `OperationsReturn`
  excepts a loop that never sees it. That the answer is printed before `done` is
  seen holds in the model because of the lock that printing takes.
* `getNextEventTime` says 0 for an empty queue and for an event at time 0
  (`events.h:104`): a first join at 0 is never made, nor is any behind it.
  `NeverOversleeps` excepts such queues. The generators of `now`
  and `poissonrandom` take such an event for an empty queue and push a second one
  (`Now.h:62`, `PoissonRandom.h:87`); of two leaves in one batch, the second
  finds the node disconnected and calls `exit(1)` (`DhtNode.cpp:109`).
  `BatchInvariant` excepts leaves that may begin at time 0.
* `getNextMessage` ignores the error of the body's read
  (`DhtperfController.cpp:152`) and takes zeros for the rest. `ConnectionIsFifo`
  shows that this is the last message, of a master that is gone, and
  `StartsOrExits` that the controller ends.
* The shell of a start may not have become `dhtperf-controller` yet when the
  `pkill` of the next client's stop runs (`dhtperfd.cpp:72`), and `system()` may
  fail: `NothingElseSurvivesStop` excepts what was `missed` in this way, and
  `AckedStopStopped` too, so that it is violated by the name alone.
* The client waits 20 seconds where its comment says five
  (`dhtperfd-client.cpp:42` and `:44`).
* The destructor of `RWPopen` waits without limit for a program that survives
  SIGTERM (`RWPopen.cpp:146`): `ProcessEnds` excepts it.
* `kill(SIGTERM, 0)` has its arguments swapped (`Wrapper.cpp:77`); what a shell
  of `KaddemoWrapper` ran as its child (`inner`) may be left running.
  `ProgramInvariant` is about the processes that the controller forked itself.
* `threadStop_` is never reset (`KaddemoWrapper.cpp:74`): the id server of a
  second stay stops at once. `ConnectedGetsId` is about nodes that found a
  server of the first stay, and no property says that there is a second.
* The child duplicates a descriptor that it closed four lines before
  (`RWPopen.cpp:112` and `:116`): standard error stays what it was.
  `DescriptorInvariant` is about the other two streams.
* A uniform distribution has both its ends, so that a set of `size` words has
  `size + 1` (`Utils.cpp:186`). `ReadsInsideDictionary` shows that no word past
  the dictionary is read.
* Between `stat` and `mkdir` another controller makes the directory
  (`Utils.cpp:286`), which is the same for all because `selfPort_` is still 0 when
  the base class is constructed; the later one exits. `PlaceInvariant` shows that
  one gets through, and accepts that the other does not.

## 5. Proofs

TLAPS proves the following for every value of the constants that satisfies the
named assumptions of the modules. Each invariant was checked by TLC on the
instance of the run before it was proved.

**DhtperfSessionProofs**, for every number of hosts, controllers and nodes, every
assignment of controllers to hosts, every list of report types and all timeouts:
`Nodes` positive, at most 2^16 (port offsets) and at most the number of
controllers, the set of controllers finite, timeouts natural numbers,
`StartSlack < Grace`.

* **TypeCorrect** (`Spec => []TypeOK`) and
  **PhaseCorrect** (`Spec => []PhaseInvariant`). `TypeOK` alone is not inductive:
  `finishedControllers \in 0 .. Nodes` survives `controllerFinished` only because
  collecting goes on while fewer than `Nodes` are counted, and the loop variable
  and the port counts stay in range only because of the number of controllers
  accepted in each phase. `PhaseInvariant` states this, and `TypeInvariant`, the
  conjunction, is inductive.
* **CountedOnce** (`Spec => []EveryControllerCountedOnce`). `CountInvariant`
  strengthens it with what separates a controller from a second count: a verdict is given only to a
  controller whose read is pending, reads are pending only for controllers that
  were sent a Start, and those were accepted.
  **SessionImplementsNodesStatus** (`Spec => ImplementsNodesStatus`): the initial
  states map to initial states, and under `TypeInvariant /\ CountInvariant` a
  Finish or an EOF is a `Decide`, the publication is a `Publish`, each fatal exit
  is a `GiveUp`, and every other step stutters. The counters of the code become
  cardinalities of disjoint sets of verdicts. `NodesStatus` takes the operator
  `Count` as a parameter, instantiated with `Cardinality`.
* **StartIsBarrier** and **EntryPointRight** rest on
  `StartInvariant`: every Start that was sent, read or not, has the right entry
  point and an offset of its own on its host, and `nodesPerHost` is ahead of all
  the offsets that the loop of `sendStartMessages` has handed out there.
  **PortsNeverShared** follows from the same invariant and an arithmetic lemma:
  the ports that a wrapper makes of different offsets are different as long as 16
  bits wrap around at most once. Kaddemo takes two ports per node, so the theorem
  assumes `Nodes <= 32768`. **FinishedReported** needs `DeliveryInvariant`: what the
  master has stored followed by what is on its way is what the controller has
  sent, in order. **TimedOutIsUnfinished** needs `ClockInvariant`, which relates
  the two timers: a controller's is armed at most `StartSlack` before the
  master's and has `Grace` more.

**ConnectionProofs**, for any reports and sizes of bodies, any room in the
kernels, blocks cut anywhere into writes and reads, and the end of either process
at any time. A script has offsets (`Offsets`: how many cells come before each
message), and both proofs say with them which cells are on their way (`Carries`):
those that one end has written and the other has not read, in order.

* **ReportsAreFifo**: the direction to the master implements `MessageFifo`.
  `ReportInvariant` says that the master has handled the first messages whole and
  where, in the header or in the body, it stands in the next. Every step of the
  connection maps to a step of the channel or stutters, including those of the
  other direction and the ends of the processes.
* **ConnectionCorrect**: `ConnectionIsFifo` of the run, which is this and the
  same of the direction to the controller, provided that the kernels have room
  for DhtType and Profile (`Size(1) + Size(2) <= StartBuffer`). That is the
  hypothesis under which `sendMessage` may assign to `writeBuffer_`: `connection`
  satisfies it exactly, so that Start may have to wait, and `profile_overlap`
  shows what happens without it. `BufferInvariant` says that
  under it every block but the last has left the buffer, and `GetInvariant` that
  `getNextMessage` takes a part of a body for a whole one only when the channel is
  empty for good.

That every script has offsets is proved with a least counterexample, which does
for an induction over the number of messages.

**EventLoopProofs**, for any profiles a workload file may give, any duration,
any fineness of the clock, and operations of any length. `LoopInvariant` is
inductive and implies the three invariants of the run. **MetricsAddUp**
(`NodeInvariant`), **BatchesRight** (`BatchInvariant`): a generator keeps one
event waiting (`JoinsGenerated`, `LeavesGenerated`), which the constructor starts
and which `scheduleNextEvent` keeps only if its event is not at time 0.
`ClockInvariant`, that nobody is connected at time 0, is needed because a
generator of leaves that is asked at time 0 could push an event at time 0.
**SleepsEndInTime** (`NeverOversleeps`) is arithmetic over `%` and `\div`. That a
non-empty queue has a first event is the least-number principle, in its form for
sets.

**MasterFilesProofs**, on the files the master reads and writes.

* **VerdictCorrect** and **TextsCorrect** (`VerdictInvariant` and
  `NodesGetWhatTheFileSays`), for any pool of lines in any order, any number of
  lines, nodes and profiles, and any node count of the command line.
  `PoolsAssumption` says what lines are: the kinds of `Line`, with the fields that
  their regular expressions capture. What the file says is defined from the
  outside, by first and last lines of a kind, while the parser keeps only maps and
  a current profile; `FileInvariant` ties the two after every line. A node follows
  the last line about it, where a `default-profile` line is about the nodes there
  were at that line (`NodeFollows`), and a name has the texts below its last
  declaration (`TextsFollow`).
* **FilesCorrect** (`FilesInStep`), for any number of masters one after the
  other, any reports and any file that cannot be opened. The property itself is
  not inductive: while `process()` runs, the files it has been through are a row
  ahead, and must be strictly ahead of those to come, or the next append would
  break the order (`RowsInOrder`); if a file cannot be opened they stay ahead for
  good, which is why the property is `>=`. `ResultsAssumption` says that
  `process()` comes to each file once.

**ServiceProofs**, for any number of clients, whichever of them vanish.
`ServiceInvariant` says that clients are served in the order of their connections
and once (`QueueInvariant`), that a controller is launched while its client is
served and not after a `system()` that failed (`LaunchInvariant`), what each
`pkill` has left of the programs it was meant for, with the excuse of that very
stop (`PkillInvariant`), and what an ack, read or not, stands for
(`AnswerInvariant`). **AckMeansLaunched** (`AckInvariant`), **StopEndsOrphans**
(`NothingElseSurvivesStop`) and **NoLateLaunch** (`StopCoversEarlierStarts`)
follow: the second means that the consoles of a controller that is gone are gone
too, although `pkill java` runs last.

**WrappedNodeProofs**, for any number of programs started one after the other.
The invariant shows that `close()` acts as a lock: the pipes are open from a fork
to the first `close()`, so a thread that is past it is alone in the destructor,
and the main thread does not fork before it has been past it itself
(`CloseInvariant`). Hence **NeitherSpins** and **ProgramsReaped**.

**LaunchProofs**, for any number of controllers, any dictionary and any number of
programs. **OneEnters** from `DirInvariant`, **WordsInside** from what the
constructors of the profiles check (`WordInvariant`), and **DescriptorsKept**
from the complete tables of parent and child at each of their steps: pipes always
get descriptors 4 to 7, because nothing is left open from one program to the
next. It assumes eight descriptors (`MaxFd >= 7`): with fewer, `pipe()` fails and
the controller exits.

**NodeZeroProofs**, for all DHTs, any other nodes and any number of stays.
**DialogueInStep** from `TurnInvariant` (a command is the only thing in the
pipes, and the prompt is the last line of a turn), **GetIsTrue** from
`GetInvariant` (the answer of the DHT is pending, or is what the wrapper knows or
has still to read), **IdIsCurrent** from `ServerInvariant` (a server that listens
has the id of the present stay). The last two are properties of every step.

Only model-checked:

* What is under fairness, which is beyond the prover: `MasterMovesOn`,
  `ControllersEnd`, `StartsOrExits`, `ConnectionConcluded`, `OnlyOperationsBlock`,
  `ProcessEnds`, `EveryClientEnds`, `ServiceComesBack`, `OperationsReturn`,
  `LeaveReturns` and `ConnectedGetsId`.
* `GeneralIsExact` and `PrintedInvariant` of `Results`: means and frequencies are
  defined by folds over measurements, in the code as in the model, and what a fold
  computes for every input is an induction over data, which the provers here
  cannot instantiate.

## 6. Abstractions

* In the session a message is sent and received as a whole, and `async_write`
  completes at once or finds the connection reset. `connection` shows this of the
  byte streams and `ConnectionCorrect` of all of them with room; it fails where `profile_overlap` says.
* A timer that is due is served before the clock moves again, and sending all
  Start messages takes at most `StartSlack`, less than the 10 seconds of `Grace`.
  This is what `TimedOutNeverFailed` rests on.
* In the session `cleanup()` is one step (it is not in `WrappedNode`), and the
  turn of the loop in `start()` sees one value of the clock. The wall clock is
  not set back.
* Poisson and Weibull numbers are members of `Samples`, any natural numbers, 0
  included; a number beyond `Horizon` is like one at `Horizon`.
* The words of puts and gets are in `Dictionary` only. Values, texts of profiles,
  and the layout of files are left out.
* The timeout of a client and the clock of `Service`: a timeout that is due is
  served before the clock moves. `update` runs in the background and changes
  nothing the model has. `pkill` is that of procps on Linux, the system of the
  packages and of `yum`.
* A use of the node after the other thread has deleted it either crashes or goes
  on with the old content of the memory.
* `WrappedNode`, `NodeZero` and `Launch` are three views of the same wrapper and
  are not composed: the first has no lines, the second no signals, the third
  neither.

Not modelled:

* `GenericRubyWrapper`: dead code, `DhtNode.cpp:25` says "not in use anymore".
* Host name resolution (`Utils::getHostIp`) and option parsing: one library call
  whose failure exits.
* `DummyDht` has no state; its ports are in `PortOffsetToPort`.
* Scripts, plots, packaging and documents.
* That a child inherits the controller's socket to the master, so that its FIN
  waits for the child too, and that `stopWrapped` ignores SIGTERM for a moment:
  both need a composition of the wrapper with the session or the service.

## 7. Plan

Done: session, event loop, workload file, results; streams, wrappers, console,
id server, descriptors, directories, dictionary, service; the theorems above, which
state every safety property of the runs but two. Left:

1. The part of `GeneralIsExact` that needs no fold: that each report is pushed
   once, to its own operation, in whatever order reports arrive; then the folds,
   if a prover for induction over data is at hand.
2. A composition of the wrapper with the session or the service, for the socket
   that a child inherits and the SIGTERM that `stopWrapped` ignores.
