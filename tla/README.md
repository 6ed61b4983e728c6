# QtProcessManager in TLA+

QtProcessManager starts, stops and watches processes for a Qt program: in the
program itself (`QUnixProcessBackend`), ahead of time
(`QPrelaunchProcessBackend`), or in another process that the program reaches
through pipes or sockets (`QRemoteProcessBackend` and the launchers). This
directory holds TLA+ models of its core, TLC runs over small instances of
them, and TLAPS proofs. Paths below are relative to `src/src/processmanager/`.

    tlc -workers 2 -config UnixBackend.cfg UnixBackend     # one run
    tlapm UnixBackendProofs.tla                            # the proofs, likewise in
                                                           # the other modules *Proofs

## 1. The system

| component | state | operations | correct when |
|---|---|---|---|
| `QProcessFrontend` | its backend, its info | start, stop, write, setPriority; relays signals | a client sees one life cycle per process, and `state()` agrees with the signals |
| `QStandardProcessBackend`, `QUnixProcessBackend` | `m_process` (a `QProcess`), `m_killTimer`, the info | the same, and the slots on the QProcess | no signal to a process that is not ours, a stopped process dies, no child is left behind |
| `QPrelaunchProcessBackendFactory` and backend | `m_prelaunch`, `m_info`, enabled, restricted; per backend `m_started` and a queue of signals | create, setProcessInfo, setPrelaunchEnabled, setMemoryRestricted, idleCpuAvailable, slots on the backend | one spare process at most, the right one, none under memory restriction; a client cannot tell that the process ran before it asked |
| `QProcessBackendManager` and the factories' presented state | factories, idle request, delegate, restriction, internal processes | addFactory, setMemoryRestricted, setIdleDelegate, idleCpuAvailable | delegate asked exactly while a factory wants time; restriction and process list agree with the factories |
| idle delegates | `m_enabled`, `m_requested`, timer, load sample | requestIdleCpu, setEnabled, setIdleInterval, timeout | timer active exactly while enabled and requested |
| `qForkLauncher` | `ParentProcess`: children by id, buffers; `ChildProcess`: pid, state, timer, buffers | start, stop, set, write, halt messages; select, SIGCHLD, waitpid | each child tracked by one id, each death reported once, a stop ends the child |
| `QRemoteProcessBackend`, its factory and protocol | `m_state`, `m_pid`, id; id to backend | the same as a local backend, by message | the remote process seems local |
| pipe factory | the launcher's `QProcess`, its readiness | setProcessInfo, slots on the pipe | no report of a living launcher is lost, the launcher knows the restriction |
| socket factory, `QSocketLauncher` | a connection and the receive buffer; one client per connection, broadcast request, its own delegate or none | setSocketName, connected, readyRead; connectionAdded, connectionRemoved, messageReceived, handleIdleCpuRequest | each manager is told of its own processes, and all agree on the restriction and, while the launcher has no delegate, on requests |
| `QLauncherClient`, `QPipeLauncher` | id to backend, a manager | receive, slots on backends | the launcher end of the protocol; the owner knows its request and its internal processes |
| `QPrefork` and its factory | children with pid and two descriptors; an index | execute, makeChild, launch, checkChildDied; setIndex, destructor | each block of arguments is one connected process; a dead child takes everybody down |
| `QProcessInfo` | a map of keys | getters with defaults, setters with signals, insert, setData | a change is announced exactly if it is one |
| match and rewrite delegates | a record, a key and value, a script | matches, rewrite, their setters | the process that runs is one the factory is for |
| `QUnixSandboxProcess`, `fixProcessState` | ids, groups, mask, environment, arguments, priority | the calls between fork and exec | ids as in the table of the comment; a client need not know who forks |
| `QProcessManager`, QML plugin | the list of frontends, the factories through the manager | create, processForName, processForPID, processFrontendDestroyed; named signals | the list names the living; a signal's name can be looked up |
| `/proc` readers | none | | |

How they interact. A manager asks its factories, in order, which of them can
create a process; the factory makes a backend, the frontend owns it and relays
its signals. All of this is one thread with one event loop: there are no locks,
and all interleaving comes from events (start-up notifications, deaths, timers,
messages) and from *re-entrance*, client code that runs inside a signal and
calls back. The fork launcher is a second program with its own loop around
`select()`, connected to the first by pipes, with SIGCHLD as a third party.

What is hard:

* **Slots in the middle of a transition.** `QProcess` announces `Starting`
  before it forks, `NotRunning` before `finished`, `error(Crashed)` while the
  state is still `Running`; a client may stop or renice from each of these.
* **Timers against answers.** A kill timer races the start-up notification,
  the natural end of the process, its destruction.
* **Pids.** 0 means "myself" to `kill` and `setpriority`, a reaped pid may be
  another process's, and a QProcess keeps it until all slots on the end have run.
* **Hand-over.** A prelaunched process changes owner with its signals wired to
  the factory and half its life cycle already emitted.
* **Requests that get lost.** Idle time is requested by a factory, passed on by
  the manager to a delegate, and granted by a timer; lost anywhere, nothing is
  prelaunched any more.
* **Merging signals, buffers and death.** SIGCHLDs merge; data is buffered for
  and from processes that die meanwhile.
* **One number for many.** Every manager counts its backends from 100, so that an id
  means something on its connection only; a connection ends with messages under way,
  and the next one starts behind what the last one left in the buffer.
* **System calls that take away the right to the next.** Between fork and exec the
  order of setgid, setgroups, setuid and setpriority decides what succeeds.
* **Counters of the kernel read as ints**, across switching, overflow and a change of
  device.

`PROJECT.json` lists every hazard with its line and the properties that watch
it.

## 2. Modules

`ProcessLifecycle` is the abstract specification: what a client may see of one
run of one process (`stateChanged`, `started`, `error`, `finished`, in QProcess's
order), and what `state()` must be at each point. A module that models a backend
feeds each emitted signal to `After`, which yields the stage "broken" when no
life cycle continues that way. `Spec` also promises that a start is answered and
a death reported to the end.

`UnixBackend` models one process: frontend, standard backend and Unix backend,
the QProcess, and the child. Variables in the groups of the declaration are the
child (`os` etc.), QProcess (`qstate`, `pid`), the backend (`created` is
`m_process != 0`, `timer` is `m_killTimer`) and observations. `pc` is the point
inside a chain of emissions that the thread has reached: between the actions
`StartupNotification` and `handleProcessStarted`, say, the slots on
`stateChanged(Running)` run, and `Start`, `Stop` and `SetPriority` are enabled
there as they are in the event loop. Deletion is possible in the loop only, as
for any QObject that is emitting. A child is reaped before `error(Crashed)` is
emitted, and `pid` outlives it in the slots that follow; `strayed` observes which calls
reach for a reaped child there. The kernel may refuse a priority (`refused`), of which
the code only warns.

`Prelaunch` models the prelaunch factory and its backends. A backend is a slot
with an owner (factory, client, or doomed by `deleteLater`). Signals are emitted one by
one, and client slots run in between: `rest` is what the event being handled (of the
backend `emitting`) has still to emit, and `m_queue` of a backend that is started what
`start()` has still to replay. A call of `start` inside of a slot on an event's signal is
thus served in the middle of it, and while a client is being told of the past the process
may not move on, as there is one thread. `updateState` ends each slot that the code ends
with it. A doomed backend may still emit if its process had an event ready in the same
round of the event loop.

`IdleManager` models the manager, the state each factory presents to it and the
idle delegates. A *local* factory reacts to a call at once, as the prelaunch
factory does; a *remote* one changes its mind whenever a message comes. The manager is
a program's own or, with `isLauncher`, a `QPipeLauncher`, which passes on its request
(`told`) and its processes (`listed`) to its owner and gets idle time from it (`offer`).
A factory may have a process before it is added; `late` is the set of those whose process
has not been listed yet, since `addFactory` does not look.

`RemoteProtocol` is the second abstract specification: a launcher as its manager
may rely on it. A launcher is a record: commands it has not read, what it has
reported of each process, which processes it is stopping, reports not yet read,
and whether it is up. `Safe` says that it takes one command after the other,
reports one life cycle of each process, and may go at any moment, when unwritten
reports are lost; `Responsive` that, while it is there, starts are answered and
stopped processes end. The module stands between the two ends of the pipe:

    ProcessLifecycle  <-- implemented by --  UnixBackend, RemoteBackend
    RemoteProtocol    <-- implemented by --  ForkLauncher
                      <-- used by        --  RemoteBackend (one per launcher)

`ForkLauncher` models `qForkLauncher`. `phase` is the position in one turn of
the loop; children write and die, and commands arrive, between any two phases.
`canReap` and `canWrite` are what select() found; a read takes everything (or,
for commands, any number) that is there. `m_sendbuf`, one byte stream in the code,
is split by process, whose reports nobody compares with each other's. The
refinement mapping `Protocol` shows RemoteProtocol `queued`: what the manager will
have seen once the buffer is written. `MCForkLauncher` adds the symmetry of ids and
pids.

`RemoteBackend` models `QRemoteProcessBackend`, `QRemoteProcessBackendFactory` and
`QPipeProcessBackendFactory`, together with the launchers that a factory has
started in its life. Each launcher is a record of `RemoteProtocol` and a
QProcess. The QProcess of a launcher that has been replaced is still connected to
the factory, and the slots use `m_process` whoever sent the signal, as in the
code; that is why `PipeRuns`, `PipeReadyRead` and `PipeFinished` have a parameter
`l` and yet touch `m_process`. One event is read per step, which is one turn of
the loop in `pipeReadyReadStandardOutput`. A launcher that ends or is replaced may leave a
part of a message in `m_buffer` (here: the launcher it came from), which nothing clears;
what the next one writes then completes it to something that is not understood, or
`qFatal` ends the program, and `behind` are the launchers that were started so. A use of a
NULL `m_process`, like that `qFatal`, is the action `Crash`, after which nothing happens;
the properties speak of what happens before. `factoryDestroyed` leaves the backend alive
with its error emitted. `host`, `asked`, `seen` and `behind` are observations.

`DataPath` follows the bytes of one process on each of the four ways it can be run
(`kind`): local, prelaunched, through a launcher that serves it with `QLauncherClient`,
or through the fork launcher. Bytes are numbers, pipes have a capacity, and a
character may take two bytes. The turn of the fork launcher is told by `phase`
(select, the write that blocks, read, reap); a write to a dead child ends it, and
another child's SIGCHLD cuts a write short. `sent`, `received`, `shown` and `due` are
observations.

`ProcessRegistry` models `QProcessManager`, its QML subclass and what both make of
pids. Frontends are numbered in the order of creation. `dying` is the stack of
frontends whose `destroyed()` is being emitted, since a slot on it may delete
another; `announced` is the name in the signal of the latest step. The kernel (`proc`,
`nice`) gives a pid to another process as soon as it is reaped, while the message that
says so is still in the pipe from the launcher, or while the local QProcess is still
emitting what it has to say of the end (`ended`) and clients create and start processes
from its slots. `fate` observes whether the kernel has refused a priority, or a call that
was meant for the former owner of the pid has changed it.

`ProcessInfo` holds records: getters with their defaults, and setters that yield the
new record and the signals. `ChildSetup` holds what a child does to itself between fork
and exec, by the manager's `setupChildProcess` and the launcher's `fixProcessState`, on
a kernel whose calls depend on the privileges that are left. Both are pure.
`ProcessCreation` composes them: a client edits a record, the manager asks the
factories in order (`canCreate`), the factory rewrites a copy, and the child sets
itself up by that copy, while delegates change and the launcher comes and goes.

`IdleReadings` is the inside of a CPU or I/O delegate, which `IdleManager` sees from
outside: counters that grow past an int, the reading of them, and the load as a fraction.

`SocketLauncher` models several socket factories, their connections, and the one
`QSocketLauncher` that serves them. A connection is used once and may end at any time
with a prefix of what was under way arriving. `m_buffer` and `reading` are the receive
loop; `garbled` says that a part of a message is behind it. Its processes follow
`ProcessLifecycle`. The launcher may have an idle delegate of its own (`delegate`), in
which case it sends neither greeting nor change of its request: `informed` are the
connections it has told of the request since its delegate last changed. The request is
that of its own factories, which may raise or drop it at any time (`FactoriesChange`), when
memory is restricted or released (`LauncherRestricts`) and when one of them has been granted
idle time (`LauncherIdles`); each change is broadcast.

`Prefork` models `QPrefork` from the bytes of `argv` on: `execute` and `makeChild` divide
it, `launch` moves the bytes. Each process has a table of descriptors, so that who holds
which end of which pipe is known when somebody dies. `MasterDies` sends the death signal
to the children that have asked for it. The factory is its index and its destructor.

Which module uses which:

    ProcessInfo <-- ChildSetup <-- ProcessCreation
    ProcessLifecycle <-- RemoteProtocol <-- SocketLauncher

Definitions whose name ends in a variant and that are marked `mutant` replace
the definition below them in a check that each property can fail.

## 3. Runs

All runs pass.

| run | what it shows |
|---|---|
| `UnixBackend.cfg` | any client, slots included: the signals implement `ProcessLifecycle!Spec` (order and liveness), `StateAgrees`, the kill timer has a target, the priority asked for last is in force unless the kernel refused it, no child survives its backend, only calls from the slots on a crash can reach for a reaped child, a stop of a *running* process ends it, and only slots on `Starting` can signal the manager's own group |
| `Prelaunch.cfg` | clients that call `start()` in the handler that called `create()`: restriction, presented state, one spare with the current record, hand-over for good, one life cycle for the client although it acts in the slots on the replayed signals, and each request for idle time served |
| `IdleManager.cfg` | request, timer and restriction agree whatever comes and goes, and the list does but for processes that a factory brought with it; a launcher's owner knows what it has to; the factory first in line is served |
| `ForkLauncher.cfg` | map of children = process table, with pids used again; `FollowsProtocol`: under every command the launcher takes the steps of `RemoteProtocol` only |
| `ForkLauncher_live.cfg` | every death is reported though SIGCHLDs merge; `KeepsProtocol`: with its liveness, so that a polite stop ends the child though nothing but the loop's own timeout wakes the launcher |
| `RemoteBackend.cfg` | with launchers that end, fail to start or are replaced at any time: one life cycle for a client that starts once, no report lost by a launcher that lives, starts and stops answered by one that stays, but for launchers started behind a part of another's message; the current restriction known to each |
| `ProcessRegistry.cfg` | the list is the living in order, each signal's name but that of `processDestroyed` leads to a living frontend, a pid leads to its owner (or to a former one in the two cases that the property names), and priorities arrive unless refused |
| `ProcessCreation.cfg` | signals of a record, the table of `setupChildProcess` row by row, agreement of launcher and manager about the child, priority, and that a reserved factory runs only what it is reserved for |
| `SocketLauncher.cfg` | with two managers that both start processes, under one id, and connections that end and are opened again: everything a manager hears was said of its own process, restriction and (while the launcher has no delegate) idle requests agree, no process outlives its connection, one life cycle each |
| `Prefork.cfg` | on every short command line: each process has the words of its block and its own pipes, the master loses no descriptor, who else holds an end of a child's pipes is a child forked later and the end is the master's, and a noticeable death takes everybody down |
| `IdleReadings.cfg` | each announcement follows from the load of the last interval, but for the first two of a new device; an overflow hides idle time and invents it in one reading at most; thresholds beyond 0 and 1 do what is promised |
| `DataPath.cfg` | on all four ways: order and completeness of input, output and echo, and that all of it arrives in the end, except for what the properties name |

An invariant of a run is often a conjunction of named parts that say one thing between
them; each part has its own definition and comment in the module:

| property | parts, besides the module's `TypeOK` |
|---|---|
| `Consistent`, `ChildAccounted` (UnixBackend) | `Coherent`, `StateAgrees`; `KillTimerHasTarget`, `NoSurvivor`, `StraysInSlots` |
| `SpareIsRight`, `ClientSeesProcess` (Prelaunch) | `OneSpare`, `LaunchedWithCurrentInfo`, `RestrictionHolds`, `PresentedState`; `ClientSeesLifecycle`, `StateAgrees` |
| `IdleTimeAsked`, `FactoriesAgree` (IdleManager) | `RequestAgrees`, `TimerAgrees`; `RestrictionReaches`, `ProcessesListed` |
| `TablesAgree` (ForkLauncher) | `ChildrenTracked` |
| `ReportsArrive`, `LauncherKnown`, `Answered` (RemoteBackend) | `NothingLost`; `RestrictionTold`, `LauncherListed`; `StartAnswered`, `StopEnds` |
| `NamesHold` (ProcessRegistry) | `ListIsLiving`, `AnnouncedCanBeFound` |
| `LauncherChildHolds` (ProcessCreation) | `LauncherAgrees`, `PriorityAsAsked` |
| `ClientsHearTheirs`, `EndsAgree` (SocketLauncher) | `SeenIsReported`, `OneLifecycle`; `IdleAgrees`, `RestrictionReached` |
| `DescriptorsHold` (Prefork) | `AllocationHolds`, `Connected`, `EndsHeld` |
| `ReadingsHold`, `PromisesHold` (IdleReadings) | `LoadIsMeasured`; `OverflowIsSafe`, `ThresholdsHold` |
| `Faithful`, `Arrives` (DataPath) | `OutputInOrder`, `InputInOrder`, `OutputComplete`; `InputArrives`, `OutputArrives` |

`PROJECT.json` names for each property a mutant, a plausible bug under which the run
finds the property violated. Its hazards are those that depend on an order of steps or on
a boundary; what follows from a single line or a single call is in section 5.

### Bounds

* `MaxStops` = 3: a stop while starting, a polite and a hard one while running;
  a fourth could only repeat one of them. Two priorities: the default and
  another. One process per backend is the code's own limit (`createProcess`).
* Prelaunch: three backends, one held by a client at a time, so that a client's,
  a spare and a doomed one coexist; two records, so that a replacement can be
  told from a repetition. Slots are used again without limit, and the lengths of queues
  and of `rest` are those of one life cycle.
* IdleManager: a local and a remote factory, added in either order, are enough: the
  properties speak of a factory by itself or of it and the one that comes before it;
  two delegates and none; two changes of interval. Each factory may bring a process
  with it. A third factory changed nothing but the time (387000 states, four minutes).
* ForkLauncher: two ids and two pids, two commands besides the starts (one in
  the run with liveness): a merged SIGCHLD needs two deaths, a pid used again
  needs two children in succession, a race with a command one command more than
  the starts. The model has no clock: a timer expires at any time after its start.
* RemoteBackend: one process, since factory and backends treat ids
  independently (`receive` dispatches by id and no property compares two
  processes); two launchers, the current and the former one; one stop, one
  change of the restriction, which can fall before, during or after a launcher's
  start.
* ProcessRegistry: two frontends, so that one can be deleted inside the destruction of
  the other; two pids and three starts, so that a pid serves a second process while the
  first one's end is still in the pipe; two changes of priority.
* ProcessCreation: two factories, one that can fail to be ready; two edits, so that a
  change can be undone; one exchange of a delegate; two users and one that is not in the
  database, with a manager that is root (and reniced) or not.
* SocketLauncher: two factories and two connections, so that either two managers are
  served at once or one comes back; one id, under which both start a process; one
  connection that ends. Starts, stops, changes of memory, of the request and of the
  delegate are three together (`MaxChanges`), in any mixture: two starts of the one id and
  a stop, say, or a request, a delegate and a restriction. A process changes on its own
  while nothing is under way to its manager, and a manager speaks while nothing of its own
  is under way to the launcher (`MaxUnderWay` = 0); the greeting at a new connection, and
  what commands make the launcher report, are not restricted.
* Prefork: all command lines of a program and up to four words, where a word has no, one
  or two letters or is a marker, and those with two children and longer blocks; standard
  descriptors all open, or one of them closed.
* IdleReadings: seven units of time with a timeout every two or three, so that three
  readings follow each other; counters that begin at 0 or below `MaxInt` = 7, which they
  then pass; three calls.
* DataPath: pipes of 1 byte to the program and 3 from it, reads of 2 bytes, 2 bytes of
  input, 4 of output, one of error: buffers overflow, a read leaves something behind, a
  character of two bytes (`WideAt`) falls across the end of a read, and a newline is at
  the start.

### Fairness

* UnixBackend: the thread goes on dispatching and unwinding emissions
  (`Dispatch`), QTimer fires while active (`killTimeout`), the kernel runs exec
  and delivers fatal signals. No client call and no voluntary exit is fair.
* Prelaunch: strong fairness of the idle timer, since the event loop returns to it
  after each handler however often other handlers disable and enable the request;
  deferred deletes happen. With prompt clients, `start` is part of a
  handler that is already running and is fair.
* IdleManager: an active repeating timer fires, and the load is below the threshold
  at some of these times; this is the premise of idle scheduling, and
  nothing can be promised on a machine that is never idle. A launcher's owner is such a
  source of idle time, too.
* ForkLauncher: the loop runs, signals kill, time passes. No child ends by itself.
* RemoteBackend: QProcess reports what there is to report, and launchers read
  their commands and get on with what is starting or stopping. That is
  `RemoteProtocol!Responsive`, which `ForkLauncher_live.cfg` shows of a launcher.
  Launchers need not stay alive.
* Prefork: the system runs each process and delivers each signal, and a launcher obeys a
  halt. Nobody has to die.
* DataPath: weak fairness of the disjunction `Service`: something goes on as long as there
  is something to do. Each service uses up bytes or messages, so that in a bounded run
  none of them can be overtaken for ever. Writing, dying and interrupting are not fair.
* ProcessRegistry, ProcessCreation, SocketLauncher and IdleReadings check safety only.

## 4. Proofs

Eight modules hold proofs, for every value of the constants and from the assumption of
the module alone (`ConstantsAssumption`, `RegistryAssumption`, `SocketAssumption`,
`CreationAssumption` with `PasswdAssumption`, `ReadingsAssumption`, `PreforkAssumption`,
`DataAssumption`),
which say of what kind the constants are. Components whose state is prefixed by name
(`ReadingsSpec`, `PreforkSpec`, `DataSpec`) share a module of proofs with another component:

| module | theorem | statement |
|---|---|---|
| `UnixBackendProofs` | `TypeCorrect`, `CoherentAlways`, `KillTimer`, `StateReports`, `Priority`, `Destruction` | `Spec => []P` for each part of the run's invariants; `Consistency` and `ChildAccounting` put the parts together |
| | `OwnGroup` | `Spec => OwnGroupSpared`, an action property |
| | `Implements` | `Safe => Lifecycle!Safe`: each step maps to a step of the abstract life cycle or to a stutter |
| | `FaithfulAlways` | `DataSpec => []Faithful` |
| `PrelaunchProofs` | `SpareAlwaysRight` | `Spec => []SpareIsRight` |
| | `HandOverIsFinal` | `Spec => HandedOverForGood`, an action property |
| | `ClientAlwaysSees` | `Spec => []ClientSeesProcess` if `PromptStart` |
| `IdleManagerProofs` | `TypeCorrect`, `RequestsAgree`, `TimersAgree`, `RestrictionIsKnown`, `OwnerIsTold` | `Spec => []P` for parts of the run's invariants; `IdleTimeIsAsked` puts three of them together |
| | `FactoriesAreKnown` | `Spec => []FactoriesAgree` |
| | `ReadingsAlwaysHold`, `PromisesAlwaysHold` | `ReadingsSpec => []P` for both invariants of `IdleReadings`, which the same module extends |
| `ForkLauncherProofs` | `TablesAlwaysAgree` | `Spec => []TablesAgree`: the map of children is the process table |
| | `Implements` | `Spec => FollowsProtocol`: each step maps to a step of `RemoteProtocol` or to a stutter |
| `RemoteBackendProofs` | `TypeCorrect`, `LauncherAlwaysKnown` | `Safe => []TypeOK` and `[]LauncherKnown`, for all clients |
| | `ReportsAlwaysArrive`, `BackendImplementsLifecycle` | `Safe => []ReportsArrive` and `Safe => ImplementsLifecycle`, if `StartOnce` |
| `ProcessRegistryProofs` | `NamesAlwaysHold`, `OwnerAlwaysFound`, `PriorityAlwaysReached` | `Spec => []P` for the run's three invariants |
| `SocketLauncherProofs` | `TypeCorrect`, `ClientsAlwaysHearTheirs`, `EndsAlwaysAgree`, `NoOrphansEver` | `Spec => []P` for the types and the run's three invariants |
| `ProcessCreationProofs` | `TableAlwaysHolds`, `LauncherChildAlwaysHolds`, `MatchedAlwaysRun` | `Spec => []P` for the run's three invariants |
| | `AlwaysNotified` | `Spec => Notified`, an action property |
| | `DescriptorsAlwaysHold` | `PreforkSpec => []DescriptorsHold` of `Prefork`, which the same module extends |

**UnixBackend.** None of the invariants is inductive: that an active timer has an
unreaped target, say, depends on how far QProcess has got. The strengthening is `IInv ==
Coherent /\ TimerBounded /\ ExecFailureIsDeath /\ NoSurvivor /\ PriorityInForce`.
`Coherent` lists the thirteen combinations in which the child, QProcess, the thread's
position and the client's view can be; `TimerBounded` is what the handlers keep of the
timer, `ExecFailureIsDeath` says which children of a failed exec exist. There is one
lemma per action or pair of related actions (`StartStep`, `StopStep`, ...), each with
the types first and the conjuncts of `IInv` after them; `Invariance` puts them together,
and the theorems are consequences. `StraysInSlots` needs no strengthening of its own:
`Coherent` tells where the thread is when a call finds the child reaped. For
`Implements` each action is mapped to the signal it emits (`AfterSteps` tabulates
`After` at the stages that occur).

**Prelaunch.** The strengthening adds `WiredToOwn`: the factory's slots are connected to
exactly the backends that it has or has given up. That is what makes `prelaunchFinished`
harmless although it looks at `m_prelaunch` and not at the sender, and it gives
`HandOverIsFinal` at once. For these theorems clients need not be prompt, and queues play
no part. `OthersStep` does all steps that leave the factory alone, `Updated` the presented
state after each call of `updateState`, `Doomed` the slots that give up the spare.

What a client sees is a second invariant on top, `ViewInv`. It tells for each slot at which
point of its story it is: `Waiting`, not started by a client, when the queue holds exactly
the signals that have been emitted so far (`StillBorn` if the launch failed); `Receiving`,
in `start()`, when what the client has been told and what the queue still holds make up
what has happened, and an event that was interrupted by the start has the rest of its
signals to emit; or `Informed`, when the client is at the stage that corresponds to what
has been emitted. Every slot runs between two steps of this, so that the client may do
there what it likes. `PromptStart` is needed and stated: `emit` does not look at
`m_started`, so that a client which waits in between is told twice (section 5). `AfterAll`,
what a queue amounts to, is a recursive function; the queues that occur are known, so that
it is unfolded for each of them and no induction is needed.

**IdleManager.** `IInv == TypeOK /\ RequestInv /\ RestrictionReaches /\ ListTold /\
ProcessesListed`. `RequestInv` says more than `RequestAgrees` and `TimerAgrees` of the
delegates that are not in use now, because one may come back: whoever was never assigned
has no request, and every timer runs exactly while its delegate is enabled and asked.
`RequestUpdated` describes `updateIdleCpuRequest` once for all its callers;
`FirstRequesterIsFirst` shows that the factory that is served exists, by the
well-foundedness of the naturals. That `ProcessesListed` says which busy factories are
not in the list (`late`) makes it inductive as it stands.

**IdleReadings** is proved about in the same module. The invariant `ReadingInv` ties
what a delegate keeps to the kernel's counters at its last reading: a CPU delegate has
those numbers, as ints and as a sum that may have wrapped (`CpuKept`). Of an I/O
delegate `IoKept` says on what the next reading will be based: on the counter and the
time of the last one (`basis` is "exact"), on that counter and a time that began earlier
("long", the second reading of a device), or on nothing (the first); and that the device
was busy for no longer than its clock has counted, which keeps the load at most 1.
`CpuMeasured` goes through the wraps of both differences: unless the idle time outgrew
its int in this very interval, each load is the true one or not below 1. `TooHigh` and
`Thresholded` say what such loads are announced as.

**ForkLauncher.** `IInv` says of each id what its life so far is (`Reported`): what the
manager has been sent and what is still in `m_sendbuf`, put together, is nothing, the three
signals of a birth, or these and one of the two ways to die, and which of them it is agrees
with `m_children`. `StartsOnce` is what makes that inductive: a start command that is still
unread finds no trace of its id, and no second one. `Tracked` says more than
`ChildrenTracked`, that pids are not shared and that `m_state` agrees with the map. For
`Implements` each action is mapped to steps of `RemoteProtocol` under the refinement mapping
of `Protocol`; one turn of the code may report of several children, and the abstract step
then does all of it at once.

**RemoteBackend.** `Known` (the launcher in use was started, it has been told the
restriction, it is listed) is inductive with the types alone. `Buffered` says that a
launcher which is read from behind a part of another's message is in `behind`.
`Hosted(i)` follows one process across launchers: its start went to one launcher only,
no other one ever speaks of it, and, unless that one is in `behind`, what is in the
pipe, taken from the stage that the client has seen, leads through the life cycle to the
stage that the launcher has reported (`Follows`). A path of stages is asserted to exist,
step by step, in place of a fold over the pipe, which would ask for an induction; a
report that is appended makes the path longer, one that is read makes it shorter.
`StartOnce` is assumed, since a second start before the first answer gives one id to two
processes, whose events mix (section 5).

**ProcessRegistry.** The list is the frontends that are alive in their order
(`ListIsLiving`), which `Numbered` keeps, even if frontends are deleted inside the
deletion of others. Pids and priorities hang on messages under way: `Wished` says that
the *last* command about a frontend, or what came of it, has the priority that was asked
for last; `Known` that the last news of it, or what its backend made of them, is the pid
of its process. `fate` splits off the processes whose priority was refused or changed by
a stranger's call. `Local` says that a local backend knows the pid of its process, and
another pid only while its QProcess is emitting the end (`Ending`). Lemmas tell what
appending to a queue and taking from it do to the last message about somebody, and each
action cites them.

**SocketLauncher.** `Arriving(f)` is what a factory is going to handle: the rest of its
buffer and, as long as it understands its connection, what is under way there. The
invariant speaks of this one sequence: `Told` that it leads the client's view along a
life cycle to the launcher's stage (paths again), `IdleTold` that its last word about
idle time is the launcher's request, for connections that have been informed of it,
`MemoryTold` that the last message about memory on the way up is the factory's setting.
`Owned` and `Unopened` are what makes a connection belong to one factory; `MemoryHeard`
says that the launcher has heard somebody.

**ProcessCreation.** Most of the work is in lemmas about operators: `SetIsRight` and its
neighbours (what each setter changes and announces), one lemma per system call, and
`SandboxEffect` and `ForkEffect`, which say of the whole way from fork to exec what the child
has in the end, from the privileges that are left at each call. The invariant adds that the
backend's own copy suits the delegate that let the factory have it (`Created`): a rewriting
keeps environment and user (`RewriteKeeps`), and later changes of delegates do not reach
the copy. `Started` says that a child was made from that copy.

**Prefork** is proved about in the same module. `MasterFds` says exactly what the master
has open: what it began with, and of each child the two ends whose numbers it has noted;
`ChildFds` what a child has: nothing but the master's descriptors at the time of its
fork and its own four ends (`OfChild`), each under one number until it sets itself up
(`Untouched`). That no end of a new pipe is open in the master (`EndsAreNew`) makes
`NumberOf` mean the right number, and what a later child inherits can only be the
master's ends of earlier pipes; a child that has set itself up has none of the master's
ends of its own, whichever numbers were overwritten (`SetUp`). That is `EndsHeld`.
`PipesMade` and `ChildConnected` follow the calls of pipe, dup2 and close, from the fact
that the lowest free number exists. `BlocksHaveWords` counts: each block so far has a
word before `index`, so that there are fewer children than words, which is what `count`
allocates for.

**DataPath** is proved about in `UnixBackendProofs`. `Faithful` says what has arrived, and
its invariant `DataInv` where everything else is. Of input: what the program has read, its
pipe and the buffer are consecutive parts of `sent` (`Part`), and the commands under way
continue them (`Commands`: a function `at` gives the position behind each command, so that
no sum over a sequence has to be computed); before the launcher has the command that starts
the program, those in front of it do not count. Of output: the messages under way lead from
the length of `received` to a position `to` (`Way`, by the same means), the pipe holds the
bytes behind `to`, and together they reach `written`, unless the fork launcher has deleted
the child (`Deleted`). `FinishedLast` says that *finished* is the last message and sent when
the pipes are empty, which gives `OutputComplete`; `InStep` that at most one command starts
the program, and only when none has.

**Only model-checked.** All liveness: `FirstServed`, `RequestServed`, `StopEndsRunning`,
`Answered`, `DeathReported`, `KeepsProtocol`, `Arrives`, `AllShutDown` and the liveness half of
`UnixBackend`'s `ImplementsLifecycle`; the prover does not handle fairness and ENABLED.
`ArgsAreBlocks` and `EchoAgrees` say what folds over command lines and echoed bytes compute,
which is induction over data.

## 5. Disagreements between code and documentation, and surprises

The properties make each of these exceptions by name, or are about what remains. None
has a run of its own.

**Local and prelaunched processes**

* `stop` before `start` reaches `Q_ASSERT(m_process)`
  (`qunixprocessbackend.cpp:222`): action `StopAsserts`.
* A second `start` after the process finished passes the frontend's check of
  `state()` and is refused by `createProcess` with a warning: no signal answers it.
* A `stop` of a *starting* process loses its kill timer at the change to Running
  (`qunixprocessbackend.cpp:287`), so that a process that ignores SIGTERM is not killed,
  against line 215.
* `stop` in a slot on `stateChanged(Starting)` calls `kill(getpgid(0))`, the manager's
  own group (`OwnGroupSpared` makes the exception); in a slot on `error(Crashed)` it
  signals a pid that has been reaped, or the group of whoever has it by then
  (`StraysInSlots`), and so does a priority, in the slots on `NotRunning` too; a
  priority set before the fork or after the end goes to pid 0, the manager itself
  (`qunixprocessbackend.cpp:114`, `qprocutils.cpp:426`), and `actualPriority` reads it
  there.
* A client that has a prelaunched backend and returns to the event loop before it calls
  `start()` receives signals twice: `emit` does not depend on `m_started`
  (`qprelaunchprocessbackend.cpp:178`). The program's output comes before `start()`, too.
* `setPrelaunchEnabled(false)` keeps a spare that has been launched, although the
  documentation (`qprelaunchprocessbackendfactory.cpp:68`) says it is terminated.
* While `start()` replays what was kept, `state()` is ahead of the signals
  (`qprelaunchprocessbackend.cpp:135-153`): in the slot on the first one it tells what the
  last one will.
* A priority that the kernel refuses is a warning only (`qprocutils.cpp:432`); the desired
  one stays what it was asked to be, as the comment on `QProcessBackend` says.
* The echo of standard output goes to stderr (`qprocessbackend.cpp:386`).

**Launchers and remote processes**

* A write to a child that has just died ends the fork launcher by SIGPIPE
  (`qforklauncher.cpp:185`), and with it all other children.
* `halt` does nothing to a child in its grace period (`ChildProcess::stop` returns if
  `m_state` is not Running), so that one which ignores SIGTERM survives the launcher.
* What a child writes after the fork launcher's last read is dropped when it is reaped.
  The launcher writes to it with blocking calls, and each can wait for the other (`Stuck`).
* The fork launcher does not notice the end of its input (`qforklauncher.cpp:623`): when
  the manager is gone it spins, and its children run on.
* A second remote `start()` before the first answer gives two processes one id
  (`qremoteprocessbackend.cpp:188`), whose events mix.
* The end of a launcher that was replaced deletes its successor
  (`qpipeprocessbackendfactory.cpp:258`), against lines 95-97.
* After the launcher's end `m_process` is NULL, and `send` uses it unchecked: `start`,
  `stop` or a change of the restriction then ends the program (`Crash`), and so does
  late output of a launcher that was replaced by nothing.
* A launcher that ends in the middle of a message leaves its part in `m_buffer`
  (`qpipeprocessbackendfactory.cpp:146`, `258`), behind which its successor is
  misunderstood, or `qFatal` ends the program (`225`). `behind` is this exception.
* A backend that outlives its factory emits `error(UnknownError)` and neither
  `stateChanged(NotRunning)` nor `finished` (`qremoteprocessbackend.cpp:295`).
* Backends whose launcher ended, was replaced or was disconnected are told nothing and
  keep their state for ever. `StartAnswered` and `StopEnds` of `RemoteBackend` make that
  exception. `~QRemoteProcessBackend` leaves its process running.
* The protocol's documentation (`qremoteprocessbackendfactory.cpp:97`) says
  `started` is the first event of a process; `stateChanged` comes before it.
* A remote `write` before `start` counts as written and is dropped; a remote pid is kept
  after the process has finished; a priority set between `start` and the news of the pid
  is never sent; a priority set under a pid that is no longer the process's changes that of
  a stranger; the remote kill timer's slot sends a `signal` command that no launcher
  knows (`qremoteprocessbackend.cpp:280`), and nothing starts that timer.
* A start that no factory of the launcher matches is not answered (`qlauncherclient.cpp:76`).
* Output is decoded and encoded again, so that a character cut by a read is damaged.

**Sockets**

* `m_buffer` keeps a part of a message across connections, after which nothing is
  understood (`qsocketprocessbackendfactory.cpp:124`).
* The restriction of the manager that spoke last is the launcher's, and stays when that
  manager leaves (`qsocketlauncher.cpp:205`); `halt` is ignored; one idle request may be
  answered by several managers.
* A launcher that is given an idle delegate leaves its managers with the request they heard
  last (`qsocketlauncher.cpp:121`, `159`); when the delegate is removed they hear of a
  request only if there is one (`qprocessbackendmanager.cpp:240`), so that an old one stays
  until the next change (`IdleAgrees` speaks of those in `informed`).

**Prefork**

* `qFatal` in the SIGCHLD handler aborts the master only, and the children depend on
  their death signal (`qprefork.cpp:310`); deaths before the handler is in place, or of
  a child whose parent died before it asked, go unnoticed (`noticeable`).
* The destructor of the factory halts the child, whose end aborts the master
  (`qpreforkprocessbackendfactory.cpp:100`). Two factories may share an index, and a
  restriction set before `setIndex` is not sent.
* A child keeps the master's ends of all earlier children's pipes, since it closes its own
  four only (`qprefork.cpp:230`): an earlier child sees the end of its input, or a broken
  pipe behind its output, only when the later ones have ended, too (`EndsHeld`).
* `argv[argc]` is not NULL after `launch`; `p -- m -- --` is accepted without a child.

**Idle time**

* `addFactory` does not refresh the list of internal processes
  (`qprocessbackendmanager.cpp:168`; `late` in `ProcessesListed`). A launcher that had
  its own delegate may leave an old request with its owner.
* The first reading of a device that is new, or had a counter of 0, measures nothing, and
  the second divides by a time that began before the first (`qioidledelegate.cpp:175`, as
  `m_elapsed` is not restarted), so that the load seems lower than it was, against lines
  68-72. `LoadIsMeasured` excepts both.
* When the idle time outgrows an int, one reading may announce a busy processor as idle
  (`qcpuidledelegate.cpp:143-145`, `168-170`): both differences have wrapped, and the
  quotient of two negative numbers passes. The CPU load leaves out user time (`144`).

**Records and children**

* `setProgram`, `insert` and `setData` announce nothing, `setPriority` and
  `setOomAdjustment` announce a change twice, and 0 is not stored in a fresh record.
* Without a umask in the record the manager's child gets 0 (`qunixprocessbackend.cpp:177`),
  while a launcher's keeps its own; there a mask of 0 is not set, and -1 becomes 0777.
  Without an environment the manager's child inherits and the launcher's may be cleared.
* The launcher sets groups and priority after setuid, when it no longer may; `chdir` warns
  when it succeeds (`qforklauncher.cpp:244`).
* The death signal is set before the ids change, which clears it
  (`qunixsandboxprocess.cpp:139`, against lines 87-88). The same holds for the fork
  launcher's children (`qforklauncher.cpp:461`), which is why `exit` of `ForkLauncher` signals
  any subset of them.
* `processDestroyed` is announced while the frontend can still be found under its name
  (`qdeclarativeprocessmanager.cpp:356` says it cannot), and what is found is being deleted:
  `AnnouncedCanBeFound` excepts this signal.
* `processForPID` finds the former owner of a pid for a process that is started in a slot on
  the end of another one (`OwnerFound`).

## 6. Not modelled, and the plan

Left out of the modelled parts: JSON framing; `setProcessInfo` called from a slot of the
same factory in the middle of a message loop, and `setSocketName` from inside of
`readyRead`; the internal processes and errors a socket launcher sends; scripts of QML
delegates that compute or that write while matching; Linux capabilities and process
groups; the OOM adjustment, which repeats the priority line by line.

Left out for good: parsing of `/proc` into structures, which the rest of the library does
not use, authentication of sockets, registration of QML types, tests, examples and build
files; they keep no state that the properties are about.

To come: a socket launcher with more processes per connection; the composition of
`RemoteBackend` with the step-by-step `ForkLauncher` instead of its abstraction.
