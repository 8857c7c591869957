# PartCAD in TLA+

This directory models the parts of PartCAD whose correctness depends on the order in which several
actors do things: tasks on worker threads and event loops, sandbox processes, several PartCAD
processes over one internal state directory, a daemon and its clients. Geometry, file formats,
rendering and the text of the command line are data here and are left out.

Paths below are relative to the Python packages of the repository (`src/src/`): `partcad/` is the
core, `partcad_client/` and `partcad_service_json_rpc/` the two ends of the daemon's protocol,
`partcad_utils/` what both share, `partcad_cli/` the command line.

## 1. The system's parts

### 1.1 What is modelled

| Part | State it keeps | Operations | What is hard about it | What makes it correct |
|---|---|---|---|---|
| Environment lock: `partcad/sandbox_lock.py` | reader, writer and waiting-writer counters of each process; one lock file for all processes | acquire for reading (run a wrapper) or writing (install), from threads or from asyncio tasks; release | waits that are cancelled or fail half way, writers of other processes, starvation | installs exclude runs and each other, no counter leaks, a waiting install gets in, a writer that is gone is forgotten |
| Python sandbox provisioning: `partcad/runtime_python.py`, `sandbox_versions.py`, `runtime.py` | the environments' directories with their guard and reassert marker files; sessions; the provisioned flag | `once`, `ensure`, `prepare_for_*`, `run` | packages that overwrite each other's files, decisions taken before a wait and used after it, kills between two files | whoever installs has the environment to itself, a wrapper finds what it asked for, markers tell the truth |
| Workspace daemon: `partcad_utils/workspace.py`, `partcad_client/{client,daemon}.py`, `partcad_service_json_rpc/{daemon,transport/socket_server}.py` | socket file, pid file, flock, dispatch lock, the stopping flag | launch, probe, replace, connect, call; stop, signal, wait until gone | several commands at once, busy or killed daemons, files that name somebody else by the time they are used | a daemon that is neither stopped nor taken for dead keeps its address and its pid file and serves all commands; every command ends |
| Two-phase builds: `partcad_service_json_rpc/core/operations.py`, `partcad_utils/staging.py`, `partcad_client/client.py`, `partcad/cache*.py` | the warm context, the objects in memory, the cache tiers, `session.staged`; the client's recursion | `context.create`, a build request, `RETRY_LATER`, the client's requests for sub-assemblies | entries that get lost meanwhile, shared sub-assemblies, cycles, several clients over one context | nothing is built twice, a request stays small, only a cycle fails, the exchange ends |
| Building a shape: `partcad/shape.py`, `part.py`, `assembly.py`, `sync_threads.py`, `project.py` | two locks for each shape (one of threads, one of a loop), what is kept, the constrained thread pool, event loops | `get_wrapped`, a part's job, an assembly's gather, a loop that closes | locks that stop a whole loop, jobs that wait for jobs of the same pool, failures that cancel siblings | one builder at a time, nothing is built again, every request ends |
| Contexts and packages: `partcad/context.py`, `project.py` | `ctx.projects`; a lock for each package and one for the context; the threads' call stacks | `get_project`, `import_project`, `import_all` | a load asks for other packages while it holds its own lock, threads of the pool that take no context lock, loads that raise inside loads | nobody has a half of a package, nobody loads it twice, lookups find what there is, calls end |
| Cached git checkouts: `partcad/project_factory_git.py`, `healthcheck/stale_git_locks.py` | the copy, its HEAD and guard file, a lock file beside it, the process's ambient git configuration | import a package (clone, fetch, reset, retry), remove stale lock files | several processes, each way a clone can fail, an interruption between two files | one importer at a copy, a failure leaves no part of a clone, a copy keeps its guard and stays where it is, what is found is one version's files |
| Derived parts and assembly trees: `partcad/project.py`, `assembly.py`, `assembly_factory_{imported,step,alias}.py` | who builds a model's parts, the event that others wait for, the trees, the two locks of each | `get_part` of a part nobody declares, `do_instantiate`, an alias that shares a tree | claims read before they are made, cancelled requests whose factories run on, trees shared while they are filled | a tree is put in once and handed out whole, a part that exists is found, requests end |
| Contexts of a session: `partcad_service_json_rpc/core/{operations,session}.py`, `transport/*` | `contexts` and `context_user_configs` of a daemon, `partcad.yaml`, the dispatch lock | `context.create`, operations that read, add, convert or reset | a context that outlives an edit, or goes while somebody has its id; edits that fail half way; HTTP requests at once | answers have what was in the file when their folder's context was last evicted, under the caller's configuration; contexts go only for a reason; edits stay |
| Slots and gates: `partcad/sandbox_lock.py`, `concurrency.py`, `test/test.py`, `runtime*.py`, `sync_threads.py` | permits of the gate, a shape's locks, threads of the pool, locks of environments and of conda, process slots | a render and its files, a test and what it tests from inside, an install, a wrapper | a task holds several of these at once, in an order in which another's loop may be stopped on one | every render and test ends |

How they interact. A command of the client reaches the daemon over the socket (WorkspaceDaemon); the
context that it works in is created or found warm there (SessionContexts), and its packages are loaded
on demand (PackageLoading), out of folders or cached checkouts that all processes share (GitCheckout).
What the command asks for is split into requests, each building one assembly (StagedBuild), the tree of
which is instantiated first (DerivedParts). A request runs on a thread of the daemon with an event loop
of its own; it takes the locks of the shapes that it needs and sends a job for each part to the
constrained pool (ShapeBuild). The job provisions a sandbox and runs a wrapper out of it
(SandboxInstall) under that environment's lock (EnvironmentLock), which other PartCAD processes also
take. SandboxSlots is the composition of the last three layers with the gate and the process slots: a
task there holds a shape, a thread, an environment and a slot at a time.

The other modules keep the layers apart: the upper one sees the lower one only through what the lower
one promises. EnvironmentLock is proved to implement the abstract RWLock, and what SandboxInstall does with
the lock over each of its environments is proved to be what RWLock allows one process; a wrapper is
one step of ShapeBuild that ends, which is what EveryRenderEnds says of SandboxInstall; a package's
files are one step of PackageLoading that may fail, which is what ImportsEnd and FoundIsWhole say of
GitCheckout.

### 1.2 What is not modelled

| Part | Why |
|---|---|
| Node sandbox (`partcad/runtime_javascript.py`) | planned: NodeSandbox |
| conda sandbox (`partcad/runtime_python_conda.py`) | its lock is in SandboxSlots; planned: the retries and the discarded prefix. venv, PyPy, container and remote sandboxes call an external tool under the same `once` |
| Other package sources: tar, external, plugins | a tarball is unpacked into a directory of its own and renamed into place; the rest is network and other programs |
| Cache tiers (`partcad/cache_backend.py` and backends) | StagedBuild has a tier as a set that may lose entries. Planned: PooledClient, the client shared by the requests of one loop |
| Plugins and the supply chain (`partcad/plugin.py`, providers) | planned: PluginDeadline. Quotes, carts and orders are remote data |
| JSON-RPC operations that read, convert or export | to a session they are all readers (SessionContexts); what they return is data |
| Client: framing, events, the bound on silence | planned: DaemonCalls |
| Factories of parts, sketches, assemblies and scenes | what they do to sandboxes, to other shapes and to trees is modelled; how a file becomes geometry is data |
| Interfaces, mating, ports; output, rendering, documents; lint; simulation, CAM, CAE, AI | computation over data, or requests to external programs, with no shared state of their own |
| Self-update, command line, user configuration, IDE clients, FreeCAD workbench, wrappers, tools, containers | one process, user interface, or build and deployment |

The share of the repository's lines that the models stand for is small, and will stay so: most of the
code translates files, geometry, configuration and text for one caller at a time. What is modelled is
the part in which several actors meet.

`PROJECT.json` lists every part with its sources, and under "hazards" the places in the code where an
order, a failure or a boundary that tests hardly reach could do harm.

## 2. The modules

| Module | Contents |
|---|---|
| RWLock | what a readers/writer lock over an environment promises: sets of tasks that read and write |
| EnvironmentLock | the lock as it is written, and its refinement of RWLock |
| SandboxInstall | environments, markers, sessions, installs and runs |
| WorkspaceDaemon | the rendezvous of commands and daemons, and how a daemon goes |
| StagedBuild | the exchange between clients and the daemon that builds an assembly |
| ShapeBuild | requests for shapes on loops and threads |
| PackageLoading | threads that load packages, and what packages ask for while they are loaded |
| GitCheckout | copies of repositories, their importers in several processes, and the health check |
| DerivedParts | models that yield parts, who builds them and who waits, and the trees |
| SessionContexts | the warm contexts of a daemon, the commands that use, edit and drop them |
| SandboxSlots | everything that renders and tests wait for, held together |
| MC*X* and MC*\*.cfg* | the instances that TLC checks |
| Sandbox_proof | theorems about EnvironmentLock and SandboxInstall |
| *X*_proof | theorems about module *X*, for the others |

Some modules define, next to an operator, a mistaken form of it (CanReadUndeferred beside CanRead).
Nothing uses these. `PROJECT.json` ("mutants") pairs each with the property that is violated when it
takes the operator's place, which shows that the property depends on that line of the code.

### 2.1 EnvironmentLock (`partcad/sandbox_lock.py`)

A process's lock is `_readers`, `_writer` and `_writers_waiting`, changed under a mutex by
`_try_acquire` and `_release`; these are `readers`, `writer`, `writersWaiting`, and `fileLock` is the
lock file. A task that uses the lock is a `User`, and `place` says where in `acquire` it is. One action stands for one stretch between two places where the code lets go of the mutex:
Ask is the first try of `acquire`, Announce counts a write that missed, PollRead and PollWrite are a
poll that succeeds, FileFails one at which the file cannot be opened, Cancel a task cancelled in its
sleep, Withdraw the `finally` that takes the announcement back, Release that of the body. Killed ends a
process: its memory is gone and the operating system releases its file lock. A wrapper of another
process is not excluded by the lock file, as in the code, so InstallIsAlone says: no run of the *same*
process and no install of *any*.

### 2.2 SandboxInstall (`partcad/runtime_python.py`)

Two environments, the runtime's own and the v-env shared by the shapes of a package. `guard` and
`reassert` are marker files; `recorded` is what pip believes to be installed and `intact`, which no
code can see, what really is whole on disk. A render goes through `once` (Begin, EnterOnce,
FinishOnce), its `ensure` calls (Declare with a session; ReadReassert, Look, EnterInstall, Recheck
without), pip and the marker files (PipStarts, PipEnds, PipFails, TouchGuard, ClearReassert,
DropGuards, DemandReassert: one action for each file, in the code's order), and the run (AskToRun,
EnterRun, DepsInstalled, RunEnds). The guards are read where the code reads them, so what was read
before a wait may be old when it is used. A session's `deps` are a list, in the order in which they were
declared, which is the order they are installed in. Packages are named by what they do to each other: `Clobbers`
(build123d overwrites the files of cadquery-ocp) and `Brings` (cadquery brings it along). What the
tasks are for, and whether pip may fail and PartCAD be killed, is a `Setting` that the initial state
chooses; GuardsTellTheTruth and RunsOnItsNeeds are about a sandbox at which pip did not fail and nobody
was killed (`Reliable`). OwnSessions, Careful and Declared, at the end of the module, say what the proofs
ask of a setting; UsesTheLocks takes RWLock once for each environment. The modules below choose a setting in the same way, so that one run checks many
situations.

### 2.3 WorkspaceDaemon

A command takes the flock of `ensure_daemon` (Lock), probes the socket (Probe, ProbeAnswered,
ProbeUnanswered), replaces it if nobody answered (Unlink, Bind, Listen), connects (Connect), has its
request dispatched (Dispatch, Return) or loses the connection (Cut). The daemon it may have started is
named after it: it listens from then on, writes the pid file (WritePid), builds its session and enters
the accept loop (Serve); LeaveLoop, CleanUp and Exit leave.
`stop()` runs in a connection's thread, in the steps StopSets, StopUnlinks, StopCloses and
StopCleansUp; the accept loop may notice it after the first, and Exit ends the process wherever that
thread is. A stopper is `stop_daemon` with `wait_until_stopped`, or a signal. A probe gives up after a
second, which the model has no clock for: it may do so whenever it is not answered at once
(DoesNotAnswer), as the daemon still starts, dispatches another request, stops or is gone. `unheard`
remembers the daemons that a launcher took for dead, and is read by properties only.

### 2.4 StagedBuild

A context is named by the client that created it. Create is `context.create`, which reuses the
workspace's context when its configuration is the same; Stage has the client ask for one of the
sub-assemblies it was told to build; Answered, ToldToWait and AskedAgain are the three outcomes of a
call. `stack` is the recursion of `_call_staging`, `asked` the set it shares with its inner calls.
Pending is `_stage_subassemblies`. Inline is what `get_wrapped` builds: the assembly and, of what it
builds, whatever is placed there and not cached. BuiltOutOf is that recursion as a least set, for each
set of assemblies that are not cached; the same function gives what lies below an assembly (Below) and
which are built out of themselves (Cyclic). Evict loses an entry of a tier.

### 2.5 ShapeBuild

A request (`Task`) asks for a shape on some event loop on behalf of another request or of a client.
`phase` is how far `Shape.locked` and `get_wrapped` are: `created`, `blocked` on the lock of threads
(its whole loop stops), `queued` for the lock of the loop, `building`, and then `made`, `failed` or
`cancelled`. `job` is the part's job in the constrained pool. Enter and Unblock take the first lock;
FindKept answers from what is kept; StartAssembly gathers the children, SendJob and StartJob put a
part's factory on a thread, whose own loop the requests of that factory run on; EndJob closes that
loop. FinishPart, FinishAssembly and FailAssembly end a request, and Leave closes a client's loop, as
`asyncio.run` does: what is still pending on it is cancelled, and the locks it held are free, while jobs
that are already on a thread go on.

### 2.6 PackageLoading (`partcad/context.py`, `partcad/project.py`)

A thread has a call stack: a lookup walks from the root towards its package (StartGet, TakeContextLock,
Walk), imports what is missing under that package's lock (WalkIntoLoading, TakePackageLock), and a load
asks for further packages with a lookup of its own (AskWhileLoading). As a package has one load at a
time, the package stands for the frame: `frame[t]` is the top of t's stack, `asker[p]` what is under p,
`goal` and `at` what a frame is after and how far it got. Publish puts the package in `ctx.projects`,
FailToLoad raises; BackInLoad, BackInClient and BackInWorker hand the answer to the frame below.
StartImportAll and NextWave are `import_all`, TakeTask the threads of the pool, which do not take the
context's lock.

### 2.7 GitCheckout (`partcad/project_factory_git.py`)

`tree`, `head`, `guard` and `fresh` are the copy on disk: `part` while it is cloned, `torn` while it is
reset. An importer takes a lock of its process (TakeThreadLock) and one on the lock file (TakeFileLock),
looks at the copy (Check), and fetches and resets, or clones. A clone can be refused or drop (RefuseClone,
DropClone) or turn out to have no commit (EndCloneUnborn); an update can fail at every step, with the
files half reset too (UpdateFails), and is then tried again or given up. RefuseClone chooses between the fallbacks as the code does: a full clone, the
ambient configuration set aside (Ignore), another attempt, or giving up. `honoring` and `ignoring` are
those who depend on that configuration and who has set it aside. Interrupt is a kill, or an exception
that is not one of GIT_ERRORS. Age and Move are the world: a guard gets a day old, the repository moves
on. FindUnheld and RemoveLock are the two steps of the health check. Versions of a repository are
numbers, and a copy of another revision is another repository.

### 2.8 DerivedParts

A request (`Request`) looks up a part that a model yields, or instantiates a tree. ClaimOrLook and Claim
are `_derived_part_to_build`, which looks first and claims then; StopWaiting is the event; Enter,
Unblock, FindTree and EndBuilding are `do_instantiate` between its two locks; Clear and Signal give up
the claim and set the event; Find looks the part up. `job` is the factory in its thread of the detached
pool: Read, then Register and Add for each part in the file's order, or LockSource and Share for an
alias. A part that does not register is skipped by the code, and is not in `Yields`. Cancel is a loop that closes: the request's locks are free, its factory goes on (`Strays`).

### 2.9 SessionContexts

A command sends `context.create` (Create, and DropOther or DropFailed when the warm context was built
with another configuration or did not load; Build, Store, Note, Created) and then its operation: Answer
reads, StartEdit, ReadFile, EmptyFile and WriteFile edit `partcad.yaml`, Evict drops the context,
EndConvert does not, Reset drops them all. EditByHand is the author in an editor. `turn` is the dispatch
lock, which `http` does without. A context is named after the command that built it, and `built` says
what it read. `edited`, `owed` and `met` only remember: what was in the file when a folder's context was
last evicted, the same as it was when a command began, and which commands it overlapped with.

### 2.10 SandboxSlots

A task is a stretch of a coroutine; `pc` says how far it is, and what it holds follows from that, since
everything is taken in a `with`: a permit of the gate (Admit), the thread lock and the loop lock of a
shape (Enter, Unblock, TakeTurn), a thread of the pool (`Busy`), an environment's lock (TakeLock),
conda's for an install (TakeConda), a process slot (TakeSlot), in this order. Ask makes the next use of
the sandbox, RunEnds and Fail end it, Close is the loop of a command that ends and cancels what is left.

## 3. The runs

A module's Spec states the fairness that its liveness properties need. Deadlock is checked in the runs of
EnvironmentLock, SandboxInstall, WorkspaceDaemon and StagedBuild, which have a Terminated step or never
stop. In the others a finished client has nothing more to do and the system really stops; that it does
not stop earlier is what their liveness properties say. SessionContexts has none: its commands wait for
nothing but the dispatch lock, whose holder waits for nothing.

| Run (cfg) | Instance | What it shows |
|---|---|---|
| environment_lock (MCEnvironmentLock) | 3 tasks of one process, 1 of another; two can be cancelled; any task may be killed or fail | InstallIsAlone, CountersAreExact: installs are alone and no counter leaks. InstallGetsItsTurn: a waiting install is not starved. ImplementsRWLock |
| sandbox_install (MCSandboxInstall) | two settings: 2 shapes with a session each over one v-env, from any state that an earlier PartCAD can have left; and 2 tasks without sessions, where pip may fail and PartCAD may be killed once. 2 renders each | InstallsHoldTheEnvironment, RunsOnItsNeeds, GuardsTellTheTruth, InstallsOnlyWhatIsMissing: installs are exclusive, wrappers run on what they need, guards are true, nothing is installed twice. EveryRenderEnds |
| daemon (MCDaemon) | 3 commands at once, or 2 and a stopper; 1 kill; probes that time out on a daemon that starts, dispatches or stops | DaemonKeepsItsAddress, PidFileNamesTheDaemon: a daemon that answers its probes loses its socket or its pid file only to one that did not and was stopped later (and its pid file to any that stopped). CommandsShareTheDaemon: without a stop or a kill every command is served, by one daemon but for those that were taken for dead. CommandsEnd, StoppedDaemonsGo: every command ends, every daemon that was told to stop goes |
| staged_build (MCStagedBuild) | 3 clients of one daemon: a robot of two arms, which share a hand, one of the arms, which has a frame with a plate too, and an assembly built out of itself; any initial cache, one entry that gets lost | NothingIsBuiltTwice, RequestsStaySmall (a request builds one assembly, and what got lost), FailsOnlyOnACycle, CommandsEnd |
| shape_build (MCShapeBuild) | 2 clients, 4 threads: a compound of an assembly of two parts that derive from a panel, and an assembly with the panel and one part twice; two parts may fail | OneBuilder, KeptIsNotRebuilt: one request and one job at a time build a shape, nothing there is built again. BuildsEnd |
| package_loading (MCPackageLoading) | a root with two packages, one with a sub-package, in 144 contexts: who names whom, in `mates` or not, what is skipped or cannot be loaded, who asks for what, `import_all` among it; 2 clients, 2 threads of the pool | OnlyWholePackages, LoadedOnce: nobody has a half of a package, or another copy. AnswersAreRight: lookups find what there is. LoadsEnd |
| git_checkout (MCGitCheckout) | importers of one repository in two processes, two of them in one, for a default branch, a branch and a commit, forced or not, with a copy or without; a repository without a commit; two repositories in one process; an importer beside a health check. Failures of every kind, also of a reset half way, 1 interruption | OneAtEachCopy, FailuresLeaveNothing, FoundIsWhole, ConfigIsOnesOwn, CopiesStay: one importer at a copy, no part of a clone left by a failure, found copies are one version's files, and copies stay. ImportsEnd |
| derived_parts (MCDerivedParts) | a robot of two links, one of them twice, an alias of it, and a clamp; 4 requests on 3 loops, files that cannot be read, requests that are cancelled | PutInOnce, TreesAreWhole: trees are put in once and handed out whole. PartsAreFound: who waited finds its part. RequestsEnd |
| session_contexts (MCSessionContexts) | 4 commands that read, add, convert and reset, in one folder or two, of users with one configuration or two; a file that is missing or garbled at first, edits that fail half way, an edit by hand; over a socket and over HTTP | AnswersAreFresh, OwnConfiguration: answers have what was in the file when an operation of their folder last evicted its context, and the caller's configuration. RefusedForAReason: contexts go only for a reason. EditsAreKept |
| sandbox_slots (MCSandboxSlots) | three settings: a panel in two file types, a rib that derives from it and a gasket, everything installed, 2 slots; the panel and the gasket, nothing installed, 1 slot, 2 environments under conda; a test that tests its kit from inside beside another test, 1 permit, 1 thread, 1 slot. A job and a file may fail | RendersEnd: every task ends |

Two runs end in a counterexample: the code does something else than the repository says of it.

| Run | What is said | What the code does |
|---|---|---|
| derived_looked_early | `project.py:1889`: "Whoever ends up not building has to wait for whoever does, rather than" go and look the part up | `_derived_part_to_build` returns at once when the model has a child (`:1907`), before it asks who is building it. A lookup on another loop comes between two links, does not wait, and is told that its part does not exist |
| daemon_second (MCDaemonSecond), 2 commands | `docs/source/cli.rst:139`: "There is one per workspace" (OneDaemonPerWorkspace) | A probe gives up after a second (`workspace.py:84`). A daemon listens before it builds its session and accepts (`daemon.py:126`, `:169`, `:179`), so the launcher of a command that comes meanwhile takes it for dead, unlinks its socket and starts another one; both live. The same happens to one that dispatches a long request |

One run that passes contradicts a docstring: `project.py:1707` says that two passes over an assembly "also
overlap", because `do_instantiate` reads `children` "without a lock", and that both can "be walking the
same links". It reads them under both locks (`assembly.py:180`), and PutInOnce holds (derived_parts): the
docstring is older than the locks.

Why these bounds are enough. Each instance is the smallest in which the cases of its module meet:

- Lock: two waiting writers and a reader in one process (the announcement of one must survive the
  withdrawal of the other), and a writer elsewhere that only the lock file shows.
- Sandbox: one package that overwrites, one that is overwritten, one that brings the latter along and
  one that has to do with neither; a second render, which finds the markers of the first. Initial
  environments are all combinations of guards, so what many earlier renders could have left is there
  without having to be reached. One kill, because a second one finds nothing on disk that the first
  could not.
- Daemon: three commands, so that one finds a daemon, one starts it and one comes while it is killed or
  replaced; or two and a stopper, so that a daemon is stopped after another one took its place. One kill,
  after which the next command replaces the daemon.
- Staged: sub-assemblies at three depths, one shared by two, one that no tier accepts, one that memory
  keeps, one that gets lost once with something below it that does not, and a cycle of two.
- Shapes: a source that two parts of one assembly and an assembly of another client need, nesting of a
  compound over an assembly over parts, and a failing source as well as a failing derived part. Four
  threads are one more than the jobs that can wait for another job at once.
- Packages: three levels, so that a lookup walks through a package that somebody else is creating; a
  package that names a sibling, a sibling's child, one that names it back, and its own child; two
  threads of the pool, which meet each other and the client.
- Git: two importers of a copy in different processes and two in one, or of a repository that has no
  commit at first and may get one; one retry; two versions, so that
  a copy can be out of date while it is updated (MaxVersion, MaxRetries and MaxInterrupts are bounds).
- Derived parts: a part that occurs twice in its tree, and two links, so that a lookup can come between
  them; two requests on one loop, which the loop's lock is for, and a caller without a loop.
- Sessions: four commands are a long history of one folder (a context is built, edited under, dropped,
  rebuilt), or three that overlap and one that comes later; one edit by hand (MaxByHand).
- Slots: one slot more than the other shapes' files that the stopped loop can be writing, which is the
  boundary: with one slot less it is a deadlock (OneSlot, below).

Fairness is always weak fairness of steps that the code repeats or that a scheduler owes it:

- EnvironmentLock: polls are repeated for ever, `finally` clauses run, and a body ends because a
  wrapper exits or is killed at its timeout. Nobody has to ask, to cancel or to crash. Strong fairness
  is not assumed: a task may sleep through every chance it gets, which is why no single install is
  promised its turn, only some install.
- SandboxInstall, StagedBuild: a task or client that can go on does. Starting a render or a command is
  never forced; once it is started, it goes on.
- WorkspaceDaemon: some step of some command, daemon process or stop thread is taken when one can be,
  which is weaker than fairness of each. Stoppers and kills are never forced. That a probe or a
  dispatch ends is its time limit, or the end of an operation.
- ShapeBuild, PackageLoading, DerivedParts and SandboxSlots: some step of some request, thread, factory
  or task is taken when one can be. This is weaker than fairness of each of them and is enough, since
  each step takes somebody further and there are finitely many. Nobody is forced to cancel a request,
  and no loop to close.
- GitCheckout: some importer's step is taken when one can be. An interruption is not such a step, and
  neither are the health check and the passing of time.
- SessionContexts has no liveness property and no fairness.

Other executions of the code that the models show, for whoever changes these parts. None of them is
among the runs; the hazards in `PROJECT.json` point at the lines.

Sandboxes and slots:

- `needs_reassert` is read before the write lock is waited for (`runtime_python.py:973`): if build123d
  is installed meanwhile, pip is not forced, and `record_install` clears the marker that asked for it,
  so that a settled sandbox may lack what `sandbox_versions.py:126` says wins in the end.
  GuardsTellTheTruth is false of a setting that is not Careful.
- A task without a session takes the lock once for each package (`runtime_python.py:979`). Between its
  build123d and the cadquery-ocp that mends it, a wrapper of a session that needs nothing installed may
  run out of the same environment: RunsOnItsNeeds is false when some tasks pass a session on and some do
  not.
- Which lock a run takes is settled before the wait (`runtime_python.py:713`) and whether it installs
  after it: with one session that two queries share, and one of them turns to its v-env in between,
  packages are installed under the reader's half of the other environment's lock, which `:1064` calls
  "a run installing behind the back of every wrapper reading it": InstallsHoldTheEnvironment is false
  without OwnSessions.
- A pip that fails is recorded as an install (`runtime_python.py:943`), and a kill between pip and the
  markers (`:936`) leaves overwritten files that no marker demands back: GuardsTellTheTruth is about
  neither.
- Requirements declared in a session that the run is not given (`part_factory_build123d.py:109`) are
  not there when it runs: RunsOnItsNeeds is false of a task with a session that is not in
  `runsInSession`.
- `sandbox_lock.py:243` awaits a slot inside an environment lock, on a loop whose thread another task
  can stop on a shape's lock. A slot's holder whose loop is stopped does not give it back, and SlotHoldersRun
  is false even in the checked settings. With as many such holders as slots (OneSlot in
  MCSandboxSlots), or with an install of the stopped loop that has conda's lock (NotInstalled), the job
  that the loop is stopped on never gets its own slot or lock, and RendersEnd is false.

Daemon and sessions:

- A daemon that was taken for dead goes on, and so do those that are connected to it. If it writes its
  pid late, the pid file names it and not the one behind the socket. When it is stopped (by a
  signal, or because it was asked before), it unlinks the socket and the pid file without asking whose they
  are by then (`socket_server.py:207`, `daemon.py:181`), and the one that took its place is unreachable.
  A command that comes between the unlinking and the new socket runs without a daemon. These are the
  exceptions that DaemonKeepsItsAddress, PidFileNamesTheDaemon and CommandsShareTheDaemon name.
- `wait_until_stopped` reads the pid after the stop was acknowledged, when the file may be gone
  (`partcad_client/daemon.py:164`): StoppedMeansGone is false with one stopper.
- A context's name is a hash of its root only (`operations.py:1886`): a client with another
  configuration replaces the context between another one's `context.create` and its command, which then
  runs under a configuration that is not "always yours" (`docs/source/cli.rst:28`). OwnConfiguration
  allows for this, and for nothing else. In StagedBuild, AnswersFromOwnGraph is false of two
  configurations, and so is FailsOnlyOnACycle: what a client has asked for, and may not ask for again,
  was built into a context that is gone.
- An entry that gets lost from a tier takes no request with it: whoever places it next builds it inline,
  and with it whatever below it memory and the tiers do not hold. RequestsStaySmall therefore allows for
  what lies below an entry that got lost, and is false without that.
- `convert_object` rewrites the declaration and evicts nothing (`operations.py:3615`), though
  `_invalidate_context` is there to "Drop the cached context after a mutation so the next command re-reads
  it" (`:629`); a context of the same package under another folder's id is never evicted; and an edit by
  hand is not noticed. A later command is answered without such an edit, until something else evicts:
  AnswersAreFresh owes a command only what was in the file when an operation of its folder last evicted.
- Over HTTP (`http.py:54`), two edits read the same file and one is lost, a context is stored after the
  edit that would have evicted it, and is found before its configuration is noted
  (`operations.py:1913`, `:1916`): EditsAreKept is false of two commands that edit, and AnswersAreFresh
  of two that read beside one that edits. A context dropped between its creation and the answer is a KeyError
  (`:1920`), reported as an internal error.

Shapes, packages, copies and trees:

- A part that derives from another one keeps its thread while it waits for that one's job
  (`part_factory_extrude.py:75`): as many such parts as threads wait for ever, though
  `sync_threads.py:54` says that "we should not dead lock ourselves on a machine with a small number of
  cores".
- When one child of an assembly fails, its siblings' requests are cancelled and their locks freed, but
  their jobs run on (`assembly.py:260`): another client's request may then run a second job of the same
  shape.
- Two clients, one asking for a panel and a part that derives from it and one for that part, can stop
  each other's loops on the two locks of `Shape.locked` (`shape.py:392`), with any number of threads:
  BuildsEnd is false of that graph.
- The check for a recursive import comes after its lock, which is not re-entrant (`context.py:522`,
  `:528`): a package that comes to need itself is not reported, its thread waits for itself, and
  NobodyWaitsForItself is false. Two threads that load packages which name others can wait for each
  other's package lock and the context's (`:678`).
- A health check that looks at a lock file, and removes it after an importer took it, lets another
  importer in (`stale_git_locks.py:70`), though "a live lock must never be removed" (`:69`):
  LiveLocksStay is false, and with a second importer OneAtEachCopy.
- A reset that fails half way (`project_factory_git.py:914`, `:950`) is caught as any network failure
  (`:970`): when the attempts are used up, the torn files are handed out as "the previous copy" (`:987`).
  FoundIsWhole is about imports that did not fall back.
- The HEAD of a repository without a commit cannot be read once it is cloned (`:1002`, `:836`), after the
  clean-up of `_clone_repo` (`:785`) is over: the import raises, the directory stays without a guard, and
  every later import that is not forced raises for want of it, also when the repository has a commit.
- An importer that is interrupted while it clones leaves a directory without a guard, which every later
  import fails on: NothingIsLeftBehind is false. One that is interrupted while it resets a copy that was
  not outdated, because the update was forced, leaves files of two versions under a valid guard:
  TornIsNotBelieved holds of updates that are not forced.
- A lookup of a derived part whose builder was cancelled finds it missing, and so does every later one,
  as the model counts as attempted (`project.py:1928`). The factory of the cancelled request runs on
  with the locks free (`assembly.py:193`) and may put the tree in a second time. Two loops can stop on
  each other's trees (`assembly.py:182`).

## 4. What is proved

TLAPS checks every theorem for all values of the constants that satisfy the module's assumption. The
assumptions are typing (which task is whose, finite sets of tasks for a lock, names for nobody that
are no names), and where a theorem needs more its ASSUME says so.

**Sandbox_proof, the lock.** LockTypeCorrect, NoCounterLeaks, InstallExcludes and Implementation, for any
finite set of tasks on any processes. The invariant is LockTypeOK /\ CountersAreExact /\ InstallIsAlone.
Exclusion is not inductive alone: a step asks the counters, not the tasks, so a writer's entry keeps
others out only if counters are exact, and a counter stays exact across a release only if the task it
was counted for is the one that leaves. Four lemmas say how the number of a process's tasks in a set
moves when one joins, leaves, or all of them die (Number*), and one lemma for each way a task can move
(ReaderEnters, WriterEnters, WriterAnnounces, WriterWithdraws, ReaderLeaves, WriterLeaves,
NobodyMoves) carries the invariant over; each action of the module is then one of these moves. From
the same invariant every step is a step of RWLock, or one it does not see (Announce, Withdraw,
FileFails, Cancel). A kill is RWLock's step by which some tasks leave at once.

**Sandbox_proof, the sandbox.** For any packages that overwrite and bring along any others, any number
of tasks, sessions and renders, any initial markers and, where the setting has them, failures and kills:

| Theorem | Property | Under |
|---|---|---|
| TypeCorrect | TypeOK | |
| LocksAreUsedAsPromised | UsesTheLocks | |
| InstallsAreAlone | InstallsHoldTheEnvironment | OwnSessions |
| NoIdleInstalls | InstallsOnlyWhatIsMissing | OwnSessions |
| GuardsAreTrue | GuardsTellTheTruth | OwnSessions, Careful |
| NeedsAreMet | RunsOnItsNeeds | OwnSessions, Careful, Declared |

LocksAreUsedAsPromised composes with Implementation: SandboxInstall needs nothing of a lock but RWLock,
and the lock as it is written provides it. The hypotheses are about what shapes do, and section 3 shows
an execution that violates the property without each of them. OwnSessions: no two tasks share a session,
as each factory makes its own. Careful: a task without a session needs nothing that is ever overwritten.
Declared: tasks pass their sessions on and, as `sandbox_versions.py` says of every install list, ask again
behind it for whatever a package overwrites. Careful and Declared ask nothing of a setting in which pip may
fail, of which the two properties promise nothing. TLC finds all three true of the settings that it checks.

The proof is in layers, each an invariant on top of the one before:

- AloneInv: every task is somewhere it can be (ControlOK); the two halves of a lock are had by exactly
  the tasks that are inside (LocksOK); and the half and the environment that a task settled on before it
  waited are still those that its session calls for (SessionsOK). The last is what a shared session
  breaks, and what InstallsAreAlone rests on: a task that may install then has the writing half.
- TruthInv: what a task read of a marker is so when it acts on it (ForceOK); nobody who reads before a
  wait needs to force anything (UnforcedOK); and every package behind a guard that no marker contradicts
  is whole, apart from the one that is being installed and what that one overwrites, of which it is said
  for each of the stretches between pip and the last marker what already holds (TruthOK).
- NeedsInv: which guards and markers exclude each other when (MarksOK); the runtime is provisioned once
  (ProvisionedOK); a session's list is what its task needs, mended, and what is left of it while it is
  installed is mended too (DeclaredOK); and whatever a session's list has and its task's run may rely on
  has a guard that nothing contradicts, or is still ahead in the list (NeedsOK). The cadquery-ocp at the
  end of each list is what carries this across an install of build123d by somebody else: whoever
  overwrote it holds the environment until it is there again.

**WorkspaceDaemon_proof.** TypeCorrect, AddressIsKept (DaemonKeepsItsAddress), OneDaemon, PidIsKept
(PidFileNamesTheDaemon) and OneDaemonServesAll (CommandsShareTheDaemon), for any number of commands,
stoppers and kills, and probes that time out whenever they can. One daemon for each workspace is not
what the code provides; the theorems say what divides the commands, and that nothing else does. The
invariant (theorem Rendezvous): launchers take turns under the flock (LaunchersTakeTurns), a daemon is
told to stop once it serves and leaves once it was told (StopsInOrder), whoever would be found behind the
socket is there unless it was taken for dead or robbed by one that was (HoldersAreFound), and a launcher
that is about to replace the socket is right about that (ProbesStayTrue). The pid file follows from the
moment that it is written (PidsAreKept). While nobody was killed or told to stop, daemons go on, so
whoever is connected is served (NobodyIsLetDown).

**StagedBuild_proof.** TypeCorrect, which needs that whoever calls has a context to call (Warm), and
BuiltOnce, that no entry which was not lost is built twice, whatever the assemblies place, cycles
included, for any number of clients and configurations. The invariant: whatever is cacheable, was
built and was not lost is in a tier; and what a request builds inline is in none. SmallRequests
(RequestsStaySmall), for all of them too: what is placed in something that was built on request was built
on request, or got lost (StagedIsClosed), and what a request builds is the least set that has the assembly
and what it places (BuiltOutOfIsLeast). OnlyCyclesFail (FailsOnlyOnACycle), under OneConfiguration: each of
a client's calls is for a part of what the call around it is for (CallsLeadDown), and what it has asked for
and is still told to build is the subject of a call under way (AskedIsUnderWay); so whoever gives up has
a chain of calls in which each is for a part of the one before it and the last for one that is there
already. That no induction over the graph is needed is due to Cyclic and Below, which are defined by the
sets that are closed under Places.

**ShapeBuild_proof.** TypeCorrect, BuildersAreAlone (OneBuilder) and NoRebuild (KeptIsNotRebuilt), for
any requests whose loops are those of the code (NeedsInOrder: a part's job has a loop of its own, an
assembly's children are on the assembly's), any number of threads, failures anywhere and loops that close at any time. Neither
lock alone is enough: the lock of threads lets all requests of one loop pass and the lock of a loop is
only seen on it. The invariant says that those past the first lock are on one loop (OneLoop), that
what is being built is not kept yet (NotThereYet), that a queued job was sent by a request that is
still building (SentByBuilder), and about the request tree that an inner request exists only while the
outer one builds or its job runs (ParentsFirst, JobsOfParts), which is what lets a closing loop free
its locks without a job of it being started afterwards.

**PackageLoading_proof.** TypeCorrect, NobodyHasAHalf (OnlyWholePackages), NoSecondLoad (LoadedOnce),
LockCountsLookups and EveryAnswerIsRight (AnswersAreRight), for any tree of packages, any declarations, failures and jobs, and any number of
threads. That the context's lock is held exactly over the lookups (ContextLockIsExact) is not visible in
the lock, which only counts; the invariant says what the stacks look like: the frames of a thread are
the thread and the packages it has locked, each was asked for by exactly one other frame (StacksOK), and
a frame that waits for an import waits for the package just above it (TopsOK). For the answers it adds
what each frame is after: a load asks only for what its package names (LoadsOK), a client for what its job
is (CallsOK), and whoever is about to be refused asks for something that cannot be had (RefusalsOK), be it
skipped, failing, made to fail by a mate, or under something that is.

**GitCheckout_proof.** TypeCorrect, CopiesAreExclusive (OneAtEachCopy), ConfigIsSafe, NoLeftovers
(FailuresLeaveNothing), CopiesAreSafe (CopiesStay) and HalfCopiesAreMended (TornIsNotBelieved,
FoundIsWhole), for any importers, processes, repositories with or without commits, failures, retries and
interruptions, under NoCleaners:
no health check removes lock files. It is needed, as section 3 shows. The invariant begins with what the
health check breaks, that whoever is at a copy has the lock on the file that is there (LiveLocksStay);
so what an importer finds out about a copy is still so at its next step (CopyFits, CopiesAreKept,
PartHasNoGuard), and who goes on has an attempt left for it (AttemptsLeft).

**DerivedParts_proof.** TypeCorrect, WaitersAreWoken (whoever waits for an event has a builder that is
on its way to set it and does not wait itself), TreesArePutInOnce (PutInOnce) and TreesAreGivenWhole
(TreesAreWhole), for any models, aliases, loops, failures and cancellations. Three invariants build on
each other: ClaimsInv, that a claim is held by a lookup which has yet to give it up; LocksInv, that the
requests past a tree's first lock are of one loop, of which one builds, and that an alias's factory
excludes them; TreesInv, that a tree is what the one factory at it has added so far, as long as no
factory is left behind. BuiltPartsAreFound (PartsAreFound) starts from LocksInv again (PartsInv): a part is
registered before its link is in the tree, so a tree that has children, or a factory that has passed a
link, has registered what came before, and a model whose event is set, or which was attempted and is
claimed by nobody, has all its parts, unless its file cannot be read or who built it was cancelled.

**SessionContexts_proof.** TypeCorrect, AnswersHaveEveryEdit (AnswersAreFresh), AnswersAreOnesOwn
(OwnConfiguration), RefusalsHaveReasons and NoEditIsLost (EditsAreKept), for any commands, folders,
configurations and edits by hand, under Serial: requests are dispatched one at a time, as over a socket
or stdio. The invariant rests on the turns (TurnsInv): nobody sees a context that is stored and not noted,
or a file that is emptied and not written. From it, what is stored is built for good (StoredInv) and as
new as the last edit of its folder (VersionsInv), commands that overlap have met (MetInv), the note tells
what a context was built with (ConfigsInv), whatever evicts has met those who lose (EvictedInv), and what
was written is in the file (WrittenInv).

Only model-checked: every liveness property (InstallGetsItsTurn, EveryRenderEnds, both CommandsEnd,
StoppedDaemonsGo, BuildsEnd, LoadsEnd, ImportsEnd, RequestsEnd, RendersEnd), since ENABLED and fairness
are out of the prover's reach, and with them all of SandboxSlots, whose one property is of that kind; and
SessionContexts where it is served over HTTP. Every safety invariant and action property of the runs that
end without a counterexample is stated by a theorem, under the conditions that its paragraph gives. The
settings that the runs choose satisfy those conditions, except that git_checkout also has a health check
beside an importer and session_contexts two commands over HTTP, for which the properties are checked in
the smaller cases in which they hold.

## 5. What the models leave out

- EnvironmentLock: the interval between two polls. Several locks held by one task at a time are in
  SandboxSlots.
- SandboxInstall: reconciliation of requirements, interpreters, the texts of requirements, the
  reporting of `pip check`. Polling is waiting: a task enters when RWLock lets it. One PartCAD process.
- WorkspaceDaemon: the Windows named pipe, the bound on a client's silence, what requests contain. The
  probe's and the stopper's time limits are nondeterministic, and a command connects once. A signal
  between the handlers and the accept loop counts as one after it; one before the handlers is a kill.
- StagedBuild: a request is one step, so what the daemon reports as cached is still so when it is
  used; a build that fails; an entry that is lost while a request runs.
- ShapeBuild: what is built is kept (in memory or in a tier); the pool that assemblies are put together
  on is never the bottleneck; requests of a task that already holds the lock pass, as the code's
  re-entrant lock has it, and are not listed; the pool's queue has no order.
- PackageLoading: objects of a package that are created on demand, edits of a package, what a
  configuration says beyond the names in it, the packages of `//builtin`. Fetching a package's files is
  one step that may fail, with an exception: an import that returns None because nothing was registered
  (`context.py:559`) counts as one, and a package whose file does not parse (`:571`) as any other.
- GitCheckout: which refs and how much history a download asks for; credentials; the wait between two
  attempts; how the operating system orders two processes that wait for a lock file.
- DerivedParts: groups of links within a model, links whose part does not register (the code skips them,
  `assembly_factory_imported.py:366`), placements, ASSY files (whose children are declared), the
  size of the detached pool.
- SessionContexts: requests without an id, which have a default context; what a context loads and when;
  several daemons.
- SandboxSlots: the gate of lint, which is another instance of the same class, and the budgets of a
  document and of a recursive render, which are held around leaves only; callers without a loop, which
  poll from a thread of their own; installs that fail (SandboxInstall has them).

## 6. Plan

In this order; the first items are what the modelled parts rest on.

1. **DaemonCalls**: silence, events and the ask channel of a call that waits for another one's
   (`client.py:52`), on top of WorkspaceDaemon's dispatch lock.
2. **PooledClient** (`cache_backend.py:207`): the client that the requests of one loop share, with the
   count of its users; and a cache tier that fails or forgets in the middle of a request.
3. **PluginDeadline** (`plugin.py:98`), **NodeSandbox** (`runtime_javascript.py:435`), and the conda
   sandbox's retries.
4. Abstract specifications: a build cache that hands every request the one result of a shape (for
   ShapeBuild to implement), and a server that answers each command once (for StagedBuild).
5. Proofs: the order on the locks, threads and slots under which no loop of ShapeBuild or SandboxSlots
   waits for itself; FailsOnlyOnACycle of several configurations that do not take turns; what
   GitCheckout's importers keep to when a health check runs beside them.
