--------------------------- MODULE SandboxInstall ----------------------------
(***************************************************************************)
(* How PythonRuntime (src/partcad/runtime_python.py) provisions the Python *)
(* sandbox and runs wrappers out of it.  There are two environments: the   *)
(* runtime's own one and the v-env that all the shapes of a package share. *)
(* What is installed is recorded by marker files beside the environment: a *)
(* guard says that a package is there, and a reassert marker says that its *)
(* files were overwritten by a later install and have to be forced back.   *)
(*                                                                         *)
(* A task renders one shape: it provisions the runtime (once), asks for    *)
(* the packages that it needs (ensure), takes the lock over the            *)
(* environment that it runs out of, installs what is missing there, and    *)
(* runs its wrapper.  The lock is used as RWLock promises it.  Against the *)
(* markers stands `intact`, which no code can see: the packages whose      *)
(* files on disk really are what their install wrote.                      *)
(***************************************************************************)
EXTENDS Integers, Sequences, SequencesExt, FiniteSets

CONSTANTS
    Task, Session,
    NoSession,
    Package,
    Preinstall,    \* what once() installs into a sandbox that is new
    Clobbers,      \* Clobbers[p]: packages whose files p overwrites
    Brings,        \* Brings[p]: packages that pip installs along with p
    Renders,       \* how many times each task renders its shape
    Setting        \* what the tasks do and what may go wrong, see SettingOK

\* sessionOf:     the session a task declares its needs to, or NoSession
\* runsInSession: the tasks that pass their session on to run_async()
\* needs:         the packages a task ensures, in order
\* pipMayFail:    whether a pip install may exit with an error
\* maxCrashes:    how often PartCAD may be killed
\* venvMayExist:  whether an earlier PartCAD may have left a v-env
SettingOK(s) ==
    /\ s.sessionOf \in [Task -> Session \cup {NoSession}]
    /\ s.runsInSession \subseteq {t \in Task : s.sessionOf[t] # NoSession}
    /\ s.needs \in [Task -> Seq(Package)]
    /\ s.pipMayFail \in BOOLEAN /\ s.venvMayExist \in BOOLEAN
    /\ s.maxCrashes \in Nat

ASSUME SandboxAssumption ==
    /\ \A s \in Setting : SettingOK(s)
    /\ NoSession \notin Session
    /\ Clobbers \in [Package -> SUBSET Package]
    /\ Brings \in [Package -> SUBSET Package]
    /\ Preinstall \in Seq(Package)
    /\ Renders \in Nat

Base == "runtime"
Venv == "v-env"
Environment == {Base, Venv}

VARIABLES
    setting,
    \* on disk, per environment
    exists,      \* the directory is there
    guard,       \* .partcad.installed.* markers
    reassert,    \* .partcad.reassert.* markers
    recorded,    \* the distributions that pip takes for installed
    intact,      \* the packages whose files are what their install wrote
    \* in the memory of PartCAD
    initialized, \* the directory was there when the runtime was created
    provisioned, \* once() has run to completion
    \* of each session
    deps,        \* what was declared to it, in order
    installed,   \* what of it has been put into the v-env
    dirty,       \* it runs out of the v-env
    \* the environment locks
    reading, writing,
    \* the tasks
    pc, phase,
    todo,        \* the packages the task has still to ensure
    force,       \* the install at hand was found to need forcing
    lockOn,      \* the environment whose lock the task takes
    write,       \* it takes it for writing
    runsIn,      \* the environment whose interpreter runs the wrapper
    renders, crashes

disk == <<exists, guard, reassert, recorded, intact>>
memory == <<initialized, provisioned, deps, installed, dirty>>
locks == <<reading, writing>>
control == <<pc, phase, todo, force, lockOn, write, runsIn>>
counts == <<renders, crashes, setting>>
vars == <<disk, memory, locks, control, counts>>

\* The environment that the packages of a task go to, and that it runs out of.
At(t) == IF phase[t] = "deps" THEN Venv ELSE Base
RunsOutOf(t) == IF t \in setting.runsInSession /\ dirty[setting.sessionOf[t]]
                THEN Venv ELSE Base

Go(t, place) == pc' = [pc EXCEPT ![t] = place]

Dependents(P, f) == UNION {f[p] : p \in P}

\* Both environments are new or as an earlier PartCAD left them: it may have pinned
\* other versions than this one does, and so have guards for some packages only.
Init ==
    /\ setting \in Setting
    /\ exists \in [Environment -> BOOLEAN]
    /\ guard \in [Environment -> SUBSET Package]
    /\ reassert = [e \in Environment |-> Dependents(guard[e], Clobbers) \ guard[e]]
    /\ recorded = [e \in Environment |-> guard[e] \cup Dependents(guard[e], Brings)]
    /\ intact = [e \in Environment |-> recorded[e] \ reassert[e]]
    /\ \A e \in Environment : exists[e] \/ guard[e] = {}
    /\ exists[Venv] => exists[Base] /\ setting.venvMayExist
    /\ initialized = exists[Base]
    /\ provisioned = FALSE
    /\ deps = [s \in Session |-> <<>>]
    /\ installed = [s \in Session |-> {}]
    /\ dirty = [s \in Session |-> FALSE]
    /\ reading = [e \in Environment |-> {}]
    /\ writing = [e \in Environment |-> {}]
    /\ pc = [t \in Task |-> "idle"]
    /\ phase = [t \in Task |-> "once"]
    /\ todo = [t \in Task |-> <<>>]
    /\ force = [t \in Task |-> FALSE]
    /\ lockOn = [t \in Task |-> Base]
    /\ write = [t \in Task |-> FALSE]
    /\ runsIn = [t \in Task |-> Base]
    /\ renders = [t \in Task |-> 0]
    /\ crashes = 0

-----------------------------------------------------------------------------
(* The lock over an environment, as RWLock has it.                         *)

Acquire(t, e, w) ==
    /\ writing[e] = {} /\ (w => reading[e] = {})
    /\ writing' = IF w THEN [writing EXCEPT ![e] = @ \cup {t}] ELSE writing
    /\ reading' = IF w THEN reading ELSE [reading EXCEPT ![e] = @ \cup {t}]

ReleaseLock(t) ==
    /\ writing' = [e \in Environment |-> writing[e] \ {t}]
    /\ reading' = [e \in Environment |-> reading[e] \ {t}]

-----------------------------------------------------------------------------
(* once(): provision the runtime, one task at a time.                      *)

StartPreparing(t) == /\ phase' = [phase EXCEPT ![t] = "prepare"]
                     /\ todo' = [todo EXCEPT ![t] = setting.needs[t]]
                     /\ Go(t, "ensure")

Begin(t) ==
    /\ pc[t] = "idle" /\ renders[t] < Renders
    /\ renders' = [renders EXCEPT ![t] = @ + 1]
    /\ \/ /\ provisioned
          /\ StartPreparing(t)
          /\ UNCHANGED <<lockOn, write>>
       \/ /\ ~provisioned
          /\ phase' = [phase EXCEPT ![t] = "once"]
          /\ lockOn' = [lockOn EXCEPT ![t] = Base]
          /\ write' = [write EXCEPT ![t] = TRUE]
          /\ Go(t, "wait")
          /\ UNCHANGED todo
    /\ UNCHANGED <<disk, memory, locks, force, runsIn, crashes, setting>>

EnterOnce(t) ==
    /\ pc[t] = "wait" /\ phase[t] = "once"
    /\ Acquire(t, Base, TRUE)
    /\ exists' = [exists EXCEPT ![Base] = TRUE]
    /\ todo' = [todo EXCEPT ![t] = IF initialized THEN <<>> ELSE Preinstall]
    /\ Go(t, "ensure")
    /\ UNCHANGED <<guard, reassert, recorded, intact, memory, phase, force, lockOn,
                   write, runsIn, counts>>

FinishOnce(t) ==
    /\ pc[t] = "ensure" /\ phase[t] = "once" /\ todo[t] = <<>>
    /\ initialized' = TRUE /\ provisioned' = TRUE
    /\ ReleaseLock(t)
    /\ StartPreparing(t)
    /\ UNCHANGED <<disk, deps, installed, dirty, force, lockOn, write, runsIn, counts>>

-----------------------------------------------------------------------------
(* ensure(): record that a session needs a package, or install it.         *)

\* With a session nothing is installed yet: the need is noted, and a need that
\* the runtime's own environment does not meet turns the session to its v-env.
Declare(t) ==
    LET s == setting.sessionOf[t] p == Head(todo[t]) IN
    /\ pc[t] = "ensure" /\ phase[t] = "prepare" /\ todo[t] # <<>> /\ s # NoSession
    /\ deps' = [deps EXCEPT ![s] = Append(@, p)]
    /\ dirty' = [dirty EXCEPT ![s] = @ \/ p \notin guard[Base]]
    /\ todo' = [todo EXCEPT ![t] = Tail(@)]
    /\ UNCHANGED <<disk, initialized, provisioned, installed, locks, pc, phase, force,
                   lockOn, write, runsIn, counts>>

ReadNothing(t) ==      \* nothing is ever forced
    /\ pc[t] = "ensure" /\ todo[t] # <<>>
    /\ phase[t] = "prepare" => setting.sessionOf[t] = NoSession
    /\ Go(t, "look")
    /\ UNCHANGED <<disk, memory, locks, phase, todo, force, lockOn, write, runsIn, counts>>

\* Without one, whether the install has to be forced is read first ...
ReadReassert(t) ==
    /\ pc[t] = "ensure" /\ todo[t] # <<>>
    /\ phase[t] = "prepare" => setting.sessionOf[t] = NoSession
    /\ force' = [force EXCEPT ![t] = Head(todo[t]) \in reassert[At(t)]]
    /\ Go(t, "look")
    /\ UNCHANGED <<disk, memory, locks, phase, todo, lockOn, write, runsIn, counts>>

HoldsInRuntime(t, p) == ~force[t] /\ p \in guard[Base]  \* the wrong environment
Holds(t, p) == ~force[t] /\ p \in guard[At(t)]

LookUnlocked(t) ==     \* whoever misses a package installs it at once
    /\ pc[t] = "look"
    /\ \/ /\ Holds(t, Head(todo[t]))
          /\ todo' = [todo EXCEPT ![t] = Tail(@)]
          /\ Go(t, "ensure")
       \/ /\ ~Holds(t, Head(todo[t]))
          /\ Go(t, "pip")
          /\ UNCHANGED todo
    /\ UNCHANGED <<disk, memory, locks, phase, force, lockOn, write, runsIn, counts>>

\* ... and then whether the package is there; outside once() and run() the lock
\* is only taken to install.
Look(t) ==
    /\ pc[t] = "look"
    /\ IF Holds(t, Head(todo[t]))
       THEN /\ todo' = [todo EXCEPT ![t] = Tail(@)]
            /\ Go(t, "ensure")
            /\ UNCHANGED <<lockOn, write>>
       ELSE /\ Go(t, IF phase[t] = "prepare" THEN "wait" ELSE "pip")
            /\ lockOn' = IF phase[t] = "prepare" THEN [lockOn EXCEPT ![t] = Base]
                                                  ELSE lockOn
            /\ write' = IF phase[t] = "prepare" THEN [write EXCEPT ![t] = TRUE]
                                                 ELSE write
            /\ UNCHANGED todo
    /\ UNCHANGED <<disk, memory, locks, phase, force, runsIn, counts>>

\* The package may have been installed while the task waited for the lock.
EnterInstall(t) ==
    /\ pc[t] = "wait" /\ phase[t] = "prepare"
    /\ Acquire(t, Base, TRUE)
    /\ Go(t, "recheck")
    /\ UNCHANGED <<disk, memory, phase, todo, force, lockOn, write, runsIn, counts>>

Recheck(t) ==
    /\ pc[t] = "recheck"
    /\ IF Holds(t, Head(todo[t]))
       THEN /\ todo' = [todo EXCEPT ![t] = Tail(@)]
            /\ Go(t, "ensure")
            /\ ReleaseLock(t)
       ELSE /\ Go(t, "pip")
            /\ UNCHANGED <<todo, locks>>
    /\ UNCHANGED <<disk, memory, phase, force, lockOn, write, runsIn, counts>>

-----------------------------------------------------------------------------
(* pip and the markers.                                                    *)

\* What a pip install puts on disk: nothing when it takes the package for
\* installed already, unless it is forced to.
Puts(p, e, forced) == IF forced THEN {p} \cup Brings[p]
                      ELSE IF p \in recorded[e] THEN {}
                      ELSE {p} \cup (Brings[p] \ recorded[e])
Breaks(p, e, forced) == IF p \in Puts(p, e, forced) THEN Clobbers[p] ELSE {}

\* While pip writes, neither what it puts nor what it breaks is whole.
PipStarts(t) ==
    LET p == Head(todo[t]) e == At(t) IN
    /\ pc[t] = "pip"
    /\ intact' = [intact EXCEPT ![e] =
                    @ \ (Puts(p, e, force[t]) \cup Breaks(p, e, force[t]))]
    /\ Go(t, "pipping")
    /\ UNCHANGED <<exists, guard, reassert, recorded, memory, locks, phase, todo, force,
                   lockOn, write, runsIn, counts>>

PipEnds(t) ==
    LET p == Head(todo[t]) e == At(t) IN
    /\ pc[t] = "pipping"
    /\ intact' = [intact EXCEPT ![e] = @ \cup Puts(p, e, force[t])]
    /\ recorded' = [recorded EXCEPT ![e] = @ \cup Puts(p, e, force[t])]
    /\ Go(t, "touch")
    /\ UNCHANGED <<exists, guard, reassert, memory, locks, phase, todo, force, lockOn,
                   write, runsIn, counts>>

\* pip finds nothing to install from and leaves the environment alone; its exit
\* code is not looked at.
PipFails(t) ==
    /\ setting.pipMayFail
    /\ pc[t] = "pip"
    /\ Go(t, "touch")
    /\ UNCHANGED <<disk, memory, locks, phase, todo, force, lockOn, write, runsIn, counts>>

TouchGuardOrRetry(t) ==  \* pip is tried until it has installed something
    /\ pc[t] = "touch"
    /\ IF Head(todo[t]) \in recorded[At(t)]
       THEN /\ guard' = [guard EXCEPT ![At(t)] = @ \cup {Head(todo[t])}]
            /\ Go(t, "clear")
            /\ UNCHANGED locks
       ELSE /\ Go(t, "ensure")
            /\ IF phase[t] = "prepare" THEN ReleaseLock(t) ELSE UNCHANGED locks
            /\ UNCHANGED guard
    /\ UNCHANGED <<exists, reassert, recorded, intact, memory, phase, todo, force,
                   lockOn, write, runsIn, counts>>

\* record_install(): four marker files in a row, the last two only for a package
\* that overwrites others.
TouchGuard(t) ==
    /\ pc[t] = "touch"
    /\ guard' = [guard EXCEPT ![At(t)] = @ \cup {Head(todo[t])}]
    /\ Go(t, "clear")
    /\ UNCHANGED <<exists, reassert, recorded, intact, memory, locks, phase, todo, force,
                   lockOn, write, runsIn, counts>>

PackageDone(t) ==
    /\ todo' = [todo EXCEPT ![t] = Tail(@)]
    /\ Go(t, "ensure")
    /\ IF phase[t] = "prepare" THEN ReleaseLock(t) ELSE UNCHANGED locks

ClearReassertOnly(t) ==  \* nothing is said of what the install overwrote
    /\ pc[t] = "clear"
    /\ reassert' = [reassert EXCEPT ![At(t)] = @ \ {Head(todo[t])}]
    /\ PackageDone(t)
    /\ UNCHANGED <<exists, guard, recorded, intact, memory, phase, force, lockOn, write,
                   runsIn, counts>>

ClearReassert(t) ==
    LET p == Head(todo[t]) IN
    /\ pc[t] = "clear"
    /\ reassert' = [reassert EXCEPT ![At(t)] = @ \ {p}]
    /\ \/ Clobbers[p] = {} /\ PackageDone(t)
       \/ Clobbers[p] # {} /\ Go(t, "drop") /\ UNCHANGED <<todo, locks>>
    /\ UNCHANGED <<exists, guard, recorded, intact, memory, phase, force, lockOn, write,
                   runsIn, counts>>

DropGuards(t) ==
    /\ pc[t] = "drop"
    /\ guard' = [guard EXCEPT ![At(t)] = @ \ Clobbers[Head(todo[t])]]
    /\ Go(t, "demand")
    /\ UNCHANGED <<exists, reassert, recorded, intact, memory, locks, phase, todo, force,
                   lockOn, write, runsIn, counts>>

DemandReassert(t) ==
    /\ pc[t] = "demand"
    /\ reassert' = [reassert EXCEPT ![At(t)] = @ \cup Clobbers[Head(todo[t])]]
    /\ PackageDone(t)
    /\ UNCHANGED <<exists, guard, recorded, intact, memory, phase, force, lockOn, write,
                   runsIn, counts>>

-----------------------------------------------------------------------------
(* run(): install what the session still needs, then run the wrapper.      *)

NeedsInstall(t) == /\ t \in setting.runsInSession
                   /\ dirty[setting.sessionOf[t]]
                   /\ LET s == setting.sessionOf[t] IN ~(Range(deps[s]) \subseteq installed[s])

\* Which lock, and which half of it, is settled before the wait.
AskToRun(t) ==
    /\ pc[t] = "ensure" /\ phase[t] = "prepare" /\ todo[t] = <<>>
    /\ phase' = [phase EXCEPT ![t] = "run"]
    /\ lockOn' = [lockOn EXCEPT ![t] = RunsOutOf(t)]
    /\ write' = [write EXCEPT ![t] = NeedsInstall(t)]
    /\ Go(t, "wait")
    /\ UNCHANGED <<disk, memory, locks, todo, force, runsIn, counts>>

\* Inside, the question is asked again.
EnterRun(t) ==
    /\ pc[t] = "wait" /\ phase[t] = "run"
    /\ Acquire(t, lockOn[t], write[t])
    /\ IF NeedsInstall(t)
       THEN /\ phase' = [phase EXCEPT ![t] = "deps"]
            /\ exists' = [exists EXCEPT ![Venv] = TRUE]
            /\ todo' = [todo EXCEPT ![t] = deps[setting.sessionOf[t]]]
            /\ Go(t, "ensure")
            /\ UNCHANGED runsIn
       ELSE /\ runsIn' = [runsIn EXCEPT ![t] = RunsOutOf(t)]
            /\ Go(t, "running")
            /\ UNCHANGED <<phase, exists, todo>>
    /\ UNCHANGED <<guard, reassert, recorded, intact, memory, force, lockOn, write, counts>>

DepsInstalled(t) ==
    LET s == setting.sessionOf[t] IN
    /\ pc[t] = "ensure" /\ phase[t] = "deps" /\ todo[t] = <<>>
    /\ installed' = [installed EXCEPT ![s] = @ \cup Range(deps[s])]
    /\ phase' = [phase EXCEPT ![t] = "run"]
    /\ runsIn' = [runsIn EXCEPT ![t] = Venv]
    /\ Go(t, "running")
    /\ UNCHANGED <<disk, initialized, provisioned, deps, dirty, locks, todo, force, lockOn,
                   write, counts>>

\* The wrapper exits, or is killed at its timeout.
RunEnds(t) ==
    /\ pc[t] = "running"
    /\ ReleaseLock(t)
    /\ Go(t, "idle")
    /\ UNCHANGED <<disk, memory, phase, todo, force, lockOn, write, runsIn, counts>>

\* PartCAD is killed, and what it was running with it; the next one starts from
\* what is on disk.
Crash ==
    /\ crashes < setting.maxCrashes
    /\ \E t \in Task : pc[t] # "idle"
    /\ crashes' = crashes + 1
    /\ initialized' = exists[Base]
    /\ provisioned' = FALSE
    /\ deps' = [s \in Session |-> <<>>]
    /\ installed' = [s \in Session |-> {}]
    /\ dirty' = [s \in Session |-> FALSE]
    /\ reading' = [e \in Environment |-> {}]
    /\ writing' = [e \in Environment |-> {}]
    /\ pc' = [t \in Task |-> "idle"]
    /\ todo' = [t \in Task |-> <<>>]
    /\ UNCHANGED <<disk, phase, force, lockOn, write, runsIn, renders, setting>>

Terminated == /\ \A t \in Task : pc[t] = "idle" /\ renders[t] = Renders
              /\ UNCHANGED vars

Step(t) ==
    \/ EnterOnce(t) \/ FinishOnce(t)
    \/ Declare(t) \/ ReadReassert(t) \/ Look(t) \/ EnterInstall(t) \/ Recheck(t)
    \/ PipStarts(t) \/ PipEnds(t) \/ PipFails(t)
    \/ TouchGuard(t) \/ ClearReassert(t) \/ DropGuards(t) \/ DemandReassert(t)
    \/ AskToRun(t) \/ EnterRun(t) \/ DepsInstalled(t) \/ RunEnds(t)

Next == (\E t \in Task : Begin(t) \/ Step(t)) \/ Crash \/ Terminated

Spec == Init /\ [][Next]_vars

\* A task that can go on does: threads and event loops are scheduled, polls are
\* repeated, pip and the wrappers end.  Nobody has to start a render.
FairSpec == Spec /\ \A t \in Task : WF_vars(Step(t))

-----------------------------------------------------------------------------
Places == {"idle", "wait", "ensure", "look", "recheck", "pip", "pipping", "touch",
           "clear", "drop", "demand", "running"}

TypeOK ==
    /\ setting \in Setting
    /\ exists \in [Environment -> BOOLEAN]
    /\ \A m \in {guard, reassert, recorded, intact} : m \in [Environment -> SUBSET Package]
    /\ initialized \in BOOLEAN /\ provisioned \in BOOLEAN
    /\ deps \in [Session -> Seq(Package)] /\ installed \in [Session -> SUBSET Package]
    /\ dirty \in [Session -> BOOLEAN]
    /\ \A m \in {reading, writing} : m \in [Environment -> SUBSET Task]
    /\ pc \in [Task -> Places]
    /\ phase \in [Task -> {"once", "prepare", "run", "deps"}]
    /\ todo \in [Task -> Seq(Package)]
    /\ force \in [Task -> BOOLEAN] /\ write \in [Task -> BOOLEAN]
    /\ lockOn \in [Task -> Environment] /\ runsIn \in [Task -> Environment]
    /\ renders \in [Task -> 0 .. Renders] /\ crashes \in 0 .. setting.maxCrashes

\* The tasks that are changing an environment.
Installing(e) == {t \in Task : /\ At(t) = e
                               /\ pc[t] \in {"pipping", "touch", "clear", "drop", "demand"}}

\* Whoever changes an environment holds it for writing, so that no wrapper runs
\* out of it and nobody else installs into it meanwhile
\* (session_needs_install, sync_lock).
InstallsHoldTheEnvironment ==
    \A e \in Environment : \A t \in Installing(e) :
        /\ writing[e] = {t} /\ Installing(e) = {t}
        /\ \A u \in Task : pc[u] = "running" => u = t \/ runsIn[u] # e

\* pip installs what it is asked to, and nobody has killed PartCAD.
Reliable == ~setting.pipMayFail /\ crashes = 0

\* A wrapper runs on what its shape asked for: every package that the task
\* ensured is there, whole, for as long as the wrapper runs, whoever installed
\* what into the shared v-env before it or waits to, as long as pip is reliable
\* (run_onced).
RunsOnItsNeeds ==
    Reliable => \A t \in Task :
        pc[t] = "running" => Range(setting.needs[t]) \subseteq intact[runsIn[t]]

\* When nobody installs, a guard that no reassert marker contradicts is true: the
\* package is there and no later install has overwritten it, as long as pip is
\* reliable (installed_onced, GUARD_INVALIDATED_BY).
GuardsTellTheTruth ==
    Reliable => \A e \in Environment :
        Installing(e) = {} => guard[e] \ reassert[e] \subseteq intact[e]

\* pip only runs for a package that is missing or was overwritten: a session
\* whose needs are met does not install again, whatever the others of its
\* package do (record_install, session_needs_install).
InstallsOnlyWhatIsMissing ==
    [][\A t \in Task : LET p == Head(todo[t]) e == At(t) IN
        setting.sessionOf[t] # NoSession /\ pc[t] = "pip" /\ pc'[t] # "pip" =>
            p \notin guard[e] \/ p \in reassert[e]]_vars

\* No order of locks, installs and runs leaves a render waiting for ever.
EveryRenderEnds == \A t \in Task : pc[t] # "idle" ~> pc[t] = "idle"

\* Over each environment the tasks, all of one process, do with the lock what RWLock
\* lets them do (sync_lock, async_lock).
RuntimeLock == INSTANCE RWLock WITH Process <- {"PartCAD"}, Home <- [t \in Task |-> "PartCAD"],
                   reading <- reading[Base], writing <- writing[Base]
VenvLock == INSTANCE RWLock WITH Process <- {"PartCAD"}, Home <- [t \in Task |-> "PartCAD"],
                reading <- reading[Venv], writing <- writing[Venv]
UsesTheLocks == RuntimeLock!RWSpec /\ VenvLock!RWSpec

-----------------------------------------------------------------------------
(* What the proofs ask of the settings: SandboxInstall's properties are    *)
(* false of others, see the README.                                        *)

\* A session is the one of one task, as a factory's is of its shape.
OwnSessions ==
    \A s \in Setting : \A t, u \in Task :
        s.sessionOf[t] # NoSession /\ s.sessionOf[t] = s.sessionOf[u] => t = u

\* Unless pip may fail anyhow, a task without a session needs nothing that is ever
\* overwritten: whether it has to force it is read before it has the lock.
Overwritten == UNION {Clobbers[p] : p \in Package}
Careful(s) == s.pipMayFail \/ \A t \in Task :
                  s.sessionOf[t] = NoSession => Range(s.needs[t]) \cap Overwritten = {}

\* Whatever a package overwrites is asked for again behind it: "Every install list in
\* this package therefore ends with CADQUERY_OCP" (sandbox_versions.py).
Mended(q) == \A i \in 1 .. Len(q) : \A c \in Clobbers[q[i]] :
                 \E j \in i + 1 .. Len(q) : q[j] = c

\* Unless pip may fail anyhow, every task passes a session on, and its needs are mended.
Declared(s) == s.pipMayFail \/ \A t \in Task : t \in s.runsInSession /\ Mended(s.needs[t])
=============================================================================
