--------------------------- MODULE PackageLoading ---------------------------
(***************************************************************************)
(* How the packages of a context get loaded: context.py's import_project,  *)
(* get_project and import_all, and what project.py does while it creates   *)
(* a package.                                                              *)
(*                                                                         *)
(* A package is loaded by the first thread that comes to need it, under a  *)
(* lock of its own (PackageLock, not re-entrant), and is put in            *)
(* ctx.projects when it is complete.  get_project walks from the root      *)
(* package towards the one it is asked for under the context's lock        *)
(* (re-entrant) and loads whatever is missing on the way.  import_all      *)
(* loads everything there is, wave by wave, in the threads of the pool,    *)
(* which do not take the context's lock.  And a package that is being      *)
(* loaded may itself ask for others (the providers and repositories that   *)
(* it enriches, the interfaces in its mates section), with get_project.    *)
(*                                                                         *)
(* A load that asks is suspended inside its thread, so threads have call   *)
(* stacks.  A package has one load at a time, which lets a package stand   *)
(* for the frame of its load: frame[t] is the top of t's stack, a package  *)
(* or the thread itself, and asker[p] is the frame under p's.  The lookup  *)
(* that frame f is in is goal[f], and at[f] is how far it has walked.      *)
(*                                                                         *)
(* Where a package's files come from, and reading them, is one step that   *)
(* may fail; a package that is missing a parent is never asked for; the    *)
(* packages of '//builtin' refer to nobody and are left out.               *)
(***************************************************************************)
EXTENDS Naturals, FiniteSets

CONSTANTS
    Package,
    Root,
    Parent,     \* the package that declares each other one
    Client,     \* threads that use the context
    Main,       \* the one of them that creates it
    Worker,     \* the threads of the constrained pool
    None,
    All,        \* the job of a client that calls import_all
    Raised,     \* what a call that raises answers
    Setting     \* the contexts to consider, see SettingOK

ASSUME PackagesInOrder ==
    /\ Root \in Package
    /\ Parent \in [Package \ {Root} -> Package]
    /\ Main \in Client /\ Client \cap Worker = {}
    /\ Package \cap (Client \cup Worker) = {}
    /\ IsFiniteSet(Package \cup Client \cup Worker)
    /\ {None, All, Raised} \cap (Package \cup Client \cup Worker) = {}
    /\ None # Raised /\ All # Raised

\* p, its parent, and so on to the root.
Lineage(p) ==
    LET up[n \in 0 .. Cardinality(Package)] ==
            IF n = 0 THEN {p}
            ELSE up[n - 1] \cup {Parent[q] : q \in up[n - 1] \ {Root}}
    IN  up[Cardinality(Package)]

\* The package after q on the way to p.
NextOn(q, p) == CHOOSE r \in Lineage(p) \ {Root} : Parent[r] = q

\* The packages are a tree under the root.
ASSUME TreeInOrder ==
    \A p \in Package :
        /\ {Root, p} \subseteq Lineage(p) /\ Lineage(p) \subseteq Package
        /\ \A q \in Lineage(p) \ {p} : NextOn(q, p) \in Lineage(p)

Thread == Client \cup Worker
Frame == Thread \cup Package

\* refs:    the packages each package's declarations name, as they are read on loading it
\* mating:  the packages that name them in `mates`, where a missing one is fatal
\* skipped: excluded by their `unless`: loaded, but with nothing inside
\* failing: cannot be fetched, or are not valid
\* job:     what each client does, a package to get or import_all
SettingOK(s) ==
    /\ s.refs \in [Package -> SUBSET Package]
    /\ s.mating \subseteq Package /\ s.skipped \subseteq Package
    /\ s.failing \subseteq Package \ {Root}
    /\ s.job \in [Client -> Package \cup {All, None}]

ASSUME SettingsInOrder == \A s \in Setting : SettingOK(s)

VARIABLES
    setting,    \* the context at hand
    ready,      \* its constructor is through
    projects,   \* ctx.projects
    loading,    \* ctx._projects_being_loaded
    holder,     \* whose each package's lock is
    ctxOwner,   \* whose the context's lock is,
    ctxDepth,   \*    and how many times over
    frame, asker, goal, at,
    pc,         \* where each thread is
    result,     \* what the call that has just ended in it returned
    todo,       \* what the load of a package has not asked for yet
    broken,     \* <<p, r>>: p's declaration that names r could not be used
    answer,     \* what each client has got
    tasks,      \* import_all: the imports of the wave that are to be started,
    got,        \*    the packages that the wave has imported,
    lost        \*    one of its imports raised

pkgs == <<projects, loading, holder>>
lock == <<ctxOwner, ctxDepth>>
wave == <<tasks, got, lost>>
vars == <<setting, ready, pkgs, lock, frame, asker, goal, at, pc, result, todo, broken,
          answer, wave>>

-----------------------------------------------------------------------------
\* The sub-packages and the dependencies of the packages in s.
ChildrenOf(s) == {p \in Package \ {Root} : Parent[p] \in s \ setting.skipped}

\* The package that frame f imports next.
WantedBy(f) == IF at[f] = None THEN goal[f] ELSE NextOn(at[f], goal[f])
Wanted(t) == WantedBy(frame[t])

Goto(t, label) == pc' = [pc EXCEPT ![t] = label]

Init ==
    /\ setting \in Setting
    /\ ready = FALSE
    /\ projects = {} /\ loading = {} /\ holder = [p \in Package |-> None]
    /\ ctxOwner = None /\ ctxDepth = 0
    /\ frame = [t \in Thread |-> t]
    /\ asker = [p \in Package |-> None]
    /\ goal = [f \in Frame |-> IF f = Main THEN Root ELSE None]
    /\ at = [f \in Frame |-> None]
    /\ pc = [t \in Thread |-> IF t = Main THEN "lock" ELSE "idle"]
    /\ result = [t \in Thread |-> None]
    /\ todo = [p \in Package |-> {}]
    /\ broken = {}
    /\ answer = [c \in Client |-> None]
    /\ tasks = {} /\ got = {} /\ lost = FALSE

-----------------------------------------------------------------------------
\* get_project: a client asks for a package.
StartGet(c) ==
    /\ ready /\ pc[c] = "idle"
    /\ setting.job[c] \in Package
    /\ goal' = [goal EXCEPT ![c] = setting.job[c]]
    /\ Goto(c, "ctx")
    /\ UNCHANGED <<setting, ready, pkgs, lock, frame, asker, at, result, todo, broken, answer, wave>>

\* `with self.lock`: the walk starts at the root, if there is one yet.
TakeContextLock(t) ==
    /\ pc[t] = "ctx"
    /\ ctxOwner \in {None, t}
    /\ IF Root \in projects
       THEN /\ ctxOwner' = t /\ ctxDepth' = ctxDepth + 1
            /\ at' = [at EXCEPT ![frame[t]] = Root]
            /\ Goto(t, "walk")
            /\ UNCHANGED result
       ELSE /\ result' = [result EXCEPT ![t] = None]
            /\ Goto(t, "ret")
            /\ UNCHANGED <<lock, at>>
    /\ UNCHANGED <<setting, ready, pkgs, frame, asker, goal, todo, broken, answer, wave>>

\* As Walk, for packages that are published before their objects are created.
WalkIntoLoading(t) ==
    LET f == frame[t] IN
    /\ pc[t] = "walk"
    /\ at[f] # goal[f] /\ at[f] \notin setting.skipped
    /\ IF Wanted(t) \in projects \cup loading
       THEN at' = [at EXCEPT ![f] = Wanted(t)] /\ UNCHANGED pc
       ELSE Goto(t, "lock") /\ UNCHANGED at
    /\ UNCHANGED <<setting, ready, pkgs, lock, frame, asker, goal, result, todo, broken,
                   answer, wave>>

\* _get_project_recursive: the next package is there already, or has to be imported.
Walk(t) ==
    LET f == frame[t] IN
    /\ pc[t] = "walk"
    /\ at[f] # goal[f] /\ at[f] \notin setting.skipped
    /\ IF Wanted(t) \in projects
       THEN at' = [at EXCEPT ![f] = Wanted(t)] /\ UNCHANGED pc
       ELSE Goto(t, "lock") /\ UNCHANGED at
    /\ UNCHANGED <<setting, ready, pkgs, lock, frame, asker, goal, result, todo, broken,
                   answer, wave>>

\* An import on the way has ended well.
WalkOn(t) ==
    LET f == frame[t] IN
    /\ pc[t] = "ret" /\ at[f] # None
    /\ result[t] \in Package
    /\ at' = [at EXCEPT ![f] = result[t]]
    /\ Goto(t, "walk")
    /\ UNCHANGED <<setting, ready, pkgs, lock, frame, asker, goal, result, todo, broken,
                   answer, wave>>

\* As EndGet, without a `with`: an import that raises leaves the context locked ...
EndGetStillLocked(t) ==
    LET f == frame[t] IN
    /\ \/ /\ pc[t] = "walk"
          /\ at[f] = goal[f] \/ at[f] \in setting.skipped
          /\ result' = [result EXCEPT ![t] = IF at[f] = goal[f] THEN goal[f] ELSE None]
          /\ ctxDepth' = ctxDepth - 1
          /\ ctxOwner' = IF ctxDepth = 1 THEN None ELSE ctxOwner
       \/ /\ pc[t] = "ret" /\ at[f] # None
          /\ result[t] \notin Package
          /\ UNCHANGED <<result, lock>>
    /\ at' = [at EXCEPT ![f] = None]
    /\ Goto(t, "ret")
    /\ UNCHANGED <<setting, ready, pkgs, frame, asker, goal, todo, broken, answer, wave>>

\* get_project ends: it is there, or is inside of a skipped package, or something on
\* the way could not be imported, which returns nothing or raises.
EndGet(t) ==
    LET f == frame[t] IN
    /\ \/ /\ pc[t] = "walk"
          /\ at[f] = goal[f] \/ at[f] \in setting.skipped
          /\ result' = [result EXCEPT ![t] = IF at[f] = goal[f] THEN goal[f] ELSE None]
       \/ /\ pc[t] = "ret" /\ at[f] # None
          /\ result[t] \notin Package
          /\ UNCHANGED result
    /\ ctxDepth' = ctxDepth - 1
    /\ ctxOwner' = IF ctxDepth = 1 THEN None ELSE ctxOwner
    /\ at' = [at EXCEPT ![f] = None]
    /\ Goto(t, "ret")
    /\ UNCHANGED <<setting, ready, pkgs, frame, asker, goal, todo, broken, answer, wave>>

-----------------------------------------------------------------------------
\* As TakePackageLock, without the look for what was loaded while it waited ...
TakePackageLockBlindly(t) ==
    LET p == Wanted(t) IN
    /\ pc[t] = "lock"
    /\ holder[p] = None
    /\ holder' = [holder EXCEPT ![p] = t]
    /\ loading' = loading \cup {p}
    /\ asker' = [asker EXCEPT ![p] = frame[t]]
    /\ frame' = [frame EXCEPT ![t] = p]
    /\ todo' = [todo EXCEPT ![p] = IF p \in setting.skipped THEN {} ELSE setting.refs[p]]
    /\ Goto(t, IF p \in setting.failing THEN "fail" ELSE "load")
    /\ UNCHANGED <<result, setting, ready, projects, lock, goal, at, broken, answer, wave>>

\* ... and with the mark looked at before the lock, as would detect a recursion.
TakePackageLockMarkFirst(t) ==
    LET p == Wanted(t) IN
    /\ pc[t] = "lock"
    /\ IF p \in projects \cup loading
       THEN /\ result' = [result EXCEPT ![t] = IF p \in projects THEN p ELSE None]
            /\ Goto(t, "ret")
            /\ UNCHANGED <<loading, holder, frame, asker, todo>>
       ELSE /\ holder' = [holder EXCEPT ![p] = t]
            /\ loading' = loading \cup {p}
            /\ asker' = [asker EXCEPT ![p] = frame[t]]
            /\ frame' = [frame EXCEPT ![t] = p]
            /\ todo' = [todo EXCEPT ![p] = IF p \in setting.skipped THEN {} ELSE setting.refs[p]]
            /\ Goto(t, IF p \in setting.failing THEN "fail" ELSE "load")
            /\ UNCHANGED result
    /\ UNCHANGED <<setting, ready, projects, lock, goal, at, broken, answer, wave>>

\* import_project, once it has the package's lock: the package has been loaded
\* meanwhile, or is marked as being loaded, or gets loaded here.
TakePackageLock(t) ==
    LET p == Wanted(t) IN
    /\ pc[t] = "lock"
    /\ holder[p] = None
    /\ IF p \in projects \cup loading
       THEN /\ result' = [result EXCEPT ![t] = IF p \in projects THEN p ELSE None]
            /\ Goto(t, "ret")
            /\ UNCHANGED <<loading, holder, frame, asker, todo>>
       ELSE /\ holder' = [holder EXCEPT ![p] = t]
            /\ loading' = loading \cup {p}
            /\ asker' = [asker EXCEPT ![p] = frame[t]]
            /\ frame' = [frame EXCEPT ![t] = p]
            /\ todo' = [todo EXCEPT ![p] = IF p \in setting.skipped THEN {} ELSE setting.refs[p]]
            /\ Goto(t, IF p \in setting.failing THEN "fail" ELSE "load")
            /\ UNCHANGED result
    /\ UNCHANGED <<setting, ready, projects, lock, goal, at, broken, answer, wave>>

\* A declaration of the package names another one.
AskWhileLoading(t) ==
    LET p == frame[t] IN
    /\ pc[t] = "load"
    /\ \E r \in todo[p] : goal' = [goal EXCEPT ![p] = r]
    /\ Goto(t, "ctx")
    /\ UNCHANGED <<setting, ready, pkgs, lock, frame, asker, at, result, todo, broken, answer, wave>>

\* The import ends, whatever happened: the mark and the lock go.
EndImport(t) ==
    LET p == frame[t] IN
    /\ loading' = loading \ {p}
    /\ holder' = [holder EXCEPT ![p] = None]
    /\ frame' = [frame EXCEPT ![t] = asker[p]]
    /\ asker' = [asker EXCEPT ![p] = None]
    /\ todo' = [todo EXCEPT ![p] = {}]
    /\ Goto(t, "ret")
    /\ UNCHANGED <<setting, ready, lock, goal, at, broken, answer, wave>>

\* All of the package's objects have been created, and it is published.
Publish(t) ==
    /\ pc[t] = "load" /\ todo[frame[t]] = {}
    /\ projects' = projects \cup {frame[t]}
    /\ result' = [result EXCEPT ![t] = frame[t]]
    /\ EndImport(t)

\* An exception gets out of the package's factory.  (One that registers nothing has the import
\* return None, which whoever asked treats alike; a package whose file does not parse is
\* published, like any other, and says that it is broken.)
FailToLoad(t) ==
    /\ pc[t] = "fail"
    /\ result' = [result EXCEPT ![t] = Raised]
    /\ UNCHANGED projects
    /\ EndImport(t)

-----------------------------------------------------------------------------
\* What was asked for comes back to the load that asked: a declaration that cannot be
\* used is recorded, and one of `mates` ends the load.
BackInLoad(t) ==
    LET p == frame[t] IN
    /\ pc[t] = "ret" /\ p \in Package /\ at[p] = None
    /\ todo' = [todo EXCEPT ![p] = @ \ {goal[p]}]
    /\ broken' = IF result[t] \in Package THEN broken ELSE broken \cup {<<p, goal[p]>>}
    /\ goal' = [goal EXCEPT ![p] = None]
    /\ Goto(t, IF result[t] \notin Package /\ p \in setting.mating THEN "fail" ELSE "load")
    /\ UNCHANGED <<setting, ready, pkgs, lock, frame, asker, at, result, answer, wave>>

\* ... or to the client: the constructor is through, or get_project has an answer.
BackInClient(c) ==
    /\ pc[c] = "ret" /\ frame[c] = c /\ at[c] = None
    /\ c \in Client
    /\ ready' = TRUE
    /\ answer' = IF ready THEN [answer EXCEPT ![c] = result[c]] ELSE answer
    /\ goal' = [goal EXCEPT ![c] = None]
    /\ Goto(c, IF ready THEN "done" ELSE "idle")
    /\ UNCHANGED <<setting, pkgs, lock, frame, asker, at, result, todo, broken, wave>>

\* ... or to a thread of the pool.
BackInWorker(w) ==
    /\ pc[w] = "ret" /\ frame[w] = w /\ at[w] = None
    /\ w \in Worker
    /\ got' = IF result[w] \in Package THEN got \cup {result[w]} ELSE got
    /\ lost' = (lost \/ result[w] \notin Package)
    /\ goal' = [goal EXCEPT ![w] = None]
    /\ Goto(w, "idle")
    /\ UNCHANGED <<setting, ready, pkgs, lock, frame, asker, at, result, todo, broken,
                   answer, tasks>>

-----------------------------------------------------------------------------
\* import_all: the root's children are the first wave.
StartImportAll(c) ==
    /\ ready /\ pc[c] = "idle"
    /\ setting.job[c] = All /\ Root \in projects
    /\ tasks' = ChildrenOf({Root})
    /\ got' = {} /\ lost' = FALSE
    /\ Goto(c, "all")
    /\ UNCHANGED <<setting, ready, pkgs, lock, frame, asker, goal, at, result, todo, broken, answer>>

\* A thread of the pool takes up an import, without the context's lock.
TakeTask(w) ==
    /\ pc[w] = "idle"
    /\ \E p \in tasks : tasks' = tasks \ {p} /\ goal' = [goal EXCEPT ![w] = p]
    /\ Goto(w, "lock")
    /\ UNCHANGED <<setting, ready, pkgs, lock, frame, asker, at, result, todo, broken, answer,
                   got, lost>>

WaveIsOver == tasks = {} /\ \A w \in Worker : pc[w] = "idle"

\* The wave has ended: what it imported has the next one in it.
NextWave(c) ==
    /\ pc[c] = "all"
    /\ WaveIsOver
    /\ IF lost \/ ChildrenOf(got) = {}
       THEN /\ answer' = [answer EXCEPT ![c] = IF lost THEN Raised ELSE All]
            /\ Goto(c, "done")
            /\ UNCHANGED <<tasks, got>>
       ELSE /\ tasks' = ChildrenOf(got)
            /\ got' = {}
            /\ UNCHANGED <<answer, pc>>
    /\ UNCHANGED <<setting, ready, pkgs, lock, frame, asker, goal, at, result, todo, broken, lost>>

-----------------------------------------------------------------------------
Step(t) ==
    \/ TakeContextLock(t) \/ Walk(t) \/ WalkOn(t) \/ EndGet(t)
    \/ TakePackageLock(t) \/ AskWhileLoading(t) \/ Publish(t) \/ FailToLoad(t)
    \/ BackInLoad(t)

ClientStep(c) == StartGet(c) \/ BackInClient(c) \/ StartImportAll(c) \/ NextWave(c)
WorkerStep(w) == TakeTask(w) \/ BackInWorker(w)

Next ==
    \/ \E t \in Thread : Step(t)
    \/ \E c \in Client : ClientStep(c)
    \/ \E w \in Worker : WorkerStep(w)

(* Threads get to run, and calls end, so every step that can be taken is   *)
(* taken: the work of a context is finite, so that a lock others keep      *)
(* taking is free for good in the end.                                     *)
Fairness == WF_vars(Next)

Spec == Init /\ [][Next]_vars /\ Fairness

-----------------------------------------------------------------------------
TypeOK ==
    /\ setting \in Setting
    /\ ready \in BOOLEAN
    /\ projects \subseteq Package /\ loading \subseteq Package
    /\ holder \in [Package -> Thread \cup {None}]
    /\ ctxOwner \in Thread \cup {None} /\ ctxDepth \in Nat
    /\ frame \in [Thread -> Frame]
    /\ asker \in [Package -> Frame \cup {None}]
    /\ goal \in [Frame -> Package \cup {None}]
    /\ at \in [Frame -> Package \cup {None}]
    /\ pc \in [Thread -> {"idle", "ctx", "walk", "lock", "load", "fail", "ret", "all", "done"}]
    /\ result \in [Thread -> Package \cup {None, Raised}]
    /\ todo \in [Package -> SUBSET Package]
    /\ broken \subseteq Package \X Package
    /\ answer \in [Client -> Package \cup {None, All, Raised}]
    /\ tasks \subseteq Package /\ got \subseteq Package /\ lost \in BOOLEAN

\* The context's lock is held over all the lookups that one thread is in, nested in one
\* another through the loads they make, and then let go of.
ContextLockIsExact ==
    /\ ctxDepth = Cardinality({f \in Frame : at[f] # None})
    /\ ctxOwner = None <=> ctxDepth = 0
    /\ \A t \in Thread : at[t] # None => ctxOwner = t
    /\ \A p \in Package : at[p] # None => ctxOwner = holder[p]

\* What anybody has of a package is all of it: it is published when its objects have been
\* created, its load is over by then, and what a lookup walks through or returns, in this
\* thread or another, is published.
OnlyWholePackages ==
    /\ \A p \in projects : holder[p] = None
    /\ \A f \in Frame : at[f] \in projects \cup {None}
    /\ \A t \in Thread : result[t] \in projects \cup {None, Raised}
    /\ got \subseteq projects

\* No package is created a second time, or dropped: whoever asks gets the objects that
\* others have.
LoadedOnce ==
    [][/\ projects \subseteq projects'
       /\ \A p \in Package : p \in projects => holder'[p] = None]_vars

\* What keeps a package from being had: it, or one on the way to it, cannot be loaded,
\* or a package on the way is skipped.
CannotBeHad(p) ==
    \/ \E q \in Lineage(p) : q \in setting.failing
    \/ \E q \in Lineage(p) : q \in setting.mating /\ \E r \in setting.refs[q] : <<q, r>> \in broken
    \/ \E q \in Lineage(p) \ {p} : q \in setting.skipped

\* get_project finds every package there is, whatever other threads are loading.
AnswersAreRight ==
    \A c \in Client :
        pc[c] = "done" /\ setting.job[c] \in Package =>
            \/ answer[c] = setting.job[c] /\ setting.job[c] \in projects
            \/ answer[c] # setting.job[c] /\ CannotBeHad(setting.job[c])

\* The packages that the load of p walks into.
Needs(p) == IF p \in setting.skipped \cup {Root} THEN {}
            ELSE UNION {Lineage(r) : r \in setting.refs[p]}
NoNeedOfItself ==
    LET reach[n \in 0 .. Cardinality(Package), p \in Package] ==
            IF n = 0 THEN Needs(p) ELSE UNION {reach[n - 1, q] : q \in Needs(p)} \cup Needs(p)
    IN  \A p \in Package : p \notin reach[Cardinality(Package), p]
OneThread == \E c \in Client : setting.job[c] # All /\ \A d \in Client \ {c} : setting.job[d] = None
NamesNobody == \A p \in Package : Needs(p) = {}

\* Every call ends, if no package that is loaded names another one, or if a single
\* thread loads them and none needs itself.  Otherwise it may not: see NobodyWaitsForItself.
LoadsEnd ==
    (NamesNobody \/ (OneThread /\ NoNeedOfItself)) =>
        <>[](\A c \in Client : setting.job[c] = None \/ pc[c] = "done")

\* A package that comes to need itself is detected, reported and not loaded ("Recursive
\* project loading detected (%s), aborting.").
NobodyWaitsForItself == \A t \in Thread : pc[t] = "lock" => holder[Wanted(t)] # t
=============================================================================
