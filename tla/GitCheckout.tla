----------------------------- MODULE GitCheckout ----------------------------
(***************************************************************************)
(* The cached copies of git repositories: project_factory_git.py's         *)
(* _clone_or_update_repo, and the health check that removes lock files,    *)
(* healthcheck/stale_git_locks.py.                                         *)
(*                                                                         *)
(* A copy is a directory of the internal state directory, which all        *)
(* PartCAD processes share.  Whoever imports the package takes a lock of   *)
(* its process and then a lock file beside the copy; clones the repository *)
(* if there is no copy; and otherwise fetches and resets it if the guard   *)
(* file in it is a day old.  Network failures are retried; a clone that    *)
(* fails to authenticate is repeated with the ambient git configuration    *)
(* set aside, which is a setting of the whole process.  The copy is used   *)
(* when the locks have been released.                                      *)
(*                                                                         *)
(* What is in a repository is a version, a number that grows from 0, when  *)
(* it has no commit.  Fetching, resetting and cloning take a while and end *)
(* well or fail, a reset with some of the files written; what kind of      *)
(* failure it is, is open.  An importer can be interrupted: its process is *)
(* killed, or an exception that is not one of GIT_ERRORS gets through      *)
(* (KeyboardInterrupt, a full disk).  The revisions of a repository have   *)
(* copies of their own, and are repositories here.                         *)
(***************************************************************************)
EXTENDS Naturals, FiniteSets

CONSTANTS
    Repo,
    Importer,       \* threads that import a package
    RepoOf,         \* of which repository
    Process, Home,  \* the process of each importer
    Cleaner,        \* runs of the health check
    MaxRetries,     \* git.clone.retry.max
    MaxVersion,     \* bounds how often a repository moves on,
    MaxInterrupts,  \* and how often an importer is interrupted
    Setting,        \* the situations to consider, see SettingOK
    None

ASSUME ImportersInOrder ==
    /\ RepoOf \in [Importer -> Repo] /\ Home \in [Importer -> Process]
    /\ MaxRetries \in Nat /\ MaxVersion \in Nat \ {0} /\ MaxInterrupts \in Nat
    /\ Importer \cap Cleaner = {} /\ None \notin Importer \cup Repo

Kind == {"default", "branch", "commit"}

\* kind:     what the copy of each repository is of
\* force:    the processes that were told to update everything
\* imports:  how often each importer imports
\* copies:   the copies that there are already
\* empty:    the repositories that nobody has committed to yet
\* cleaners: the health checks that are run meanwhile
SettingOK(s) ==
    /\ s.kind \in [Repo -> Kind] /\ s.force \subseteq Process
    /\ s.imports \in [Importer -> Nat] /\ s.copies \subseteq Repo
    /\ s.empty \subseteq Repo \ s.copies
    /\ s.cleaners \subseteq Cleaner

ASSUME SettingsInOrder == \A s \in Setting : SettingOK(s)

VARIABLES
    setting,
    remote,         \* the version that each repository has
    tree,           \* the copy's files: none, part (being cloned), torn (being reset) or whole
    head,           \* the version that its HEAD names
    guard,          \* the guard file: none, empty, or whole
    fresh,          \* the guard file is less than a day old
    fileLock,       \* whose the lock on the lock file is that is in the directory now
    threadLock,     \* the same of the lock of a process for a repository
    honoring,       \* who depends on the ambient git configuration,
    ignoring,       \* and who has set it aside
    pc,
    attempt,
    full,           \* the cheap clone was refused
    fetched,        \* the version that has been fetched
    left,           \* how many more imports there are
    answer,         \* of an import: found, stale (whatever is there) or raised
    hurt,           \* the copies at which an importer was interrupted
    interrupts,
    cleaning        \* the lock file that a health check is about to remove

disk == <<tree, head, guard, fresh>>
config == <<honoring, ignoring>>
mine == <<attempt, full, fetched>>
world == <<setting, remote, hurt, interrupts, cleaning>>
vars == <<world, disk, fileLock, threadLock, config, mine, pc, left, answer>>

-----------------------------------------------------------------------------
Forced(t) == Home[t] \in setting.force

\* The git operations happen in these, with both locks.
Inside == {"check", "honor", "fetch", "reset", "resetting", "clone", "cloning", "ignore",
           "guard", "leave"}
AtWork(r) == {t \in Importer : RepoOf[t] = r /\ pc[t] \in Inside}

Goto(t, label) == pc' = [pc EXCEPT ![t] = label]
Leave(t, how) == Goto(t, "leave") /\ answer' = [answer EXCEPT ![t] = how]

\* The copy is to be updated: the branch is looked at once a day, a commit never.
Outdated(t) ==
    LET r == RepoOf[t] IN
    \/ Forced(t)
    \/ setting.kind[r] # "default" /\ guard[r] # "whole"
    \/ setting.kind[r] # "commit" /\ ~fresh[r]

\* Anything but an update of the default branch that is forced looks at the guard first.
GuardIsMissed(t) ==
    /\ guard[RepoOf[t]] = "none"
    /\ ~(setting.kind[RepoOf[t]] = "default" /\ Forced(t))

\* A clone of a repository without a commit: HEAD names a branch that does not exist.
Unborn(r) == tree[r] = "whole" /\ head[r] = 0

Init ==
    /\ setting \in Setting
    /\ remote = [r \in Repo |-> IF r \in setting.empty THEN 0 ELSE 1]
    /\ LET there(r, with, without) == IF r \in setting.copies THEN with ELSE without IN
        /\ tree = [r \in Repo |-> there(r, "whole", "none")]
        /\ guard = [r \in Repo |-> there(r, "whole", "none")]
        /\ head = [r \in Repo |-> there(r, 1, 0)]
    /\ fresh = [r \in Repo |-> r \in setting.copies]
    /\ fileLock = [r \in Repo |-> None]
    /\ threadLock = [p \in Process |-> [r \in Repo |-> None]]
    /\ honoring = {} /\ ignoring = {}
    /\ pc = [t \in Importer |-> "idle"]
    /\ attempt = [t \in Importer |-> 0]
    /\ full = [t \in Importer |-> FALSE]
    /\ fetched = [t \in Importer |-> 0]
    /\ left = setting.imports
    /\ answer = [t \in Importer |-> None]
    /\ hurt = {} /\ interrupts = 0
    /\ cleaning = [c \in Cleaner |-> None]

-----------------------------------------------------------------------------
\* get_cache_lock: one thread of a process at a time ...
TakeThreadLock(t) ==
    /\ pc[t] = "idle" /\ left[t] > 0
    /\ threadLock[Home[t]][RepoOf[t]] = None
    /\ threadLock' = [threadLock EXCEPT ![Home[t]][RepoOf[t]] = t]
    /\ left' = [left EXCEPT ![t] = @ - 1]
    /\ answer' = [answer EXCEPT ![t] = None]
    /\ Goto(t, "file")
    /\ UNCHANGED <<world, disk, fileLock, config, mine>>

\* As TakeFileLock, without the file lock.
TakeThreadLockOnly(t) ==
    /\ pc[t] = "file"
    /\ fileLock' = [fileLock EXCEPT ![RepoOf[t]] = t]
    /\ Goto(t, "check")
    /\ UNCHANGED <<world, disk, threadLock, config, mine, left, answer>>

\* ... and one process.
TakeFileLock(t) ==
    /\ pc[t] = "file"
    /\ fileLock[RepoOf[t]] = None
    /\ fileLock' = [fileLock EXCEPT ![RepoOf[t]] = t]
    /\ Goto(t, "check")
    /\ UNCHANGED <<world, disk, threadLock, config, mine, left, answer>>

\* The head of the loop: without a network, or when no attempts are left, the copy is taken
\* as it is, if there is one.  A copy without a guard is an error that nothing catches.
Check(t) ==
    LET r == RepoOf[t] IN
    /\ pc[t] = "check"
    /\ \/ attempt[t] <= MaxRetries
          /\ IF tree[r] # "none" /\ GuardIsMissed(t) THEN Leave(t, "raised")
             ELSE IF tree[r] # "none" /\ ~Outdated(t) THEN Leave(t, "found")
             ELSE Goto(t, "honor") /\ UNCHANGED answer
       \/ Leave(t, "stale")
    /\ UNCHANGED <<world, disk, fileLock, threadLock, config, mine, left>>

\* honoring_ambient_config: whoever has set it aside is waited for.  Before an update, HEAD
\* is read.
Honor(t) ==
    /\ pc[t] = "honor" /\ ~Unborn(RepoOf[t])
    /\ \A u \in ignoring : Home[u] # Home[t]
    /\ honoring' = honoring \cup {t}
    /\ full' = [full EXCEPT ![t] = FALSE]
    /\ Goto(t, IF tree[RepoOf[t]] = "none" THEN "clone" ELSE "fetch")
    /\ UNCHANGED <<world, disk, fileLock, threadLock, ignoring, attempt, fetched, left, answer>>

\* As Ignore, for a writer that does not wait for the readers.
IgnoreAtOnce(t) ==
    /\ pc[t] = "ignore"
    /\ \A u \in ignoring : Home[u] # Home[t]
    /\ ignoring' = ignoring \cup {t}
    /\ full' = [full EXCEPT ![t] = FALSE]
    /\ Goto(t, "clone")
    /\ UNCHANGED <<world, disk, fileLock, threadLock, honoring, attempt, fetched, left, answer>>

\* ignoring_ambient_config: everybody else of the process is waited for.
Ignore(t) ==
    /\ pc[t] = "ignore"
    /\ \A u \in honoring \cup ignoring : Home[u] # Home[t]
    /\ ignoring' = ignoring \cup {t}
    /\ full' = [full EXCEPT ![t] = FALSE]
    /\ Goto(t, "clone")
    /\ UNCHANGED <<world, disk, fileLock, threadLock, honoring, attempt, fetched, left, answer>>

LeaveConfig(t) == honoring' = honoring \ {t} /\ ignoring' = ignoring \ {t}

-----------------------------------------------------------------------------
Fetch(t) ==
    /\ pc[t] = "fetch" /\ remote[RepoOf[t]] # 0
    /\ fetched' = [fetched EXCEPT ![t] = remote[RepoOf[t]]]
    /\ Goto(t, "reset")
    /\ UNCHANGED <<world, disk, fileLock, threadLock, config, attempt, full, left, answer>>

UpdateStops(t) ==
    pc[t] \in {"honor", "fetch", "reset", "resetting"} /\ tree[RepoOf[t]] # "none"

\* As UpdateFails, for an update that starts over when it fails.
UpdateFailsAndClears(t) ==
    /\ UpdateStops(t)
    /\ attempt' = [attempt EXCEPT ![t] = @ + 1]
    /\ tree' = [tree EXCEPT ![RepoOf[t]] = "none"]
    /\ guard' = [guard EXCEPT ![RepoOf[t]] = "none"]
    /\ LeaveConfig(t)
    /\ Goto(t, "check")
    /\ UNCHANGED <<world, head, fresh, fileLock, threadLock, full, fetched, left, answer>>

\* The copy cannot be opened, its HEAD cannot be read, or the fetch or the reset fails, for
\* now or for good, and the files stay as they are: there is another attempt, until they
\* are used up.
UpdateFails(t) ==
    /\ UpdateStops(t)
    /\ attempt' = [attempt EXCEPT ![t] = @ + 1]
    /\ LeaveConfig(t)
    /\ Goto(t, "check")
    /\ UNCHANGED <<world, disk, fileLock, threadLock, full, fetched, left, answer>>

\* As StartReset, with the time of the guard set before the files are touched.
StartResetTouched(t) ==
    /\ pc[t] = "reset"
    /\ tree' = [tree EXCEPT ![RepoOf[t]] = "torn"]
    /\ fresh' = [fresh EXCEPT ![RepoOf[t]] = guard[RepoOf[t]] # "none"]
    /\ Goto(t, "resetting")
    /\ UNCHANGED <<world, head, guard, fileLock, threadLock, config, mine, left, answer>>

\* reset(HARD): the files first ...
StartReset(t) ==
    /\ pc[t] = "reset"
    /\ tree' = [tree EXCEPT ![RepoOf[t]] = "torn"]
    /\ Goto(t, "resetting")
    /\ UNCHANGED <<world, head, guard, fresh, fileLock, threadLock, config, mine, left, answer>>

\* ... then HEAD; the guard gets a new time, and is written if HEAD has moved.
EndReset(t) ==
    LET r == RepoOf[t] IN
    /\ pc[t] = "resetting"
    /\ tree' = [tree EXCEPT ![r] = "whole"]
    /\ head' = [head EXCEPT ![r] = fetched[t]]
    /\ LeaveConfig(t)
    /\ fresh' = [fresh EXCEPT ![r] = guard[r] # "none"]
    /\ IF guard[r] = "none" THEN Leave(t, "raised")
       ELSE IF head[r] # fetched[t] \/ Forced(t) THEN Goto(t, "guard") /\ UNCHANGED answer
       ELSE Leave(t, "found")
    /\ UNCHANGED <<world, guard, fileLock, threadLock, mine, left>>

-----------------------------------------------------------------------------
\* _clone_repo
StartClone(t) ==
    /\ pc[t] = "clone"
    /\ tree' = [tree EXCEPT ![RepoOf[t]] = "part"]
    /\ Goto(t, "cloning")
    /\ UNCHANGED <<world, head, guard, fresh, fileLock, threadLock, config, mine, left, answer>>

EndClone(t) ==
    LET r == RepoOf[t] IN
    /\ pc[t] = "cloning" /\ remote[r] # 0
    /\ tree' = [tree EXCEPT ![r] = "whole"]
    /\ head' = [head EXCEPT ![r] = remote[r]]
    /\ LeaveConfig(t)
    /\ Goto(t, "guard")
    /\ UNCHANGED <<world, guard, fresh, fileLock, threadLock, mine, left, answer>>

\* There is no commit to name in the guard: that is an error, and the copy stays.
EndCloneUnborn(t) ==
    LET r == RepoOf[t] IN
    /\ pc[t] = "cloning" /\ remote[r] = 0 /\ setting.kind[r] = "default"
    /\ tree' = [tree EXCEPT ![r] = "whole"]
    /\ head' = [head EXCEPT ![r] = 0]
    /\ LeaveConfig(t)
    /\ Leave(t, "raised")
    /\ UNCHANGED <<world, guard, fresh, fileLock, threadLock, mine, left>>

\* As RefuseClone, for an attempt that leaves to the next one what it has made.
RefuseCloneUntidy(t) ==
    /\ pc[t] = "cloning"
    /\ UNCHANGED tree
    /\ IF ~full[t]
       THEN full' = [full EXCEPT ![t] = TRUE] /\ Goto(t, "clone") /\ UNCHANGED <<config, answer>>
       ELSE /\ LeaveConfig(t) /\ UNCHANGED full
            /\ \/ t \in honoring /\ Goto(t, "ignore") /\ UNCHANGED answer
               \/ Leave(t, "raised")
    /\ UNCHANGED <<world, head, guard, fresh, fileLock, threadLock, attempt, fetched, left>>

\* As RefuseClone, with the second try made while the first one still counts as a reader.
RefuseCloneHonoring(t) ==
    /\ pc[t] = "cloning"
    /\ tree' = [tree EXCEPT ![RepoOf[t]] = "none"]
    /\ IF ~full[t]
       THEN full' = [full EXCEPT ![t] = TRUE] /\ Goto(t, "clone") /\ UNCHANGED <<config, answer>>
       ELSE /\ UNCHANGED full
            /\ \/ t \in honoring /\ Goto(t, "ignore") /\ UNCHANGED <<config, answer>>
               \/ LeaveConfig(t) /\ Leave(t, "raised")
    /\ UNCHANGED <<world, head, guard, fresh, fileLock, threadLock, attempt, fetched, left>>

\* The server does not want it this way: the whole history is asked for; and if that is
\* refused too, because the caller is not known, once more without the ambient configuration.
RefuseClone(t) ==
    /\ pc[t] = "cloning"
    /\ tree' = [tree EXCEPT ![RepoOf[t]] = "none"]
    /\ IF ~full[t]
       THEN full' = [full EXCEPT ![t] = TRUE] /\ Goto(t, "clone") /\ UNCHANGED <<config, answer>>
       ELSE /\ LeaveConfig(t) /\ UNCHANGED full
            /\ \/ t \in honoring /\ Goto(t, "ignore") /\ UNCHANGED answer
               \/ Leave(t, "raised")
    /\ UNCHANGED <<world, head, guard, fresh, fileLock, threadLock, attempt, fetched, left>>

\* The network fails: there is another attempt, but for the last one and the one without the
\* ambient configuration.
DropClone(t) ==
    /\ pc[t] = "cloning"
    /\ tree' = [tree EXCEPT ![RepoOf[t]] = "none"]
    /\ LeaveConfig(t)
    /\ IF t \in honoring /\ attempt[t] < MaxRetries
       THEN /\ attempt' = [attempt EXCEPT ![t] = @ + 1]
            /\ Goto(t, "check")
            /\ UNCHANGED answer
       ELSE Leave(t, "raised") /\ UNCHANGED attempt
    /\ UNCHANGED <<world, head, guard, fresh, fileLock, threadLock, full, fetched, left>>

WriteGuard(t) ==
    LET r == RepoOf[t] IN
    /\ pc[t] = "guard"
    /\ guard' = [guard EXCEPT ![r] = "whole"]
    /\ fresh' = [fresh EXCEPT ![r] = TRUE]
    /\ Leave(t, "found")
    /\ UNCHANGED <<world, tree, head, fileLock, threadLock, config, mine, left>>

\* The call ends: its locks and its variables go.
EndCall(t) ==
    /\ fileLock' = [fileLock EXCEPT ![RepoOf[t]] = IF @ = t THEN None ELSE @]
    /\ threadLock' = [threadLock EXCEPT ![Home[t]][RepoOf[t]] = IF @ = t THEN None ELSE @]
    /\ attempt' = [attempt EXCEPT ![t] = 0]
    /\ full' = [full EXCEPT ![t] = FALSE]
    /\ fetched' = [fetched EXCEPT ![t] = 0]
    /\ Goto(t, "idle")

\* The locks go, and what was found is used.
Release(t) ==
    /\ pc[t] = "leave"
    /\ EndCall(t)
    /\ UNCHANGED <<world, disk, config, left, answer>>

-----------------------------------------------------------------------------
\* What was being written stays as it is; the locks go with the process, or the `with`.
Interrupt(t) ==
    /\ pc[t] \in Inside /\ interrupts < MaxInterrupts
    /\ interrupts' = interrupts + 1
    /\ hurt' = hurt \cup {RepoOf[t]}
    /\ \/ UNCHANGED guard
       \/ pc[t] = "guard" /\ guard' = [guard EXCEPT ![RepoOf[t]] = "empty"]
    /\ LeaveConfig(t)
    /\ EndCall(t)
    /\ answer' = [answer EXCEPT ![t] = "raised"]
    /\ UNCHANGED <<setting, remote, cleaning, tree, head, fresh, left>>

\* A day goes by, or the repository gets another commit.
Age(r) ==
    /\ fresh[r]
    /\ fresh' = [fresh EXCEPT ![r] = FALSE]
    /\ UNCHANGED <<world, tree, head, guard, fileLock, threadLock, config, mine, pc, left, answer>>
Move(r) ==
    /\ remote[r] < MaxVersion /\ setting.kind[r] # "commit"
    /\ remote' = [remote EXCEPT ![r] = @ + 1]
    /\ UNCHANGED <<setting, hurt, interrupts, cleaning, disk, fileLock, threadLock, config, mine,
                   pc, left, answer>>

\* StaleGitLocks: nobody has the lock ...
FindUnheld(c, r) ==
    /\ c \in setting.cleaners /\ cleaning[c] = None
    /\ fileLock[r] = None
    /\ cleaning' = [cleaning EXCEPT ![c] = r]
    /\ UNCHANGED <<setting, remote, hurt, interrupts, disk, fileLock, threadLock, config, mine,
                   pc, left, answer>>

\* ... so its file is removed, and whoever comes next makes another one.
RemoveLock(c) ==
    /\ cleaning[c] # None
    /\ fileLock' = [fileLock EXCEPT ![cleaning[c]] = None]
    /\ cleaning' = [cleaning EXCEPT ![c] = None]
    /\ UNCHANGED <<setting, remote, hurt, interrupts, disk, threadLock, config, mine, pc, left,
                   answer>>

-----------------------------------------------------------------------------
Step(t) ==
    \/ TakeThreadLock(t) \/ TakeFileLock(t) \/ Check(t) \/ Honor(t) \/ Ignore(t)
    \/ Fetch(t) \/ UpdateFails(t) \/ StartReset(t) \/ EndReset(t)
    \/ StartClone(t) \/ EndClone(t) \/ EndCloneUnborn(t) \/ RefuseClone(t) \/ DropClone(t)
    \/ WriteGuard(t) \/ Release(t)

Next ==
    \/ \E t \in Importer : Step(t) \/ Interrupt(t)
    \/ \E r \in Repo : Age(r) \/ Move(r) \/ \E c \in Cleaner : FindUnheld(c, r)
    \/ \E c \in Cleaner : RemoveLock(c)

(* Threads get to run; every network operation ends, because it is given a *)
(* time limit.  The imports are finitely many, so a lock that others keep  *)
(* taking is free in the end.                                              *)
Fairness == WF_vars(\E t \in Importer : Step(t))

Spec == Init /\ [][Next]_vars /\ Fairness

-----------------------------------------------------------------------------
TypeOK ==
    /\ setting \in Setting
    /\ remote \in [Repo -> 0 .. MaxVersion]
    /\ tree \in [Repo -> {"none", "part", "torn", "whole"}]
    /\ head \in [Repo -> 0 .. MaxVersion]
    /\ guard \in [Repo -> {"none", "empty", "whole"}]
    /\ fresh \in [Repo -> BOOLEAN]
    /\ fileLock \in [Repo -> Importer \cup {None}]
    /\ threadLock \in [Process -> [Repo -> Importer \cup {None}]]
    /\ honoring \subseteq Importer /\ ignoring \subseteq Importer
    /\ pc \in [Importer -> Inside \cup {"idle", "file"}]
    /\ attempt \in [Importer -> 0 .. MaxRetries + 1]
    /\ full \in [Importer -> BOOLEAN]
    /\ fetched \in [Importer -> 0 .. MaxVersion]
    /\ left \in [Importer -> Nat]
    /\ answer \in [Importer -> {None, "found", "stale", "raised"}]
    /\ hurt \subseteq Repo /\ interrupts \in 0 .. MaxInterrupts
    /\ cleaning \in [Cleaner -> Repo \cup {None}]

\* No two importers are at one copy, of one process or of two: nobody clones into a directory
\* that another one clones into, removes or resets.
OneAtEachCopy == \A r \in Repo : \A t, u \in AtWork(r) : t = u

\* However attempts fail, and after any number of them, no part of a clone is left for the
\* next import to take for a copy (_clone_repo).  There is no copy; or one that was complete
\* once and keeps its guard, with its files torn if the reset is what failed (which the next
\* two properties are about); or, of a repository without a commit, a clone without a guard,
\* which the next import refuses unless it was told to update everything.
FailuresLeaveNothing ==
    \A r \in Repo \ hurt : AtWork(r) = {} =>
        \/ tree[r] = "none" /\ guard[r] = "none"
        \/ tree[r] \in {"whole", "torn"} /\ guard[r] = "whole"
        \/ Unborn(r) /\ guard[r] = "none"

\* A copy that was left half way, between two versions, is not believed: the next import
\* that has a network updates it.  (An update that was forced on a copy of today leaves one
\* that is.)
TornIsNotBelieved ==
    \A t \in Importer : setting.force = {} /\ tree[RepoOf[t]] = "torn" /\ AtWork(RepoOf[t]) = {} =>
        Outdated(t)

\* An import that found its package, and did not just fall back on what was there, has all
\* the files of one version, and a guard for the next one.
FoundIsWhole ==
    \A t \in Importer : setting.force = {} /\ pc[t] = "leave" /\ answer[t] = "found" =>
        tree[RepoOf[t]] = "whole" /\ guard[RepoOf[t]] # "none"

\* The process's git configuration is set aside by one thread, while no other one has a
\* git operation going on that counts on it.
ConfigIsOnesOwn ==
    \A t \in ignoring : \A u \in honoring \cup ignoring : Home[u] = Home[t] => u = t

\* A copy that somebody may be using is never removed, or made from nothing again: it is
\* updated where it is.
CopiesStay == [][\A r \in Repo : tree[r] \in {"torn", "whole"} => tree'[r] \in {"torn", "whole"}]_vars

\* Every import ends, whatever fails: no thread waits for the configuration that it keeps
\* from others itself, and retries do not go on for ever.
ImportsEnd == \A t \in Importer : pc[t] # "idle" ~> pc[t] = "idle"

\* "An attempt that fails leaves nothing behind."
NothingIsLeftBehind == \A r \in Repo : AtWork(r) = {} /\ guard[r] = "none" => tree[r] = "none"

\* "a live lock must never be removed"
LiveLocksStay == \A r \in Repo : \A t \in AtWork(r) : fileLock[r] = t
=============================================================================
