-------------------------- MODULE EnvironmentLock ---------------------------
(***************************************************************************)
(* EnvironmentLock of src/partcad/sandbox_lock.py: one readers/writer lock *)
(* over one sandbox environment, as the tasks of several PartCAD processes *)
(* use it.  In a process the lock is two counters and a flag under a       *)
(* mutex, so every _try_acquire and every _release is one atomic step; a   *)
(* waiting task polls.  Between processes there is only the lock file,     *)
(* which a writer holds.                                                   *)
(*                                                                         *)
(* What is between two steps of a task is what its own code does without   *)
(* the mutex: a write that missed has not announced itself yet, and a      *)
(* writer that got in has not withdrawn its announcement yet.              *)
(***************************************************************************)
EXTENDS Integers, FiniteSets

CONSTANTS User, Process, Home,
          Async,       \* the tasks that wait in _wait_async: they can be cancelled
          NoProcess    \* nobody holds the lock file

ASSUME UserAssumption == /\ IsFiniteSet(User)
                         /\ Async \subseteq User
                         /\ Home \in [User -> Process]
                         /\ NoProcess \notin Process

VARIABLES place,           \* where each task is
          forWrite,        \* what it asked for: TRUE to install, FALSE to run
          readers,         \* _readers of each process
          writer,          \* _writer of each process
          writersWaiting,  \* _writers_waiting of each process
          fileLock         \* the process that holds the lock file

lockVars == <<place, forWrite, readers, writer, writersWaiting, fileLock>>

\* out       not using the environment
\* missed    the first try of a write failed, not counted as waiting yet
\* polling   in the polling loop (a write is counted as waiting)
\* admitted  the poll of a write succeeded, still counted as waiting
\* failed    the lock file raised in the polling loop, still counted
\* inside    in the body of the with statement
Place == {"out", "missed", "polling", "admitted", "failed", "inside"}

Of(p) == {t \in User : Home[t] = p}

Reading == {t \in User : place[t] = "inside" /\ ~forWrite[t]}
Writing == {t \in User : place[t] \in {"inside", "admitted"} /\ forWrite[t]}
Counted == {t \in User : place[t] \in {"polling", "admitted", "failed"} /\ forWrite[t]}

LockInit ==
    /\ place = [t \in User |-> "out"]
    /\ forWrite = [t \in User |-> FALSE]
    /\ readers = [p \in Process |-> 0]
    /\ writer = [p \in Process |-> FALSE]
    /\ writersWaiting = [p \in Process |-> 0]
    /\ fileLock = NoProcess

-----------------------------------------------------------------------------
\* Mistakes the properties below must notice (see "mutants" in PROJECT.json):
\* readers that do not defer, a write that looks at half of the lock, a cancelled
\* wait that forgets its announcement, a release of the wrong half.
CanReadUndeferred(p) == ~writer[p]
CanWriteOverReaders(p) == ~writer[p] /\ fileLock = NoProcess
CanWriteWithoutFile(p) == ~writer[p] /\ readers[p] = 0

CancelUnwithdrawn(t) ==
    /\ place[t] = "polling" /\ t \in Async
    /\ place' = [place EXCEPT ![t] = "out"]
    /\ UNCHANGED <<forWrite, readers, writer, writersWaiting, fileLock>>

\* When _try_acquire answers True.
CanRead(p) == ~writer[p] /\ writersWaiting[p] = 0
CanWrite(p) == ~writer[p] /\ readers[p] = 0 /\ fileLock = NoProcess

\* What _try_acquire does when it answers True.
TakeRead(p) == /\ CanRead(p)
               /\ readers' = [readers EXCEPT ![p] = @ + 1]
               /\ UNCHANGED <<writer, writersWaiting, fileLock>>

TakeWrite(p) == /\ CanWrite(p)
                /\ writer' = [writer EXCEPT ![p] = TRUE]
                /\ fileLock' = p
                /\ UNCHANGED <<readers, writersWaiting>>

\* acquire(write): the first try, made before anything is announced.
Ask(t, w) ==
    /\ place[t] = "out"
    /\ forWrite' = [forWrite EXCEPT ![t] = w]
    /\ \/ /\ IF w THEN TakeWrite(Home[t]) ELSE TakeRead(Home[t])
          /\ place' = [place EXCEPT ![t] = "inside"]
       \/ /\ IF w THEN ~CanWrite(Home[t]) ELSE ~CanRead(Home[t])
          /\ place' = [place EXCEPT ![t] = IF w THEN "missed" ELSE "polling"]
          /\ UNCHANGED <<readers, writer, writersWaiting, fileLock>>

\* A write that missed counts itself, which is what readers defer to.
Announce(t) ==
    /\ place[t] = "missed"
    /\ place' = [place EXCEPT ![t] = "polling"]
    /\ writersWaiting' = [writersWaiting EXCEPT ![Home[t]] = @ + 1]
    /\ UNCHANGED <<forWrite, readers, writer, fileLock>>

\* The poll that succeeds.  One that does not changes nothing.
PollRead(t) ==
    /\ place[t] = "polling" /\ ~forWrite[t]
    /\ TakeRead(Home[t])
    /\ place' = [place EXCEPT ![t] = "inside"]
    /\ UNCHANGED forWrite

PollWrite(t) ==
    /\ place[t] = "polling" /\ forWrite[t]
    /\ TakeWrite(Home[t])
    /\ place' = [place EXCEPT ![t] = "admitted"]
    /\ UNCHANGED forWrite

\* The poll finds the way clear but the lock file cannot be opened.
FileFails(t) ==
    /\ place[t] = "polling" /\ forWrite[t]
    /\ ~writer[Home[t]] /\ readers[Home[t]] = 0
    /\ place' = [place EXCEPT ![t] = "failed"]
    /\ UNCHANGED <<forWrite, readers, writer, writersWaiting, fileLock>>

\* An asyncio task is cancelled in the sleep between two polls.
Cancel(t) ==
    /\ place[t] = "polling" /\ t \in Async
    /\ place' = [place EXCEPT ![t] = IF forWrite[t] THEN "failed" ELSE "out"]
    /\ UNCHANGED <<forWrite, readers, writer, writersWaiting, fileLock>>

\* The finally clause of the polling loop, however the loop was left.
Withdraw(t) ==
    /\ place[t] \in {"admitted", "failed"}
    /\ place' = [place EXCEPT ![t] = IF @ = "admitted" THEN "inside" ELSE "out"]
    /\ writersWaiting' = [writersWaiting EXCEPT ![Home[t]] = @ - 1]
    /\ UNCHANGED <<forWrite, readers, writer, fileLock>>

\* The finally clause of acquire(): the body returned, raised or was cancelled.
Release(t) ==
    /\ place[t] = "inside"
    /\ place' = [place EXCEPT ![t] = "out"]
    /\ IF forWrite[t]
       THEN /\ writer' = [writer EXCEPT ![Home[t]] = FALSE]
            /\ fileLock' = NoProcess
            /\ UNCHANGED readers
       ELSE /\ readers' = [readers EXCEPT ![Home[t]] = @ - 1]
            /\ UNCHANGED <<writer, fileLock>>
    /\ UNCHANGED <<forWrite, writersWaiting>>

\* A process is killed and starts over: its memory is gone, and the operating
\* system lets go of the lock file that it held.
Killed(p) ==
    /\ \E t \in Of(p) : place[t] # "out"
    /\ place' = [t \in User |-> IF Home[t] = p THEN "out" ELSE place[t]]
    /\ readers' = [readers EXCEPT ![p] = 0]
    /\ writer' = [writer EXCEPT ![p] = FALSE]
    /\ writersWaiting' = [writersWaiting EXCEPT ![p] = 0]
    /\ fileLock' = IF fileLock = p THEN NoProcess ELSE fileLock
    /\ UNCHANGED forWrite

LockStep(t) == \/ \E w \in BOOLEAN : Ask(t, w)
               \/ Announce(t) \/ PollRead(t) \/ PollWrite(t) \/ FileFails(t)
               \/ Cancel(t) \/ Withdraw(t) \/ Release(t)

LockNext == \/ \E t \in User : LockStep(t)
            \/ \E p \in Process : Killed(p)

LockSpec == LockInit /\ [][LockNext]_lockVars

\* A poll is repeated for ever, so one that stays possible is made (weak
\* fairness, never strong: a task may sleep through every chance it gets).
\* Nothing makes a task ask, cancel or crash; a body ends because a sandbox
\* process ends or is killed at its timeout.
LockFairness == \A t \in User : /\ WF_lockVars(Announce(t))
                                /\ WF_lockVars(PollRead(t))
                                /\ WF_lockVars(PollWrite(t))
                                /\ WF_lockVars(Withdraw(t))
                                /\ WF_lockVars(Release(t))

LockFairSpec == LockSpec /\ LockFairness

-----------------------------------------------------------------------------
LockTypeOK ==
    /\ place \in [User -> Place]
    /\ forWrite \in [User -> BOOLEAN]
    /\ readers \in [Process -> Nat]
    /\ writer \in [Process -> BOOLEAN]
    /\ writersWaiting \in [Process -> Nat]
    /\ fileLock \in Process \cup {NoProcess}
    /\ \A t \in User : place[t] \in {"missed", "admitted", "failed"} => forWrite[t]

\* An install into the environment is alone: no wrapper of its own process
\* runs out of the environment meanwhile, and no other task of any process is
\* installing (sandbox_lock.py, EnvironmentLock).
InstallIsAlone ==
    \A t \in Writing : /\ Reading \cap Of(Home[t]) = {}
                       /\ Writing = {t}

\* No counter leaks.  However tasks leave the polling loop and the body
\* (served, cancelled, failed, killed), each counter is the number of tasks it
\* stands for: one left too high locks the environment for good, one too low
\* lets an install in among running wrappers.
CountersAreExact ==
    \A p \in Process :
        /\ readers[p] = Cardinality(Reading \cap Of(p))
        /\ writersWaiting[p] = Cardinality(Counted \cap Of(p))
        /\ writer[p] <=> (Writing \cap Of(p) # {})
        /\ writer[p] <=> (fileLock = p)

\* An install that waits is not starved by a stream of wrappers: as long as
\* writers are waiting in a process, some install of some process gets its
\* turn, unless the writers all give up first.
InstallGetsItsTurn ==
    \A p \in Process :
        writersWaiting[p] > 0 ~> (Writing # {} \/ writersWaiting[p] = 0)

\* The promise: the tasks inside, and nothing else, are what RWLock sees.
Promise == INSTANCE RWLock WITH Task <- User, reading <- Reading, writing <- Writing
ImplementsRWLock == Promise!RWSpec
=============================================================================
