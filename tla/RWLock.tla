------------------------------- MODULE RWLock -------------------------------
(***************************************************************************)
(* What the lock over one sandbox environment promises, stated without     *)
(* counters, polls or files.  Tasks of several PartCAD processes run       *)
(* wrappers out of the environment (readers) or install into it (writers). *)
(* Within a process a writer excludes everybody; across processes writers  *)
(* exclude writers.  A reader of one process and a writer of another may   *)
(* meet: the class documentation of EnvironmentLock grants that on         *)
(* purpose, so the promise has to grant it too.                            *)
(***************************************************************************)
EXTENDS FiniteSets

CONSTANTS Task,      \* whatever asks for the lock: threads and asyncio tasks
          Process,   \* the PartCAD processes that share the environment
          Home       \* Home[t] is the process that task t belongs to

VARIABLES reading,   \* the tasks inside the environment as readers
          writing    \* the tasks inside the environment as writers

rwVars == <<reading, writing>>

Of(p) == {t \in Task : Home[t] = p}

RWTypeOK == /\ reading \subseteq Task
            /\ writing \subseteq Task

RWInit == /\ reading = {}
          /\ writing = {}

EnterReading(t) ==
    /\ t \notin reading \cup writing
    /\ writing \cap Of(Home[t]) = {}
    /\ reading' = reading \cup {t}
    /\ UNCHANGED writing

EnterWriting(t) ==
    /\ writing = {}
    /\ reading \cap Of(Home[t]) = {}
    /\ writing' = {t}
    /\ UNCHANGED reading

Leave(t) ==
    /\ t \in reading \cup writing
    /\ reading' = reading \ {t}
    /\ writing' = writing \ {t}

\* A process that dies takes everything it held with it.
Die(p) ==
    /\ reading' = reading \ Of(p)
    /\ writing' = writing \ Of(p)

RWNext == \/ \E t \in Task : EnterReading(t) \/ EnterWriting(t) \/ Leave(t)
          \/ \E p \in Process : Die(p)

RWSpec == RWInit /\ [][RWNext]_rwVars
=============================================================================
