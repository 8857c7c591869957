---------------------------- MODULE SandboxSlots -----------------------------
(***************************************************************************)
(* Everything that the work of a command waits for, in the order in which  *)
(* the code takes it: the gate of a test (concurrency.py), the two locks   *)
(* of a shape (Shape.locked), a thread of the constrained pool, the lock   *)
(* of an environment, the lock of conda for an install, and a process slot *)
(* (sandbox_lock.py).  ShapeBuild and EnvironmentLock each look at one of  *)
(* these layers; here a task holds several at a time.                      *)
(*                                                                         *)
(* A task is a stretch of a coroutine.  It holds its shape while it awaits *)
(* the tasks it asked for, and then makes its uses of the sandbox, one by  *)
(* one: a package to be ensured, or a wrapper to be run.                   *)
(*   - A render (Project.render_async) is one task that gets the shape and *)
(*     one, after it, that has the file written, for each shape and file   *)
(*     type, all on the loop of the command.                               *)
(*   - Getting a shape awaits a job; a job is a task with a loop of its    *)
(*     own, in a thread of the pool, that may have to get a source first.  *)
(*   - A test is a task without a shape that goes through the gate of its  *)
(*     loop, unless it is run from inside of a test that did.              *)
(* The locks, threads, slots and permits that a task has follow from how   *)
(* far it is: it gives them back however it ends, as every one of them is  *)
(* taken in a `with`.                                                      *)
(***************************************************************************)
EXTENDS Naturals, FiniteSets, Sequences

CONSTANTS
    Client,      \* the loops of commands
    Task, Shape, Environment, Package,
    OuterOf,     \* the task that awaits a task, or the client
    After,       \* the tasks that come before it in the same coroutine
    LoopOf,      \* a client, or the job whose loop it is
    ShapeOf,     \* the shape that is held, or None
    Gated,       \* the tasks that are tests
    EnvOf, Uses, \* what a task runs, and out of which environment
    Wrapper,     \* a use that is not an install
    MayFail,     \* the tasks whose wrapper may fail
    Setting,     \* see SettingOK
    None

\* asked:     what the clients ask for
\* installed: what the environments have
\* slots, threads, permits: how many processes, jobs and tests there may be
SettingOK(s) ==
    /\ s.asked \subseteq Task
    /\ s.installed \in [Environment -> SUBSET Package]
    /\ s.slots \in Nat \ {0} /\ s.threads \in Nat \ {0} /\ s.permits \in Nat \ {0}

ASSUME SlotsAssumption ==
    /\ Client \cap Task = {} /\ None \notin Shape /\ Wrapper \notin Package
    /\ OuterOf \in [Task -> Task \cup Client]
    /\ After \in [Task -> SUBSET Task]
    /\ LoopOf \in [Task -> Task \cup Client]
    /\ \A t \in Task : \/ LoopOf[t] = t
                       \/ LoopOf[t] = IF OuterOf[t] \in Client THEN OuterOf[t]
                                      ELSE LoopOf[OuterOf[t]]
    /\ ShapeOf \in [Task -> Shape \cup {None}]
    /\ Gated \subseteq Task /\ MayFail \subseteq Task
    /\ EnvOf \in [Task -> Environment]
    /\ Uses \in [Task -> Seq(Package \cup {Wrapper})]
    /\ \A s \in Setting : SettingOK(s)

VARIABLES
    setting,
    pc,          \* how far each task is
    used,        \* how many of its uses it has made
    installed,   \* the packages of each environment
    built        \* the shapes that there are

vars == <<setting, pc, used, installed, built>>

Ended == {"made", "failed", "cancelled"}
\* In the order of a task's life: before it holds its shape, and from then on.
Early == {"waiting", "gate", "entering", "blocked", "queued"}
Late == {"inside", "locking", "conda", "slot", "running"}

Goto(t, place) == pc' = [pc EXCEPT ![t] = place]

Kids(t) == {k \in Task : OuterOf[k] = t}
Jobs == {t \in Task : LoopOf[t] = t}
OnLoop(l) == {t \in Task : LoopOf[t] = l}
Gets(t) == ShapeOf[t] # None /\ Uses[t] = <<>>

-----------------------------------------------------------------------------
(* What there is to wait for.                                              *)

\* A loop runs its tasks unless one of them has stopped its thread.
Turns(t) == \A u \in OnLoop(LoopOf[t]) : pc[u] # "blocked"

\* The gate: the outermost tests of a loop count, whatever they run inside.
Admitted(l) == {t \in Gated \cap OnLoop(l) : /\ OuterOf[t] \notin Gated
                                             /\ pc[t] \notin Ended \cup {"waiting", "gate"}}
GoesThrough(t) == t \notin Gated \/ OuterOf[t] \in Gated

\* The lock of threads on a shape, and then the one of the loop.
Holding == Late \cup {"queued"}
LetsPass(t) == \A u \in Task : ShapeOf[u] = ShapeOf[t] /\ pc[u] \in Holding
                                 => LoopOf[u] = LoopOf[t]
HasTurn(t) == \A u \in OnLoop(LoopOf[t]) : ShapeOf[u] = ShapeOf[t] => pc[u] \notin Late

\* The threads of the pool.
Busy == {t \in Jobs : pc[t] \in Late}

\* The environment's lock: an install writes, a wrapper reads, and readers defer
\* to a writer that waits.
Use(t) == Uses[t][used[t] + 1]
Installs(t) == used[t] < Len(Uses[t]) /\ Use(t) # Wrapper
In(e, places) == {t \in Task : EnvOf[t] = e /\ pc[t] \in places}
HoldingLock == {"conda", "slot", "running"}
Writer(e) == {t \in In(e, HoldingLock) : Installs(t)}
Waiting(e) == {t \in In(e, {"locking"}) : Installs(t)}
MayEnter(t) == IF Installs(t) THEN In(EnvOf[t], HoldingLock) = {}
               ELSE Writer(EnvOf[t]) \cup Waiting(EnvOf[t]) = {}

\* The one lock over conda, and the slots.
InConda == {t \in Task : pc[t] \in {"slot", "running"} /\ Installs(t)}
InSlotEarly == {t \in Task : \/ pc[t] = "running"  \* a wrapper has one before its lock
                             \/ pc[t] \in {"locking", "slot"} /\ ~Installs(t)}
InSlot == {t \in Task : pc[t] = "running"}

Init ==
    /\ setting \in Setting
    /\ pc = [t \in Task |-> "waiting"]
    /\ used = [t \in Task |-> 0]
    /\ installed = setting.installed
    /\ built = {}

-----------------------------------------------------------------------------
IsAsked(t) == IF OuterOf[t] \in Client THEN t \in setting.asked
              ELSE pc[OuterOf[t]] = "inside"

\* A task is created, once what comes before it is through; a job needs a thread.
Begin(t) ==
    /\ pc[t] = "waiting" /\ IsAsked(t) /\ Turns(t)
    /\ \A u \in After[t] : pc[u] = "made"
    /\ t \in Jobs => Cardinality(Busy) < setting.threads
    /\ Goto(t, IF ~GoesThrough(t) THEN "gate"
               ELSE IF ShapeOf[t] # None THEN "entering" ELSE "inside")
    /\ UNCHANGED <<setting, used, installed, built>>

\* What comes before it raised.
NeverBegin(t) ==
    /\ pc[t] = "waiting" /\ IsAsked(t) /\ Turns(t)
    /\ \E u \in After[t] : pc[u] = "failed"
    /\ Goto(t, "failed")
    /\ UNCHANGED <<setting, used, installed, built>>

Admit(t) ==
    /\ pc[t] = "gate" /\ Turns(t)
    /\ Cardinality(Admitted(LoopOf[t])) < setting.permits
    /\ Goto(t, IF ShapeOf[t] # None THEN "entering" ELSE "inside")
    /\ UNCHANGED <<setting, used, installed, built>>

\* `with self.lock`: in, or the thread stops right here.
Enter(t) ==
    /\ pc[t] = "entering" /\ Turns(t)
    /\ Goto(t, IF LetsPass(t) THEN "queued" ELSE "blocked")
    /\ UNCHANGED <<setting, used, installed, built>>

Unblock(t) ==
    /\ pc[t] = "blocked" /\ LetsPass(t)
    /\ Goto(t, "queued")
    /\ UNCHANGED <<setting, used, installed, built>>

TakeTurn(t) ==
    /\ pc[t] = "queued" /\ Turns(t) /\ HasTurn(t)
    /\ Goto(t, IF Gets(t) /\ ShapeOf[t] \in built THEN "made" ELSE "inside")
    /\ UNCHANGED <<setting, used, installed, built>>

\* The next use: a package that is there needs nothing, and the lock is asked for
\* otherwise; a wait for writing is announced.
Ask(t) ==
    /\ pc[t] = "inside" /\ Turns(t)
    /\ \A k \in Kids(t) : pc[k] = "made"
    /\ used[t] < Len(Uses[t])
    /\ IF Use(t) \in installed[EnvOf[t]]
       THEN used' = [used EXCEPT ![t] = @ + 1] /\ UNCHANGED pc
       ELSE Goto(t, "locking") /\ UNCHANGED used
    /\ UNCHANGED <<setting, installed, built>>

TakeLock(t) ==
    /\ pc[t] = "locking" /\ Turns(t) /\ MayEnter(t)
    /\ Goto(t, IF Installs(t) THEN "conda" ELSE "slot")
    /\ UNCHANGED <<setting, used, installed, built>>

\* The install lock, and a last look whether the package is there by now.
TakeConda(t) ==
    /\ pc[t] = "conda" /\ Turns(t) /\ InConda = {}
    /\ IF Use(t) \in installed[EnvOf[t]]
       THEN used' = [used EXCEPT ![t] = @ + 1] /\ Goto(t, "inside")
       ELSE Goto(t, "slot") /\ UNCHANGED used
    /\ UNCHANGED <<setting, installed, built>>

TakeSlot(t) ==
    /\ pc[t] = "slot" /\ Turns(t)
    /\ Cardinality(InSlot \ {t}) < setting.slots
    /\ Goto(t, "running")
    /\ UNCHANGED <<setting, used, installed, built>>

\* The process has exited, and the loop gets to see it.
RunEnds(t) ==
    /\ pc[t] = "running" /\ Turns(t)
    /\ installed' = IF Installs(t) THEN [installed EXCEPT ![EnvOf[t]] = @ \cup {Use(t)}]
                                   ELSE installed
    /\ used' = [used EXCEPT ![t] = @ + 1]
    /\ Goto(t, "inside")
    /\ UNCHANGED <<setting, built>>

\* The wrapper failed, or something that was awaited has.
Fail(t) ==
    /\ Turns(t)
    /\ \/ pc[t] = "running" /\ ~Installs(t) /\ t \in MayFail
       \/ pc[t] = "inside" /\ \E k \in Kids(t) : pc[k] = "failed"
    /\ Goto(t, "failed")
    /\ UNCHANGED <<setting, used, installed, built>>

Finish(t) ==
    /\ pc[t] = "inside" /\ Turns(t)
    /\ \A k \in Kids(t) : pc[k] = "made"
    /\ used[t] = Len(Uses[t])
    /\ Goto(t, "made")
    /\ built' = IF Gets(t) THEN built \cup {ShapeOf[t]} ELSE built
    /\ UNCHANGED <<setting, used, installed>>

\* The command is over, as something it asked for has raised: what its loop still
\* has is cancelled, and jobs that have a thread run on.
Close(c) ==
    /\ \A u \in OnLoop(c) : pc[u] # "blocked"
    /\ \E t \in setting.asked : OuterOf[t] = c /\ pc[t] = "failed"
    /\ \E t \in OnLoop(c) : pc[t] \notin Ended
    /\ pc' = [t \in Task |-> IF LoopOf[t] = c /\ pc[t] \notin Ended THEN "cancelled" ELSE pc[t]]
    /\ UNCHANGED <<setting, used, installed, built>>

Step(t) ==
    \/ Begin(t) \/ NeverBegin(t) \/ Admit(t) \/ Enter(t) \/ Unblock(t) \/ TakeTurn(t)
    \/ Ask(t) \/ TakeLock(t) \/ TakeConda(t) \/ TakeSlot(t) \/ RunEnds(t)
    \/ Fail(t) \/ Finish(t)

Work == \E t \in Task : Step(t)

Next == Work \/ \E c \in Client : Close(c)

\* Loops run the tasks that are ready, polls are repeated, and processes exit.  As
\* every step takes a task further, it is enough that some step is taken.
Spec == Init /\ [][Next]_vars /\ WF_vars(Work)

-----------------------------------------------------------------------------
\* In the settings that are checked, which leave a slot over for whoever a stopped loop waits
\* for, no order of gates, locks, threads and slots has a command wait for ever: each task that
\* is begun ends (process_slots, Shape.locked, ReentrantGate.run).
RendersEnd == <>[](\A t \in Task : pc[t] \in Ended \cup {"waiting"})

\* A process slot is held by who runs, and never by who waits for a lock: the
\* loop of a process goes on until the process is done (ProcessSlots).
SlotHoldersRun == \A t \in InSlot : Turns(t)
=============================================================================
