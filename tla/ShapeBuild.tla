----------------------------- MODULE ShapeBuild -----------------------------
(***************************************************************************)
(* How shapes get built: shape.py's locks and sync_threads.py's thread     *)
(* pool.  A request for a shape (Shape.get_wrapped) is a task on an event  *)
(* loop.  It takes two locks, in this order: the shape's threading.RLock,  *)
(* which lets every task of one thread pass and makes everybody else's     *)
(* whole thread wait, and then an asyncio.Lock of the loop, which makes    *)
(* only the task wait.  Under both it looks for the shape and, if there is *)
(* none, has it built:                                                     *)
(*   - an assembly asks for its children in tasks of the same loop;        *)
(*   - a part or a sketch sends a job to the constrained thread pool and   *)
(*     the job, a fresh event loop in a thread of the pool, asks for what  *)
(*     the part derives from (the sketch an extrusion extrudes, the source *)
(*     of an alias, the assembly of a compound) and then runs the wrapper. *)
(* So a job waits, in its thread of the pool, for a job that needs another *)
(* one, and a loop that closes cancels the tasks it still has but not the  *)
(* jobs that they sent.                                                    *)
(*                                                                         *)
(* The requests are given as a tree (ParentOf); each is made at most once, *)
(* and NeedsInOrder bounds what the clients ask.  What a job does besides  *)
(* asking for its source is one step; filling an assembly's children, in   *)
(* the detached pool (assembly.py:168), never asks for a shape and is part *)
(* of StartAssembly.  Every finished shape is kept, in memory or a cache.  *)
(***************************************************************************)
EXTENDS Naturals, FiniteSets

CONSTANTS
    Client,     \* the callers, each with an event loop of its own
    Shape,
    Assembly,   \* the shapes that are assemblies; the others are built by a job
    Task,       \* the requests for a shape
    ParentOf,   \* the request a request is made for, or the client that makes it
    ShapeOf,    \* the shape a request is for
    LoopOf,     \* the loop it runs on: a client's, or that of a request's job
    Threads,    \* the threads of the constrained pool
    MayFail     \* the shapes whose job may come back with nothing

ASSUME NeedsInOrder ==
    /\ Assembly \subseteq Shape /\ MayFail \subseteq Shape
    /\ Client \cap Task = {}
    /\ ShapeOf \in [Task -> Shape]
    /\ ParentOf \in [Task -> Task \cup Client]
    /\ LoopOf \in [Task -> Task \cup Client]
    /\ \A t \in Task :
          LoopOf[t] = IF ParentOf[t] \in Client THEN ParentOf[t]
                      ELSE IF ShapeOf[ParentOf[t]] \in Assembly THEN LoopOf[ParentOf[t]]
                      ELSE ParentOf[t]
    /\ Threads \in Nat \ {0}

VARIABLES
    phase,      \* where each request has got to
    job,        \* the job it sent to the pool
    kept        \* the shapes that were built

vars == <<phase, job, kept>>

(* A request that is "blocked" stops its thread in `with self.lock`; one   *)
(* that is "queued" is past it, waiting for the loop's own lock.           *)
Inside == {"queued", "building"}
Ended == {"made", "failed", "cancelled"}
Phases == Inside \cup Ended \cup {"new", "created", "blocked"}
Jobs == {"none", "queued", "running", "made", "failed"}

Children(t) == {c \in Task : ParentOf[c] = t}
OnLoop(l) == {t \in Task : LoopOf[t] = l}
Roots(c) == {t \in Task : ParentOf[t] = c}

\* The loops whose threads hold a shape's threading lock.
LockedBy(s) == {LoopOf[t] : t \in {u \in Task : ShapeOf[u] = s /\ phase[u] \in Inside}}
HasAnyTurn(t) == phase[t] # "building"

LetsPass(t) == LockedBy(ShapeOf[t]) \subseteq {LoopOf[t]}

\* A loop runs its tasks unless one of them has stopped its thread.
Turns(l) == \A t \in OnLoop(l) : phase[t] # "blocked"

\* The loop's own lock on the shape is free.
HasTurn(t) == \A u \in OnLoop(LoopOf[t]) : ShapeOf[u] = ShapeOf[t] => phase[u] # "building"

Running == {t \in Task : job[t] = "running"}

\* The phases once a loop closes: what it still has is cancelled.
Closed(l) == [u \in Task |-> IF LoopOf[u] = l /\ phase[u] \notin Ended \cup {"new"}
                               THEN "cancelled" ELSE phase[u]]
\* Cancelling takes a job out of the pool's queue, and leaves a running one alone.
Dropped(l) == [u \in Task |-> IF LoopOf[u] = l /\ job[u] = "queued" THEN "none" ELSE job[u]]

Init ==
    /\ phase = [t \in Task |-> IF ParentOf[t] \in Client THEN "created" ELSE "new"]
    /\ job = [t \in Task |-> "none"]
    /\ kept = {}

-----------------------------------------------------------------------------
\* `with self.lock`: in, or the thread stops right here.
Enter(t) ==
    /\ phase[t] = "created"
    /\ Turns(LoopOf[t])
    /\ phase' = [phase EXCEPT ![t] = IF LetsPass(t) THEN "queued" ELSE "blocked"]
    /\ UNCHANGED <<job, kept>>

Unblock(t) ==
    /\ phase[t] = "blocked"
    /\ LetsPass(t)
    /\ phase' = [phase EXCEPT ![t] = "queued"]
    /\ UNCHANGED <<job, kept>>

\* Its turn for the loop's lock, and the shape has been built meanwhile.
FindKept(t) ==
    /\ phase[t] = "queued"
    /\ Turns(LoopOf[t]) /\ HasTurn(t)
    /\ ShapeOf[t] \in kept
    /\ phase' = [phase EXCEPT ![t] = "made"]
    /\ UNCHANGED <<job, kept>>

\* As FindNothing, for a get_wrapped that looked only before it had the locks.
FindNothingStale(t) ==
    /\ phase[t] = "queued"
    /\ Turns(LoopOf[t]) /\ HasTurn(t)

\* Its turn, and nobody has built the shape.
FindNothing(t) ==
    /\ phase[t] = "queued"
    /\ Turns(LoopOf[t]) /\ HasTurn(t)
    /\ ShapeOf[t] \notin kept

StartAssembly(t) ==
    /\ FindNothing(t)
    /\ ShapeOf[t] \in Assembly
    /\ phase' = [u \in Task |-> IF u = t THEN "building"
                                ELSE IF u \in Children(t) THEN "created" ELSE phase[u]]
    /\ UNCHANGED <<job, kept>>

SendJob(t) ==
    /\ FindNothing(t)
    /\ ShapeOf[t] \notin Assembly
    /\ phase' = [phase EXCEPT ![t] = "building"]
    /\ job' = [job EXCEPT ![t] = "queued"]
    /\ UNCHANGED kept

\* As StartJob, with a thread of the pool lost.
StartJobThreadLost(t) ==
    /\ job[t] = "queued"
    /\ Cardinality(Running) < Threads - 1
    /\ job' = [job EXCEPT ![t] = "running"]
    /\ phase' = [u \in Task |-> IF u \in Children(t) THEN "created" ELSE phase[u]]
    /\ UNCHANGED kept

\* A thread of the pool takes the job: a new loop, that asks for the source.
StartJob(t) ==
    /\ job[t] = "queued"
    /\ Cardinality(Running) < Threads
    /\ job' = [job EXCEPT ![t] = "running"]
    /\ phase' = [u \in Task |-> IF u \in Children(t) THEN "created" ELSE phase[u]]
    /\ UNCHANGED kept

\* The job has its source and is through, which closes its loop.
EndJob(t, outcome) ==
    /\ job[t] = "running"
    /\ Turns(t)
    /\ \A c \in Children(t) : phase[c] \in Ended
    /\ outcome = "failed" \/ \A c \in Children(t) : phase[c] = "made"
    /\ outcome = "made" \/ ShapeOf[t] \in MayFail \/ \E c \in Children(t) : phase[c] # "made"
    /\ job' = [Dropped(t) EXCEPT ![t] = outcome]
    /\ phase' = Closed(t)
    /\ UNCHANGED kept

-----------------------------------------------------------------------------
\* The task is told of its job's end, keeps the shape and lets go of the locks.
FinishPart(t) ==
    /\ phase[t] = "building"
    /\ ShapeOf[t] \notin Assembly
    /\ job[t] \in {"made", "failed"}
    /\ Turns(LoopOf[t])
    /\ phase' = [phase EXCEPT ![t] = job[t]]
    /\ kept' = IF job[t] = "made" THEN kept \cup {ShapeOf[t]} ELSE kept
    /\ UNCHANGED job

FinishAssembly(t) ==
    /\ phase[t] = "building"
    /\ ShapeOf[t] \in Assembly
    /\ Turns(LoopOf[t])
    /\ \A c \in Children(t) : phase[c] = "made"
    /\ phase' = [phase EXCEPT ![t] = "made"]
    /\ kept' = kept \cup {ShapeOf[t]}
    /\ UNCHANGED job

\* asyncio.gather raises for the first child that fails; the others go on.
FailAssembly(t) ==
    /\ phase[t] = "building"
    /\ ShapeOf[t] \in Assembly
    /\ Turns(LoopOf[t])
    /\ \E c \in Children(t) : phase[c] = "failed"
    /\ phase' = [phase EXCEPT ![t] = "failed"]
    /\ UNCHANGED <<job, kept>>

\* A client's loop closes: its requests ended, or one of them raised.
Leave(c) ==
    /\ Turns(c)
    /\ \/ \A t \in Roots(c) : phase[t] \in Ended
       \/ \E t \in Roots(c) : phase[t] = "failed"
    /\ \E t \in OnLoop(c) : phase[t] \notin Ended \cup {"new"}
    /\ phase' = Closed(c)
    /\ job' = Dropped(c)
    /\ UNCHANGED kept

Step(t) ==
    \/ Enter(t) \/ Unblock(t) \/ FindKept(t) \/ StartAssembly(t) \/ SendJob(t)
    \/ StartJob(t) \/ FinishPart(t) \/ FinishAssembly(t) \/ FailAssembly(t)
    \/ \E outcome \in {"made", "failed"} : EndJob(t, outcome)

Build == \E t \in Task : Step(t)

Next == Build \/ \E c \in Client : Leave(c)

(* Loops run the tasks that are ready, threads wake up when the lock they  *)
(* wait for is free, and a wrapper ends, by itself or when its time is up. *)
(* Each step takes a request further and there are as many requests as     *)
(* asked, so it is enough that some step that can be taken is.             *)
Fairness == WF_vars(Build)

Spec == Init /\ [][Next]_vars /\ Fairness

-----------------------------------------------------------------------------
TypeOK ==
    /\ phase \in [Task -> Phases]
    /\ job \in [Task -> Jobs]
    /\ kept \subseteq Shape

\* The two locks together let one request at a time work on a shape, whichever
\* loops and threads the requests run on, failures and closing loops included.
OneBuilder ==
    \A t, u \in {r \in Task : phase[r] = "building"} : ShapeOf[t] = ShapeOf[u] => t = u

\* No job is started for a shape that has been built.
KeptIsNotRebuilt ==
    [][\A t \in Task : job[t] = "queued" /\ job'[t] = "running" => ShapeOf[t] \notin kept]_vars

\* Every request that is made is answered, or cancelled along with its loop:
\* no set of requests comes to wait for one another or for a thread.
BuildsEnd == <>[](\A t \in Task : phase[t] \in Ended \cup {"new"})
=============================================================================
