-------------------------- MODULE ShapeBuild_proof --------------------------
(***************************************************************************)
(* For any shapes, any requests for them, any number of clients and of     *)
(* threads, with jobs that fail and loops that close: one request at a     *)
(* time builds a shape, and no job is started for a shape that is there.   *)
(*                                                                         *)
(* Neither lock does it alone, which is what IInv says: the thread lock    *)
(* leaves a shape to the requests of one loop (OneLoop), of which the      *)
(* loop's lock lets one build; and whatever is being built was looked for  *)
(* under both (NotThereYet), its job sent while it is (SentByBuilder).     *)
(* ParentsFirst and JobsOfParts keep a request from being made twice.      *)
(***************************************************************************)
EXTENDS ShapeBuild, TLAPS

\* Everybody past a shape's threading lock is on one loop (shape.py:392).
OneLoop ==
    \A t, u \in Task :
        phase[t] \in Inside /\ phase[u] \in Inside /\ ShapeOf[t] = ShapeOf[u]
            => LoopOf[t] = LoopOf[u]

\* What is being built is not there yet (shape.py:553).
NotThereYet == \A t \in Task : phase[t] = "building" => ShapeOf[t] \notin kept

\* A job in the pool's queue belongs to a request that still has the locks.
SentByBuilder == \A t \in Task : job[t] = "queued" => phase[t] = "building"

\* Nothing is asked for a request before it has come to ask (assembly.py:259,
\* part_factory_extrude.py:75).
ParentsFirst ==
    \A t, c \in Task :
        ParentOf[c] = t /\ phase[c] # "new" =>
            \/ ShapeOf[t] \in Assembly /\ phase[t] \in {"building"} \cup Ended
            \/ ShapeOf[t] \notin Assembly /\ job[t] \in {"running", "made", "failed"}

\* Only a part has a job, and only once it builds (part.py:33).
JobsOfParts ==
    \A t \in Task :
        job[t] # "none" => ShapeOf[t] \notin Assembly /\ phase[t] \in {"building"} \cup Ended

IInv ==
    /\ TypeOK
    /\ OneLoop /\ OneBuilder /\ NotThereYet /\ SentByBuilder /\ ParentsFirst /\ JobsOfParts

USE NeedsInOrder

-----------------------------------------------------------------------------
(* The state is well typed.                                                *)

\* Closing a loop leaves every request with a phase and every job with a state.
LEMMA ClosingTypes ==
    ASSUME TypeOK, NEW l
    PROVE  Closed(l) \in [Task -> Phases] /\ Dropped(l) \in [Task -> Jobs]
BY DEF TypeOK, Closed, Dropped, Phases, Jobs, Inside, Ended

\* The clients' requests start out well typed.
LEMMA InitTypes == Init => TypeOK
BY DEF Init, TypeOK, Phases, Jobs, Inside, Ended

\* Every step of a request, a job or a client keeps the state well typed.
LEMMA StepTypes == TypeOK /\ [Next]_vars => TypeOK'
<1> SUFFICES ASSUME TypeOK, [Next]_vars PROVE TypeOK'
  OBVIOUS
<1> USE DEF TypeOK
<1>1. CASE UNCHANGED vars
  BY <1>1 DEF vars
<1>2. ASSUME NEW c \in Client, Leave(c) PROVE TypeOK'
  BY <1>2, ClosingTypes DEF Leave
<1>3. ASSUME NEW t \in Task, Step(t) PROVE TypeOK'
  <2> USE DEF Phases, Jobs, Inside, Ended
  <2>1. CASE Enter(t) \/ Unblock(t) \/ FindKept(t)
    BY <2>1 DEF Enter, Unblock, FindKept
  <2>2. CASE StartAssembly(t)
    BY <2>2 DEF StartAssembly
  <2>3. CASE SendJob(t)
    BY <2>3 DEF SendJob
  <2>4. CASE StartJob(t)
    BY <2>4 DEF StartJob
  <2>5. CASE FinishPart(t)
    BY <2>5 DEF FinishPart
  <2>6. CASE FinishAssembly(t)
    BY <2>6 DEF FinishAssembly
  <2>7. CASE FailAssembly(t)
    BY <2>7 DEF FailAssembly
  <2>8. ASSUME NEW o \in {"made", "failed"}, EndJob(t, o) PROVE TypeOK'
    <3>1. phase' = Closed(t) /\ job' = [Dropped(t) EXCEPT ![t] = o] /\ kept' = kept
      BY <2>8 DEF EndJob
    <3>2. Closed(t) \in [Task -> Phases] /\ Dropped(t) \in [Task -> Jobs]
      BY ClosingTypes
    <3> QED
      BY <3>1, <3>2
  <2> QED
    BY <1>3, <2>1, <2>2, <2>3, <2>4, <2>5, <2>6, <2>7, <2>8 DEF Step
<1> QED
  BY <1>1, <1>2, <1>3 DEF Next, Build

\* Every reachable state of the requests and their jobs is well typed.
THEOREM TypeCorrect == Spec => []TypeOK
BY InitTypes, StepTypes, PTL DEF Spec

-----------------------------------------------------------------------------
(* One builder at a time.                                                  *)

\* Nobody is past a lock at the start.
LEMMA InitIInv == Init => IInv
BY InitTypes
DEF Init, IInv, OneLoop, OneBuilder, NotThereYet, SentByBuilder, ParentsFirst, JobsOfParts, Inside

\* A shape whose threading lock lets a request pass is held by its own loop
\* alone (Shape.locked).
LEMMA PassesOwnLoop ==
    ASSUME NEW t \in Task, LetsPass(t), NEW u \in Task,
           phase[u] \in Inside, ShapeOf[u] = ShapeOf[t]
    PROVE  LoopOf[u] = LoopOf[t]
BY DEF LetsPass, LockedBy

\* With the turn on its loop, past the threading lock, a request finds nobody
\* building its shape (Shape.locked).
LEMMA TurnMeansAlone ==
    ASSUME IInv, NEW t \in Task, phase[t] = "queued", HasTurn(t),
           NEW u \in Task, ShapeOf[u] = ShapeOf[t]
    PROVE  phase[u] # "building"
BY DEF IInv, OneLoop, HasTurn, OnLoop, Inside

\* Whatever closes a loop, no request gets past a lock or into a queue by it.
LEMMA ClosingLeaves ==
    ASSUME TypeOK, NEW l, NEW u \in Task
    PROVE  /\ Closed(l)[u] \in Inside => Closed(l)[u] = phase[u]
           /\ Dropped(l)[u] = "queued" => job[u] = "queued" /\ LoopOf[u] # l
           /\ LoopOf[u] # l => Closed(l)[u] = phase[u]
BY DEF TypeOK, Closed, Dropped, Inside, Ended

\* Every step keeps the strengthened invariant.
LEMMA StepIInv == IInv /\ [Next]_vars => IInv'
<1> DEFINE Rest == OneLoop /\ OneBuilder /\ NotThereYet /\ SentByBuilder /\ ParentsFirst
                    /\ JobsOfParts
<1> SUFFICES ASSUME IInv, [Next]_vars PROVE Rest'
  BY StepTypes DEF IInv
<1> USE DEF IInv, TypeOK
<1>1. CASE UNCHANGED vars
  BY <1>1 DEF vars, OneLoop, OneBuilder, NotThereYet, SentByBuilder, ParentsFirst, JobsOfParts
<1>2. ASSUME NEW c \in Client, Leave(c) PROVE Rest'
  <2>1. phase' = Closed(c) /\ job' = Dropped(c) /\ kept' = kept
    BY <1>2 DEF Leave
  <2>2. (OneLoop /\ OneBuilder /\ NotThereYet)'
    BY <2>1, ClosingLeaves DEF OneLoop, OneBuilder, NotThereYet, Inside
  <2>3. SentByBuilder'
    BY <2>1, ClosingLeaves DEF SentByBuilder
  <2>4. ParentsFirst' /\ JobsOfParts'
    BY <2>1 DEF ParentsFirst, JobsOfParts, Closed, Dropped, Ended
  <2> QED
    BY <2>2, <2>3, <2>4
<1>3. ASSUME NEW t \in Task, Step(t) PROVE Rest'
  <2>1. CASE Enter(t) \/ Unblock(t)
    <3>1. /\ \A u \in Task \ {t} : phase'[u] = phase[u]
          /\ phase[t] \in {"created", "blocked"}
          /\ phase'[t] = "blocked" \/ (phase'[t] = "queued" /\ LetsPass(t))
          /\ UNCHANGED <<job, kept>>
      BY <2>1 DEF Enter, Unblock
    <3>2. OneLoop'
      BY <3>1, PassesOwnLoop DEF OneLoop, Inside
    <3>3. (OneBuilder /\ NotThereYet /\ SentByBuilder)'
      BY <3>1 DEF OneBuilder, NotThereYet, SentByBuilder
    <3>4. ParentsFirst' /\ JobsOfParts'
      BY <3>1 DEF ParentsFirst, JobsOfParts, Ended
    <3> QED
      BY <3>2, <3>3, <3>4
  <2>2. CASE FindKept(t)
    <3>1. /\ \A u \in Task \ {t} : phase'[u] = phase[u]
          /\ phase[t] = "queued" /\ phase'[t] = "made"
          /\ UNCHANGED <<job, kept>>
      BY <2>2 DEF FindKept
    <3>2. (OneLoop /\ OneBuilder /\ NotThereYet /\ SentByBuilder)'
      BY <3>1 DEF OneLoop, OneBuilder, NotThereYet, SentByBuilder, Inside
    <3>3. ParentsFirst' /\ JobsOfParts'
      BY <3>1 DEF ParentsFirst, JobsOfParts, Ended
    <3> QED
      BY <3>2, <3>3
  <2>3. CASE StartAssembly(t) \/ SendJob(t)
    <3>1. /\ phase[t] = "queued" /\ phase'[t] = "building"
          /\ HasTurn(t) /\ ShapeOf[t] \notin kept /\ kept' = kept
      BY <2>3 DEF StartAssembly, SendJob, FindNothing
    <3>2. \A u \in Task \ {t} : \/ phase'[u] = phase[u]
                                \/ phase[u] = "new" /\ phase'[u] = "created"
      BY <2>3 DEF StartAssembly, SendJob, FindNothing, ParentsFirst, Children, Ended
    <3>3. /\ \A u \in Task \ {t} : job'[u] = job[u]
          /\ job'[t] = job[t] \/ ShapeOf[t] \notin Assembly
      BY <2>3 DEF StartAssembly, SendJob
    <3>4. OneLoop' /\ NotThereYet'
      BY <3>1, <3>2 DEF OneLoop, NotThereYet, Inside
    <3>5. OneBuilder'
      BY <3>1, <3>2, TurnMeansAlone DEF OneBuilder
    <3>6. SentByBuilder'
      BY <3>1, <3>2, <3>3 DEF SentByBuilder
    <3>7. ParentsFirst'
      <4>1. CASE StartAssembly(t)
        BY <4>1, <3>1 DEF StartAssembly, ParentsFirst, Children, Ended
      <4>2. CASE SendJob(t)
        <5>1. ShapeOf[t] \notin Assembly
          BY <4>2 DEF SendJob
        <5>2. job[t] = "none"
          BY <3>1 DEF JobsOfParts, Ended
        <5>3. \A c \in Children(t) : phase[c] = "new" /\ c # t
          BY <3>1, <5>1, <5>2 DEF ParentsFirst, Children
        <5>4. \A u \in Task \ {t} : phase'[u] = phase[u] /\ job'[u] = job[u]
          BY <4>2 DEF SendJob
        <5> QED
          BY <3>1, <5>3, <5>4 DEF ParentsFirst, Children, Ended
      <4> QED
        BY <2>3, <4>1, <4>2
    <3>8. JobsOfParts'
      BY <2>3, <3>1, <3>2, <3>3 DEF StartAssembly, SendJob, JobsOfParts, Ended
    <3> QED
      BY <3>4, <3>5, <3>6, <3>7, <3>8
  <2>4. CASE StartJob(t)
    <3>1. /\ job[t] = "queued" /\ job' = [job EXCEPT ![t] = "running"] /\ kept' = kept
          /\ phase' = [u \in Task |-> IF u \in Children(t) THEN "created" ELSE phase[u]]
      BY <2>4 DEF StartJob
    <3>2. ShapeOf[t] \notin Assembly
      BY <3>1 DEF JobsOfParts
    <3>3. \A u \in Task : \/ phase'[u] = phase[u]
                          \/ phase[u] = "new" /\ phase'[u] = "created"
      BY <3>1, <3>2 DEF ParentsFirst, Children
    <3>4. (OneLoop /\ OneBuilder /\ NotThereYet /\ SentByBuilder)'
      BY <3>1, <3>3 DEF OneLoop, OneBuilder, NotThereYet, SentByBuilder, Inside
    <3>5. ParentsFirst' /\ JobsOfParts'
      BY <3>1, <3>2, <3>3 DEF ParentsFirst, JobsOfParts, Children, Ended
    <3> QED
      BY <3>4, <3>5
  <2>5. CASE FinishPart(t) \/ FinishAssembly(t) \/ FailAssembly(t)
    <3>1. /\ \A u \in Task \ {t} : phase'[u] = phase[u]
          /\ phase[t] = "building" /\ phase'[t] \in {"made", "failed"}
          /\ kept' \subseteq kept \cup {ShapeOf[t]}
          /\ job' = job
      BY <2>5 DEF FinishPart, FinishAssembly, FailAssembly
    <3>2. (OneLoop /\ OneBuilder /\ NotThereYet)'
      BY <3>1 DEF OneLoop, OneBuilder, NotThereYet, Inside
    <3>3. job[t] # "queued"
      BY <2>5 DEF FinishPart, FinishAssembly, FailAssembly, JobsOfParts
    <3>4. SentByBuilder' /\ ParentsFirst' /\ JobsOfParts'
      BY <3>1, <3>3 DEF SentByBuilder, ParentsFirst, JobsOfParts, Ended
    <3> QED
      BY <3>2, <3>4
  <2>6. ASSUME NEW o \in {"made", "failed"}, EndJob(t, o) PROVE Rest'
    <3>1. phase' = Closed(t) /\ job' = [Dropped(t) EXCEPT ![t] = o] /\ kept' = kept
      BY <2>6 DEF EndJob
    <3>2. (OneLoop /\ OneBuilder /\ NotThereYet)'
      BY <3>1, ClosingLeaves DEF OneLoop, OneBuilder, NotThereYet, Inside
    <3>3. SentByBuilder'
      BY <3>1, ClosingLeaves, ClosingTypes DEF SentByBuilder
    <3>4. ParentsFirst' /\ JobsOfParts'
      BY <2>6, <3>1 DEF EndJob, ParentsFirst, JobsOfParts, Closed, Dropped, Ended
    <3> QED
      BY <3>2, <3>3, <3>4
  <2> QED
    BY <1>3, <2>1, <2>2, <2>3, <2>4, <2>5, <2>6 DEF Step
<1> QED
  BY <1>1, <1>2, <1>3 DEF Next, Build

\* Whatever fails and whichever loops close, the two locks of a shape let one
\* request at a time build it (Shape.locked).
THEOREM BuildersAreAlone == Spec => []OneBuilder
<1>1. IInv => OneBuilder
  BY DEF IInv
<1> QED
  BY InitIInv, StepIInv, <1>1, PTL DEF Spec

\* A thread of the pool never takes up a job for a shape that has been built
\* (Shape.get_wrapped looks under the locks).
THEOREM NoRebuild == Spec => KeptIsNotRebuilt
<1>1. IInv => \A t \in Task : job[t] = "queued" => ShapeOf[t] \notin kept
  BY DEF IInv, NotThereYet, SentByBuilder
<1>2. IInv /\ [Next]_vars => [\A t \in Task : job[t] = "queued" /\ job'[t] = "running"
                                                => ShapeOf[t] \notin kept]_vars
  BY <1>1
<1> QED
  BY InitIInv, StepIInv, <1>2, PTL DEF Spec, KeptIsNotRebuilt
=============================================================================
