------------------------- MODULE DerivedParts_proof -------------------------
(***************************************************************************)
(* For any models, aliases, parts, requests and loops, with files that     *)
(* cannot be read and requests that are cancelled: who waits for a model   *)
(* has somebody to wait for, a tree is put in once, and the tree that a    *)
(* request is given is all of it.                                          *)
(*                                                                         *)
(* The first rests on Claimed: a claim is held by a lookup on its way to   *)
(* give it up.  The others rest on the locks of a tree (LocksInv): the     *)
(* requests past a thread lock are of one loop, of which the loop's lock   *)
(* lets one build, and the factory of an alias excludes them all; so one   *)
(* factory at a time is at a model (OneFactory), as long as none is left   *)
(* behind, and the tree is what it has added so far (TreesInv).            *)
(*                                                                         *)
(* That a lookup finds its part (PartsInv) goes through what a model's     *)
(* being had is known by: what a factory has passed is registered, and a   *)
(* model is had, or cannot be, when its factory is through, when its tree  *)
(* has something in it that nobody is adding to, and when its claim is     *)
(* given up.                                                               *)
(***************************************************************************)
EXTENDS DerivedParts, SequenceTheorems, TLAPS

Pcs == AtOnce \cup Inside \cup {"asks", "waits", "blocked", "over"}
Jobs == Filling \cup {"none", "locks", "made", "failed"}

\* Who has nothing to do does nothing, and only lookups have to do with claims.
Wanting ==
    \A r \in Request :
        /\ pc[r] # "over" \/ job[r] # "none" \/ answer[r] # None => setting.want[r] # None
        /\ pc[r] \in {"claims", "waits", "clears", "signals", "finds"} => r \in Lookups
        /\ job[r] = "adds" => place[r] < Len(Yields[Target(r)])
        /\ job[r] \in {"locks", "shares"} => TreeOf(r) \in Alias

\* A claim is held by a lookup of the model that has yet to give it up (project.py:1911-2034).
Claimed ==
    \A m \in Model : builder[m] # None =>
        /\ builder[m] \in Lookups /\ TreeOf(builder[m]) = m
        /\ pc[builder[m]] \in Inside \cup {"enters", "blocked", "clears"}

ClaimsInv == TypeOK /\ Wanting /\ Claimed /\ WaitersHaveABuilder

-----------------------------------------------------------------------------
(* The state is well typed.                                                *)

\* A request that wants something is about a tree, and its factory about a model.
LEMMA TreeTypes ==
    ASSUME setting \in Setting, NEW r \in Request, setting.want[r] # None
    PROVE  TreeOf(r) \in Tree /\ Target(r) \in Model /\ (r \in Lookups => TreeOf(r) \in Model)
<1>1. setting.want[r] \in Part \cup Tree
  BY DerivedAssumption DEF SettingOK
<1>2. \A p \in Part : OwnerOf(p) \in Model
  BY DerivedAssumption DEF OwnerOf
<1> QED
  BY <1>1, <1>2, DerivedAssumption DEF TreeOf, Target, Lookups, Tree

\* The state of a package that has just been loaded is well typed, and nobody waits.
LEMMA InitTypes == Init => TypeOK
BY DEF Init, TypeOK, AtOnce, Inside, Filling

\* What there is to do does not change.
LEMMA StepSetting == [Next]_vars => setting' = setting
BY DEF Next, vars, Step, Cancel, Ask, Claim, StopWaiting, Find, Enter, Unblock, FindTree,
       StartFactory, EndBuilding, Clear, Signal, LockSource, Read, Register, Add, EndLinks, Share

\* Every step keeps the state well typed.
LEMMA StepTypes == TypeOK /\ Wanting /\ [Next]_vars => TypeOK'
<1> SUFFICES ASSUME TypeOK, Wanting, [Next]_vars PROVE TypeOK'
  OBVIOUS
<1> USE DEF TypeOK, Goto, requests, factories, trees, claims, AtOnce, Inside, Filling, Answers
<1>1. CASE UNCHANGED vars
  BY <1>1 DEF vars
<1>2. ASSUME NEW r \in Request, Step(r) \/ Cancel(r) PROVE TypeOK'
  <2>1. CASE Ask(r) \/ StopWaiting(r) \/ Enter(r) \/ Unblock(r)
    BY <2>1 DEF Ask, StopWaiting, Enter, Unblock
  <2>2. CASE Claim(r)
    <3>1. TreeOf(r) \in Model
      BY <2>2, TreeTypes DEF Claim, Wanting
    <3> QED
      BY <2>2, <3>1, ZenonT(60) DEF Claim
  <2>3. CASE Find(r)
    BY <2>3 DEF Find
  <2>4. CASE FindTree(r) \/ EndBuilding(r) \/ Cancel(r)
    <3>1. Past(r) \in {"clears", "over"}
      BY DEF Past
    <3> QED
      BY <2>4, <3>1 DEF FindTree, EndBuilding, Cancel
  <2>5. CASE StartFactory(r)
    BY <2>5 DEF StartFactory
  <2>6. CASE Clear(r) \/ Signal(r)
    <3>1. TreeOf(r) \in Model
      BY <2>6, TreeTypes DEF Clear, Signal, Wanting
    <3> QED
      BY <2>6, <3>1 DEF Clear, Signal
  <2>7. CASE LockSource(r) \/ Read(r) \/ EndLinks(r)
    BY <2>7 DEF LockSource, Read, EndLinks
  <2>8. CASE Register(r) \/ Add(r) \/ Share(r)
    <3>1. TreeOf(r) \in Tree /\ Target(r) \in Model
      BY <2>8, TreeTypes DEF Register, Add, Share, Wanting
    <3>2. Yields[Target(r)] \in Seq(Part)
      BY <3>1, DerivedAssumption
    <3>3. CASE Register(r) \/ Add(r)
      <4>1. place[r] + 1 \in 1 .. Len(Yields[Target(r)])
        <5>1. place[r] \in Nat /\ Len(Yields[Target(r)]) \in Nat /\ place[r] < Len(Yields[Target(r)])
          BY <3>2, <3>3 DEF Register, Add, Wanting
        <5> QED
          BY <5>1
      <4>2. Yields[Target(r)][place[r] + 1] \in Part
        BY <3>2, <4>1
      <4>3. CASE Register(r)
        BY <4>3, <4>2 DEF Register
      <4>4. CASE Add(r)
        <5>1. Append(children[Target(r)], Yields[Target(r)][place[r] + 1]) \in Seq(Part)
          BY <3>1, <4>2
        <5> QED
          BY <4>4, <3>1, <5>1 DEF Add
      <4> QED
        BY <3>3, <4>3, <4>4
    <3>4. CASE Share(r)
      <4>1. TreeOf(r) \in Alias
        BY <3>4 DEF Share, Wanting
      <4> QED
        BY <3>4, <4>1 DEF Share
    <3> QED
      BY <2>8, <3>3, <3>4
  <2> QED
    BY <1>2, <2>1, <2>2, <2>3, <2>4, <2>5, <2>6, <2>7, <2>8 DEF Step
<1> QED
  BY <1>1, <1>2 DEF Next

\* No step moves a request that wants nothing, or sends another than a lookup to claim, wait
\* or give a claim up.
LEMMA StepWanting == TypeOK /\ Wanting /\ [Next]_vars => Wanting'
<1> SUFFICES ASSUME TypeOK, Wanting, [Next]_vars PROVE Wanting'
  OBVIOUS
<1> USE DEF TypeOK, Wanting, Lookups, TreeOf, Target, Goto, requests, factories, trees, claims
<1>1. CASE UNCHANGED vars
  BY <1>1 DEF vars
<1>2. ASSUME NEW r \in Request, Step(r) \/ Cancel(r) PROVE Wanting'
  <2>1. CASE Ask(r) \/ Claim(r) \/ StopWaiting(r) \/ Enter(r) \/ Unblock(r) \/ StartFactory(r)
    BY <2>1 DEF Ask, Claim, StopWaiting, Enter, Unblock, StartFactory
  <2>2. CASE FindTree(r) \/ EndBuilding(r) \/ Cancel(r)
    BY <2>2 DEF FindTree, EndBuilding, Cancel, Past, Inside
  <2>3. CASE Find(r) \/ Clear(r) \/ Signal(r)
    BY <2>3 DEF Find, Clear, Signal
  <2>4. CASE LockSource(r) \/ Read(r)
    BY <2>4 DEF LockSource, Read
  <2>5. CASE Register(r) \/ Add(r) \/ EndLinks(r) \/ Share(r)
    BY <2>5, ZenonT(60) DEF Register, Add, EndLinks, Share
  <2> QED
    BY <1>2, <2>1, <2>2, <2>3, <2>4, <2>5 DEF Step
<1> QED
  BY <1>1, <1>2 DEF Next

-----------------------------------------------------------------------------
(* Whoever waits is woken.                                                 *)

\* Nobody has claimed anything, or waits, when the package has been loaded.
LEMMA InitClaims == Init => ClaimsInv
<1> SUFFICES ASSUME Init PROVE ClaimsInv
  OBVIOUS
<1>1. TypeOK
  BY InitTypes
<1>2. Wanting
  BY DEF Init, Wanting
<1>3. Claimed /\ WaitersHaveABuilder
  BY DEF Init, Claimed, WaitersHaveABuilder
<1> QED
  BY <1>1, <1>2, <1>3 DEF ClaimsInv

\* No step forgets a claim, or leaves one that wakes nobody (project.py:1911-2034).
LEMMA StepClaims == ClaimsInv /\ [Next]_vars => ClaimsInv'
<1> SUFFICES ASSUME ClaimsInv, [Next]_vars PROVE ClaimsInv'
  OBVIOUS
<1>1. TypeOK' /\ Wanting'
  BY StepTypes, StepWanting DEF ClaimsInv
<1> DEFINE
      ClaimedNext == \A m \in Model : builder'[m] # None =>
        /\ builder'[m] \in Lookups /\ TreeOf(builder'[m]) = m
        /\ pc'[builder'[m]] \in Inside \cup {"enters", "blocked", "clears"}
      WokenNext == \A r \in Request : pc'[r] = "waits" /\ TreeOf(r) \notin signalled' =>
        \E b \in Lookups : /\ TreeOf(b) = TreeOf(r)
                          /\ pc'[b] \in Inside \cup {"enters", "blocked", "clears", "signals"}
<1>0. (ClaimedNext => Claimed') /\ (WokenNext => WaitersHaveABuilder')
  <2>1. setting' = setting
    BY StepSetting
  <2> QED
    BY <2>1 DEF Claimed, WaitersHaveABuilder, Lookups, TreeOf
<1>4. Lookups \subseteq Request
  BY DEF Lookups
<1>5. pc \in [Request -> Pcs] /\ builder \in [Model -> Request \cup {None}]
  BY DEF ClaimsInv, TypeOK, Pcs
<1>6. None \notin Request
  BY DerivedAssumption
<1> USE <1>4, <1>5, <1>6 DEF ClaimsInv, Claimed, WaitersHaveABuilder, Goto, Inside
<1> USE DEF requests, factories, trees, claims
<1>2. ASSUME UNCHANGED vars PROVE ClaimedNext /\ WokenNext
  BY <1>2 DEF vars
<1>3. ASSUME NEW r \in Request, Step(r) \/ Cancel(r) PROVE ClaimedNext /\ WokenNext
  <2>1. CASE Ask(r) \/ StopWaiting(r) \/ Find(r)
    <3>1. CASE Ask(r)
      BY <3>1 DEF Ask
    <3>2. CASE StopWaiting(r)
      BY <3>2 DEF StopWaiting
    <3>3. CASE Find(r)
      BY <3>3 DEF Find
    <3> QED
      BY <2>1, <3>1, <3>2, <3>3
  <2>2. CASE Claim(r)
    <3>1. r \in Lookups /\ TreeOf(r) \in Model
      BY <2>2, TreeTypes DEF Claim, Wanting, TypeOK
    <3>2. ClaimedNext
      BY <2>2, <3>1 DEF Claim
    <3>3. WokenNext
      BY <2>2, <3>1 DEF Claim
    <3> QED
      BY <3>2, <3>3
  <2>3. CASE Enter(r) \/ Unblock(r) \/ StartFactory(r)
    <3>1. ClaimedNext
      BY <2>3 DEF Enter, Unblock, StartFactory
    <3>2. WokenNext
      BY <2>3 DEF Enter, Unblock, StartFactory
    <3> QED
      BY <3>1, <3>2
  <2>4. CASE FindTree(r) \/ EndBuilding(r) \/ Cancel(r)
    BY <2>4 DEF FindTree, EndBuilding, Cancel, Past
  <2>5. CASE Clear(r)
    <3>1. r \in Lookups /\ TreeOf(r) \in Model
      BY <2>5, TreeTypes DEF Clear, Wanting, TypeOK
    <3>2. ClaimedNext
      BY <2>5, <3>1 DEF Clear
    <3>3. WokenNext
      BY <2>5, <3>1 DEF Clear
    <3> QED
      BY <3>2, <3>3
  <2>6. CASE Signal(r)
    <3>1. r \in Lookups /\ TreeOf(r) \in Model
      BY <2>6, TreeTypes DEF Signal, Wanting, TypeOK
    <3>2. ClaimedNext
      BY <2>6 DEF Signal
    <3>3. WokenNext
      BY <2>6, <3>1 DEF Signal
    <3> QED
      BY <3>2, <3>3
  <2>7. CASE LockSource(r) \/ Read(r) \/ Register(r) \/ Add(r) \/ EndLinks(r) \/ Share(r)
    BY <2>7 DEF LockSource, Read, Register, Add, EndLinks, Share
  <2> QED
    BY <1>3, <2>1, <2>2, <2>3, <2>4, <2>5, <2>6, <2>7 DEF Step
<1> QED
  BY <1>0, <1>1, <1>2, <1>3 DEF Next, ClaimsInv

\* Every reachable state is well typed, and nobody waits for an event that nobody will set,
\* whether the build fails or is cancelled.
THEOREM TypeCorrect == Spec => []TypeOK
<1>1. Spec => []ClaimsInv
  BY InitClaims, StepClaims, PTL DEF Spec
<1>2. ClaimsInv => TypeOK
  BY DEF ClaimsInv
<1> QED
  BY <1>1, <1>2, PTL

\* Whoever waits for a model has a builder: a lookup that is on its way to set the event.
THEOREM WaitersAreWoken == Spec => []WaitersHaveABuilder
<1>1. Spec => []ClaimsInv
  BY InitClaims, StepClaims, PTL DEF Spec
<1>2. ClaimsInv => WaitersHaveABuilder
  BY DEF ClaimsInv
<1> QED
  BY <1>1, <1>2, PTL

-----------------------------------------------------------------------------
(* One factory at a time.                                                  *)

\* What has been sent to a thread is waited for, unless it was left behind (assembly.py:193).
Fresh ==
    \A r \in Request :
        /\ pc[r] \in {"asks", "claims", "waits", "enters", "blocked", "queued"} => job[r] = "none"
        /\ job[r] \in {"none", "locks", "reads"} => place[r] = 0
        /\ job[r] \in Filling \cup {"locks"} => pc[r] = "building" \/ answer[r] = "cancelled"
        /\ answer[r] = "cancelled" => pc[r] \in {"clears", "signals", "over"}

\* The locks of a tree, with the states of the requests and of their factories (assembly.py:182,
\* assembly_factory_alias.py:126).
LocksIn(p, j) ==
    \A r, u \in Request :
        /\ p[r] \in Inside /\ p[u] \in Inside /\ TreeOf(r) = TreeOf(u) => LoopOf[r] = LoopOf[u]
        /\ p[r] = "building" /\ p[u] = "building" /\ TreeOf(r) = TreeOf(u) => r = u
        /\ j[r] \in Filling /\ TreeOf(r) \in Alias =>
             /\ p[u] \in Inside => TreeOf(u) # Target(r)
             /\ j[u] \in Filling /\ TreeOf(u) \in Alias /\ Target(u) = Target(r) => r = u

LocksInv == ClaimsInv /\ Fresh /\ LocksIn(pc, job)

\* At the start nobody has a lock and no factory runs.
LEMMA InitLocks == Init => LocksInv
<1> SUFFICES ASSUME Init PROVE LocksInv
  OBVIOUS
<1>1. ClaimsInv
  BY InitClaims
<1>2. Fresh /\ LocksIn(pc, job)
  BY DerivedAssumption DEF Init, Fresh, LocksIn, Inside, Filling, Answers
<1> QED
  BY <1>1, <1>2 DEF LocksInv

\* A step leaves nothing behind that it does not cancel.
LEMMA StepFresh == TypeOK /\ Fresh /\ [Next]_vars => Fresh'
<1> SUFFICES ASSUME TypeOK, Fresh, [Next]_vars PROVE Fresh'
  OBVIOUS
<1>1. /\ pc \in [Request -> Pcs] /\ job \in [Request -> Jobs] /\ place \in [Request -> Nat]
      /\ answer \in [Request -> {None} \cup Answers]
  BY DEF TypeOK, Pcs, Jobs
<1> USE <1>1 DEF Fresh, Goto, requests, factories, trees, claims, Filling
<1>2. CASE UNCHANGED vars
  BY <1>2 DEF vars
<1>3. ASSUME NEW r \in Request, Step(r) \/ Cancel(r) PROVE Fresh'
  <2>1. CASE Ask(r) \/ Claim(r) \/ StopWaiting(r) \/ Enter(r) \/ Unblock(r)
    BY <2>1 DEF Ask, Claim, StopWaiting, Enter, Unblock
  <2>2. CASE FindTree(r) \/ EndBuilding(r) \/ Cancel(r)
    BY <2>2 DEF FindTree, EndBuilding, Cancel, Past, Inside
  <2>3. CASE StartFactory(r)
    BY <2>3 DEF StartFactory
  <2>4. CASE Find(r) \/ Clear(r) \/ Signal(r)
    BY <2>4 DEF Find, Clear, Signal
  <2>5. CASE LockSource(r) \/ Read(r)
    BY <2>5 DEF LockSource, Read
  <2>6. CASE Register(r) \/ Add(r) \/ EndLinks(r) \/ Share(r)
    BY <2>6 DEF Register, Add, EndLinks, Share
  <2> QED
    BY <1>3, <2>1, <2>2, <2>3, <2>4, <2>5, <2>6 DEF Step
<1> QED
  BY <1>2, <1>3 DEF Next

\* No step lets a request past a lock that it should wait for.
LEMMA StepLocks == LocksInv /\ [Next]_vars => LocksInv'
<1> SUFFICES ASSUME LocksInv, [Next]_vars PROVE LocksInv'
  OBVIOUS
<1>1. ClaimsInv' /\ Fresh'
  BY StepClaims, StepFresh DEF LocksInv, ClaimsInv
<1>2. LocksIn(pc', job') => LocksIn(pc, job)'
  <2>1. setting' = setting
    BY StepSetting
  <2> QED
    BY <2>1 DEF LocksIn, Lookups, TreeOf, Target
<1>3. /\ pc \in [Request -> Pcs] /\ job \in [Request -> Jobs]
      /\ \A r \in Request : job[r] = "locks" => TreeOf(r) \in Alias
  BY DEF LocksInv, ClaimsInv, TypeOK, Wanting, Pcs, Jobs
<1> USE <1>3 DEF LocksInv, LocksIn, Goto, requests, factories, trees, claims, Inside, Filling
<1>4. ASSUME UNCHANGED vars PROVE LocksIn(pc', job')
  BY <1>4 DEF vars
<1>5. ASSUME NEW r \in Request, Step(r) \/ Cancel(r) PROVE LocksIn(pc', job')
  <2>1. CASE Ask(r) \/ Claim(r) \/ StopWaiting(r) \/ Find(r) \/ Clear(r) \/ Signal(r)
    BY <2>1 DEF Ask, Claim, StopWaiting, Find, Clear, Signal
  <2>2. CASE FindTree(r) \/ EndBuilding(r) \/ Cancel(r)
    BY <2>2 DEF FindTree, EndBuilding, Cancel, Past
  <2>3. CASE Enter(r) \/ Unblock(r)
    BY <2>3 DEF Enter, Unblock, LetsPass, LockedBy, FilledBy
  <2>4. CASE StartFactory(r)
    BY <2>4 DEF StartFactory, HasTurn, OnLoop
  <2>5. CASE LockSource(r)
    <3>1. /\ pc' = pc
          /\ \/ job' = [job EXCEPT ![r] = "reads"]
             \/ job' = [job EXCEPT ![r] = "shares"]
      BY <2>5 DEF LockSource
    <3>2. \A u \in Request : pc[u] \in Inside => TreeOf(u) # Target(r)
      BY <2>5, ZenonT(60) DEF LockSource, LockedBy
    <3>3. \A u \in Request : job[u] \in Filling /\ TreeOf(u) \in Alias => Target(u) # Target(r)
      BY <2>5 DEF LockSource, FilledBy
    <3>4. \A u \in Request : u # r => job'[u] = job[u]
      BY <3>1
    <3> QED
      BY <3>1, <3>2, <3>3, <3>4
  <2>6. CASE Read(r) \/ Register(r) \/ Add(r) \/ EndLinks(r) \/ Share(r)
    BY <2>6 DEF Read, Register, Add, EndLinks, Share
  <2> QED
    BY <1>5, <2>1, <2>2, <2>3, <2>4, <2>5, <2>6 DEF Step
<1> QED
  BY <1>1, <1>2, <1>4, <1>5 DEF Next

\* As long as no factory is left behind, one at a time is at a model.
LEMMA OneFactory ==
    ASSUME LocksInv, Strays = {}, NEW r \in Request, NEW u \in Request,
           job[r] \in Filling, job[u] \in Filling, Target(r) = Target(u)
    PROVE  r = u
<1>1. pc[r] = "building" /\ pc[u] = "building"
  BY DEF LocksInv, Fresh, Strays, Filling
<1>2. /\ TreeOf(r) \notin Alias => Target(r) = TreeOf(r)
      /\ TreeOf(u) \notin Alias => Target(u) = TreeOf(u)
  BY DEF Target
<1> QED
  BY <1>1, <1>2 DEF LocksInv, LocksIn, Inside

\* Past the locks of a model, a request finds no factory there.
LEMMA NoFactoryAtTurn ==
    ASSUME LocksInv, Strays = {}, NEW r \in Request, pc[r] = "queued", HasTurn(r),
           NEW u \in Request, job[u] \in Filling
    PROVE  Target(u) # TreeOf(r)
<1>1. pc[u] = "building" /\ (TreeOf(u) \notin Alias => Target(u) = TreeOf(u))
  BY DEF LocksInv, Fresh, Strays, Filling, Target
<1>2. CASE TreeOf(u) \in Alias
  BY <1>2 DEF LocksInv, LocksIn, Inside
<1>3. CASE TreeOf(u) \notin Alias
  <2>1. TreeOf(u) = TreeOf(r) => LoopOf[u] = LoopOf[r]
    BY <1>1 DEF LocksInv, LocksIn, Inside
  <2> QED
    BY <1>1, <1>3, <2>1 DEF HasTurn, OnLoop
<1> QED
  BY <1>2, <1>3

-----------------------------------------------------------------------------
(* Trees are put in once, and given when they are whole.                   *)

\* A tree has the first n parts of its model.
Grown(c, m, n) ==
    /\ Len(c[m]) = n /\ n <= Len(Yields[m])
    /\ \A i \in 1 .. n : c[m][i] = Yields[m][i]
Full(c, m) == c[m] = Yields[m]
\* Nobody is adding to a tree, or about to.
Quiet(j, m) == \A r \in Request : j[r] \in {"reads", "links", "adds"} => Target(r) # m

\* The trees, with how far the factories are (assembly_factory_imported.py:334).
TreesIn(j, p, c, s, a) ==
    /\ \A r \in Request :
        /\ j[r] = "reads" => c[Target(r)] = <<>>
        /\ j[r] \in {"links", "adds"} => Grown(c, Target(r), p[r])
        /\ j[r] = "shares" => Full(c, Target(r))
        /\ j[r] = "made" \/ (a[r] = "built" /\ r \notin Lookups) =>
             Full(c, Target(r)) /\ (TreeOf(r) \in Alias => TreeOf(r) \in s)
    /\ \A t \in s : Full(c, SourceOf[t])
    /\ \A m \in Model : Quiet(j, m) => c[m] = <<>> \/ Full(c, m)

TreesInv == LocksInv /\ (Strays = {} => TreesIn(job, place, children, shared, answer))

\* At the start there are no trees.
LEMMA InitTrees == Init => TreesInv
<1> SUFFICES ASSUME Init PROVE TreesInv
  OBVIOUS
<1>1. LocksInv
  BY InitLocks
<1>2. TreesIn(job, place, children, shared, answer)
  BY DerivedAssumption DEF Init, TreesIn, Answers
<1> QED
  BY <1>1, <1>2 DEF TreesInv

\* A factory that has been left behind stays so.
LEMMA StraysStay == LocksInv /\ [Next]_vars => Strays \subseteq Strays'
<1> SUFFICES ASSUME LocksInv, [Next]_vars PROVE Strays \subseteq Strays'
  OBVIOUS
<1>1. /\ pc \in [Request -> Pcs] /\ job \in [Request -> Jobs] /\ Fresh
      /\ answer \in [Request -> {None} \cup Answers]
  BY DEF LocksInv, ClaimsInv, TypeOK, Pcs, Jobs
<1> USE <1>1 DEF Strays, Fresh, Goto, requests, factories, trees, claims
<1>2. CASE UNCHANGED vars
  BY <1>2 DEF vars
<1>3. ASSUME NEW r \in Request, Step(r) \/ Cancel(r) PROVE Strays \subseteq Strays'
  <2>1. CASE \/ Ask(r) \/ Claim(r) \/ StopWaiting(r) \/ Enter(r) \/ Unblock(r) \/ Clear(r)
             \/ Signal(r)
    BY <2>1 DEF Ask, Claim, StopWaiting, Enter, Unblock, Clear, Signal
  <2>2. CASE Find(r) \/ FindTree(r) \/ StartFactory(r) \/ EndBuilding(r) \/ Cancel(r)
    BY <2>2 DEF Find, FindTree, StartFactory, EndBuilding, Cancel
  <2>3. CASE \/ LockSource(r) \/ Read(r) \/ Register(r) \/ Add(r) \/ EndLinks(r) \/ Share(r)
    BY <2>3 DEF LockSource, Read, Register, Add, EndLinks, Share
  <2> QED
    BY <1>3, <2>1, <2>2, <2>3 DEF Step
<1> QED
  BY <1>2, <1>3 DEF Next
\* A tree that has all the parts of its model, as far as it goes, is the whole tree.
LEMMA GrownIsFull ==
    ASSUME TypeOK, NEW m \in Model, Grown(children, m, Len(Yields[m]))
    PROVE  Full(children, m)
<1>1. children[m] \in Seq(Part) /\ Yields[m] \in Seq(Part)
  BY DerivedAssumption DEF TypeOK
<1> QED
  BY <1>1, SeqEqual DEF Grown, Full

\* Adding the next part keeps a tree in the order of its model.
LEMMA AddGrows ==
    ASSUME TypeOK, NEW r \in Request, NEW m \in Model, m = Target(r), Add(r),
           place[r] \in Nat, place[r] < Len(Yields[m]), Grown(children, m, place[r])
    PROVE  Grown(children', m, place[r] + 1)
<1>1. children[m] \in Seq(Part) /\ Yields[m] \in Seq(Part)
  BY DerivedAssumption DEF TypeOK
<1>2. place[r] + 1 \in 1 .. Len(Yields[m])
  BY <1>1
<1>3. Yields[m][place[r] + 1] \in Part
  BY <1>1, <1>2
<1>4. children'[m] = Append(children[m], Yields[m][place[r] + 1])
  BY DEF Add, TypeOK
<1> QED
  BY <1>1, <1>2, <1>3, <1>4, AppendProperties DEF Grown

\* Every step of a request or of its factory keeps the trees as they should be.
LEMMA StepTrees == TreesInv /\ [Next]_vars => TreesInv'
<1> SUFFICES ASSUME TreesInv, [Next]_vars PROVE TreesInv'
  OBVIOUS
<1>1. LocksInv /\ LocksInv' /\ TypeOK /\ Fresh /\ Wanting
  BY StepLocks DEF TreesInv, LocksInv, ClaimsInv
<1> SUFFICES ASSUME Strays' = {} PROVE TreesIn(job, place, children, shared, answer)'
  BY <1>1 DEF TreesInv
<1>2. Strays = {} /\ TreesIn(job, place, children, shared, answer)
  BY <1>1, StraysStay DEF TreesInv
<1>3. TreesIn(job', place', children', shared', answer')
        => TreesIn(job, place, children, shared, answer)'
  <2>1. setting' = setting
    BY StepSetting
  <2> QED
    BY <2>1 DEF TreesIn, Grown, Full, Quiet, Lookups, TreeOf, Target
<1> DEFINE Goal == TreesIn(job', place', children', shared', answer')
<1>4. /\ job \in [Request -> Jobs] /\ place \in [Request -> Nat] /\ shared \subseteq Alias
      /\ answer \in [Request -> {None} \cup Answers] /\ children \in [Model -> Seq(Part)]
      /\ SourceOf \in [Alias -> Model] /\ None \notin Answers /\ Yields \in [Model -> Seq(Part)]
  BY <1>1, DerivedAssumption DEF TypeOK, Jobs
<1>5. \A u \in Request : job[u] # "none" \/ answer[u] # None
                         => TreeOf(u) \in Tree /\ Target(u) \in Model
  BY <1>1, TreeTypes DEF TypeOK, Wanting
<1>6. \A u \in Request : TreeOf(u) \in Alias => Target(u) = SourceOf[TreeOf(u)]
  BY DEF Target
<1>7. \A u \in Request : TreeOf(u) \notin Alias => Target(u) = TreeOf(u)
  BY DEF Target
<1> USE <1>4, <1>5 DEF Goto, requests, factories, trees, claims
<1>8. ASSUME UNCHANGED vars PROVE Goal
  BY <1>2, <1>8 DEF vars
<1>9. ASSUME NEW r \in Request, Step(r) \/ Cancel(r) PROVE Goal
  <2>1. CASE \/ Ask(r) \/ Claim(r) \/ StopWaiting(r) \/ Enter(r) \/ Unblock(r) \/ Clear(r)
             \/ Signal(r)
    <3>1. /\ job' = job /\ place' = place /\ children' = children /\ shared' = shared
          /\ answer' = answer
      BY <2>1 DEF Ask, Claim, StopWaiting, Enter, Unblock, Clear, Signal
    <3> QED
      BY <1>2, <3>1
  <2>2. CASE Find(r) \/ Cancel(r)
    <3>1. /\ job' = job /\ place' = place /\ children' = children /\ shared' = shared
          /\ \A u \in Request : answer'[u] = "built" => answer[u] = "built"
      BY <2>2 DEF Find, Cancel
    <3> QED
      BY <1>2, <3>1 DEF TreesIn
  <2>3. CASE FindTree(r)
    <3>1. /\ job' = job /\ place' = place /\ children' = children /\ shared' = shared
          /\ \A u \in Request \ {r} : answer'[u] = answer[u]
      BY <2>3 DEF FindTree
    <3>2. TreeOf(r) \in Tree /\ Target(r) \in Model /\ pc[r] = "queued" /\ HasTurn(r)
      BY <1>1, <2>3, TreeTypes DEF FindTree, TypeOK, Wanting
    <3>3. CASE TreeOf(r) \in Alias
      <4>1. TreeOf(r) \in shared
        BY <2>3, <3>3, DerivedAssumption DEF FindTree, Content
      <4> QED
        BY <1>2, <1>6, <3>1, <3>3, <4>1 DEF TreesIn
    <3>4. CASE TreeOf(r) \notin Alias
      <4>1. Quiet(job, Target(r))
        BY <1>1, <1>2, <1>7, <3>2, <3>4, NoFactoryAtTurn DEF Quiet, Filling
      <4>2. children[Target(r)] # <<>>
        BY <2>3, <1>7, <3>2, <3>4 DEF FindTree, Content
      <4>3. Full(children, Target(r))
        BY <1>2, <3>2, <4>1, <4>2 DEF TreesIn
      <4> QED
        BY <1>2, <3>1, <3>4, <4>3 DEF TreesIn
    <3> QED
      BY <3>3, <3>4
  <2>4. CASE StartFactory(r)
    <3>1. /\ place' = place /\ children' = children /\ shared' = shared /\ answer' = answer
          /\ job' = [job EXCEPT ![r] = IF TreeOf(r) \in Alias THEN "locks" ELSE "reads"]
          /\ job[r] = "none"
      BY <1>1, <2>4 DEF StartFactory, Fresh
    <3>2. TreeOf(r) \in Tree
      BY <1>1, <2>4, TreeTypes DEF StartFactory, TypeOK, Wanting
    <3>3. TreeOf(r) \notin Alias => children[Target(r)] = <<>>
      BY <1>7, <2>4, <3>2 DEF StartFactory, Content, Tree
    <3>4. \A u \in Request \ {r} : job'[u] = job[u]
      BY <3>1
    <3>5. \A m \in Model : Quiet(job', m) => Quiet(job, m)
      BY <3>1, <3>4 DEF Quiet
    <3>6. job'[r] \in {"locks", "reads"} /\ (job'[r] = "reads" => TreeOf(r) \notin Alias)
      BY <3>1
    <3> QED
      BY <1>2, <3>1, <3>3, <3>4, <3>5, <3>6 DEF TreesIn
  <2>5. CASE EndBuilding(r)
    <3>1. /\ job' = job /\ place' = place /\ children' = children /\ shared' = shared
          /\ \A u \in Request : answer'[u] = "built" => answer[u] = "built" \/ u = r
          /\ answer'[r] = "built" => job[r] = "made"
      BY <1>4, <2>5 DEF EndBuilding, Answers
    <3> QED
      BY <1>2, <3>1 DEF TreesIn
  <2>6. CASE LockSource(r)
    <3>1. /\ place' = place /\ children' = children /\ shared' = shared /\ answer' = answer
          /\ job[r] = "locks" /\ \A u \in Request \ {r} : job'[u] = job[u]
          /\ job'[r] = IF children[Target(r)] = <<>> THEN "reads" ELSE "shares"
      BY <2>6 DEF LockSource
    <3>2. Quiet(job, Target(r))
      <4>1. ASSUME NEW u \in Request, job[u] \in {"reads", "links", "adds"}, Target(u) = Target(r)
            PROVE  FALSE
        <5>1. TreeOf(u) \notin Alias
          BY <2>6, <4>1 DEF LockSource, FilledBy, Filling
        <5>2. pc[u] = "building"
          BY <1>1, <1>2, <4>1 DEF Fresh, Strays, Filling
        <5>3. LoopOf[u] \in LockedBy(Target(r))
          BY <1>7, <4>1, <5>1, <5>2 DEF LockedBy, Inside
        <5> QED
          BY <2>6, <5>3 DEF LockSource
      <4> QED
        BY <4>1 DEF Quiet
    <3>3. job'[r] = "shares" => Full(children, Target(r))
      BY <1>2, <3>1, <3>2 DEF TreesIn
    <3>4. \A m \in Model : Quiet(job', m) => Quiet(job, m)
      BY <3>1 DEF Quiet
    <3> QED
      BY <1>2, <3>1, <3>3, <3>4 DEF TreesIn
  <2>7. CASE Read(r)
    <3>1. /\ place' = place /\ children' = children /\ shared' = shared /\ answer' = answer
          /\ job[r] = "reads" /\ \A u \in Request \ {r} : job'[u] = job[u]
          /\ job'[r] \in {"links", "failed"}
      BY <2>7 DEF Read
    <3>2. children[Target(r)] = <<>> /\ place[r] = 0 /\ Target(r) \in Model
      BY <1>1, <1>2, <3>1 DEF TreesIn, Fresh
    <3>3. Grown(children, Target(r), 0)
      <4>1. Yields[Target(r)] \in Seq(Part)
        BY <3>2
      <4> QED
        BY <3>2, <4>1 DEF Grown
    <3>4. \A m \in Model : Quiet(job', m) /\ m # Target(r) => Quiet(job, m)
      BY <3>1 DEF Quiet
    <3> QED
      BY <1>2, <3>1, <3>2, <3>3, <3>4 DEF TreesIn
  <2>8. CASE Register(r)
    <3>1. /\ place' = place /\ children' = children /\ shared' = shared /\ answer' = answer
          /\ job[r] = "links" /\ job'[r] = "adds" /\ \A u \in Request \ {r} : job'[u] = job[u]
      BY <2>8 DEF Register
    <3>2. \A m \in Model : Quiet(job', m) => Quiet(job, m)
      BY <3>1 DEF Quiet
    <3> QED
      BY <1>2, <3>1, <3>2 DEF TreesIn
  <2>9. CASE Add(r)
    <3>1. /\ shared' = shared /\ answer' = answer /\ job[r] = "adds" /\ job'[r] = "links"
          /\ place'[r] = place[r] + 1
          /\ \A u \in Request \ {r} : job'[u] = job[u] /\ place'[u] = place[u]
          /\ \A m \in Model \ {Target(r)} : children'[m] = children[m]
      BY <2>9 DEF Add
    <3>2. Target(r) \in Model /\ place[r] < Len(Yields[Target(r)]) /\ Grown(children, Target(r), place[r])
      BY <1>1, <1>2, <3>1 DEF Wanting, TreesIn
    <3>3. Grown(children', Target(r), place'[r])
      BY <1>1, <2>9, <3>1, <3>2, AddGrows
    <3>4. ~ Full(children, Target(r))
      BY <3>2 DEF Grown, Full
    <3>5. \A u \in Request \ {r} : job[u] \in Filling => Target(u) # Target(r)
      BY <1>1, <1>2, <3>1, OneFactory DEF Filling
    <3>6. \A m \in Model : Quiet(job', m) => m # Target(r) /\ Quiet(job, m)
      BY <3>1 DEF Quiet
    <3>7. \A m \in Model \ {Target(r)}, n \in Nat :
            /\ Full(children, m) => Full(children', m)
            /\ Grown(children, m, n) => Grown(children', m, n)
      BY <3>1 DEF Full, Grown
    <3>8. \A u \in Request :
            (\/ job'[u] \in {"shares", "made"} \/ (answer'[u] = "built" /\ u \notin Lookups))
              => Full(children', Target(u)) /\ Target(u) \in Model
      <4>1. ASSUME NEW u \in Request,
                   job'[u] \in {"shares", "made"} \/ (answer'[u] = "built" /\ u \notin Lookups)
            PROVE  Full(children', Target(u)) /\ Target(u) \in Model
        <5>1. job[u] \in {"shares", "made"} \/ (answer[u] = "built" /\ u \notin Lookups)
          BY <3>1, <4>1
        <5>2. Full(children, Target(u)) /\ Target(u) \in Model
          BY <1>2, <1>4, <1>5, <5>1 DEF TreesIn, Answers
        <5> QED
          BY <3>4, <3>7, <5>2
      <4> QED
        BY <4>1
    <3> QED
      BY <1>2, <1>6, <3>1, <3>2, <3>3, <3>4, <3>5, <3>6, <3>7, <3>8 DEF TreesIn, Filling
  <2>10. CASE EndLinks(r)
    <3>1. /\ place' = place /\ children' = children /\ shared' = shared /\ answer' = answer
          /\ job[r] = "links" /\ \A u \in Request \ {r} : job'[u] = job[u]
          /\ job'[r] = IF TreeOf(r) \in Alias THEN "shares" ELSE "made"
          /\ place[r] = Len(Yields[Target(r)])
      BY <2>10 DEF EndLinks
    <3>2. Full(children, Target(r))
      BY <1>1, <1>2, <3>1, GrownIsFull DEF TreesIn
    <3>3. \A m \in Model : Quiet(job', m) /\ m # Target(r) => Quiet(job, m)
      BY <3>1 DEF Quiet
    <3> QED
      BY <1>2, <3>1, <3>2, <3>3 DEF TreesIn
  <2>11. CASE Share(r)
    <3>1. /\ place' = place /\ children' = children /\ answer' = answer
          /\ shared' = shared \cup {TreeOf(r)}
          /\ job[r] = "shares" /\ job'[r] = "made" /\ \A u \in Request \ {r} : job'[u] = job[u]
      BY <2>11 DEF Share
    <3>2. TreeOf(r) \in Alias /\ Full(children, Target(r)) /\ Target(r) = SourceOf[TreeOf(r)]
      BY <1>1, <1>2, <1>6, <3>1 DEF Wanting, TreesIn
    <3>3. \A m \in Model : Quiet(job', m) => Quiet(job, m)
      BY <3>1 DEF Quiet
    <3> QED
      BY <1>2, <3>1, <3>2, <3>3 DEF TreesIn
  <2> QED
    BY <1>9, <2>1, <2>2, <2>3, <2>4, <2>5, <2>6, <2>7, <2>8, <2>9, <2>10, <2>11 DEF Step
<1> QED
  BY <1>3, <1>8, <1>9 DEF Next

\* Every reachable state has the locks and the trees as they should be.
LEMMA Invariance == Spec => []TreesInv
BY InitTrees, StepTrees, PTL DEF Spec

\* What has grown up to somewhere is a prefix of the parts of its model.
LEMMA GrownIsPrefix ==
    ASSUME TypeOK, NEW m \in Model, NEW n \in Nat, Grown(children, m, n)
    PROVE  IsPrefix(children[m], Yields[m])
<1>1. children[m] \in Seq(Part) /\ Yields[m] \in Seq(Part)
  BY DerivedAssumption DEF TypeOK
<1> DEFINE c == SubSeq(children[m], 1, n)
           y == SubSeq(Yields[m], 1, n)
<1>2. /\ \A i \in 1 .. n : children[m][i] \in Part /\ Yields[m][i] \in Part
      /\ Len(children[m]) = n /\ n <= Len(Yields[m])
      /\ \A i \in 1 .. n : children[m][i] = Yields[m][i]
  BY <1>1 DEF Grown
<1>3. /\ c \in Seq(Part) /\ Len(c) = (IF 1 <= n THEN n - 1 + 1 ELSE 0)
      /\ \A i \in 1 .. n - 1 + 1 : c[i] = children[m][1 + i - 1]
  BY <1>2, SubSeqProperties
<1>4. /\ y \in Seq(Part) /\ Len(y) = (IF 1 <= n THEN n - 1 + 1 ELSE 0)
      /\ \A i \in 1 .. n - 1 + 1 : y[i] = Yields[m][1 + i - 1]
  BY <1>2, SubSeqProperties
<1>5. Len(c) = Len(y) /\ \A i \in 1 .. Len(c) : c[i] = y[i]
  BY <1>2, <1>3, <1>4
<1>6. c = y
  BY <1>3, <1>4, <1>5, SeqEqual
<1> QED
  BY <1>2, <1>6 DEF IsPrefix

\* As long as no factory is left behind, nothing is put into a tree twice or out of order.
THEOREM TreesArePutInOnce == Spec => []PutInOnce
<1>1. TreesInv => PutInOnce
  <2> SUFFICES ASSUME TreesInv, Strays = {}, NEW m \in Model
               PROVE  IsPrefix(children[m], Yields[m])
    BY DEF PutInOnce
  <2>1. TypeOK /\ TreesIn(job, place, children, shared, answer)
    BY DEF TreesInv, LocksInv, ClaimsInv
  <2>2. children[m] \in Seq(Part) /\ Yields[m] \in Seq(Part)
    BY <2>1, DerivedAssumption DEF TypeOK
  <2>3. CASE Full(children, m)
    <3>1. Grown(children, m, Len(Yields[m]))
      BY <2>2, <2>3 DEF Grown, Full
    <3> QED
      BY <2>1, <2>2, <3>1, GrownIsPrefix
  <2>4. CASE children[m] = <<>>
    <3>1. Grown(children, m, 0)
      BY <2>2, <2>4 DEF Grown
    <3> QED
      BY <2>1, <3>1, GrownIsPrefix
  <2>5. CASE \E r \in Request : job[r] \in {"links", "adds"} /\ Target(r) = m
    <3>1. PICK r \in Request : job[r] \in {"links", "adds"} /\ Target(r) = m
      BY <2>5
    <3>2. Grown(children, m, place[r]) /\ place[r] \in Nat
      BY <2>1, <3>1 DEF TreesIn, TypeOK
    <3> QED
      BY <2>1, <3>2, GrownIsPrefix
  <2> QED
    BY <2>1, <2>3, <2>4, <2>5 DEF TreesIn, Quiet
<1> QED
  BY <1>1, Invariance, PTL

\* As long as no factory is left behind, the tree that a request is given is all of it.
THEOREM TreesAreGivenWhole == Spec => []TreesAreWhole
<1>1. TreesInv => TreesAreWhole
  <2> SUFFICES ASSUME TreesInv, Strays = {}, NEW r \in Request \ Lookups, answer[r] = "built"
               PROVE  Content(TreeOf(r)) = Yields[Target(r)]
    BY DEF TreesAreWhole
  <2>1. children[Target(r)] = Yields[Target(r)] /\ (TreeOf(r) \in Alias => TreeOf(r) \in shared)
    BY DEF TreesInv, TreesIn, Full
  <2>2. TreeOf(r) \in Tree
    BY DerivedAssumption, TreeTypes DEF TreesInv, LocksInv, ClaimsInv, TypeOK, Wanting, Answers
  <2> QED
    BY <2>1, <2>2, DerivedAssumption DEF Content, Target, Tree
<1> QED
  BY <1>1, Invariance, PTL

-----------------------------------------------------------------------------
(* Parts are found by whoever looks when their model has been built.       *)

\* All there is to a model is registered, unless its file cannot be read or a request that
\* was to build it was cancelled.
Had(m) ==
    \/ Range(Yields[m]) \subseteq registered
    \/ m \in setting.failing
    \/ \E u \in Request : answer[u] = "cancelled" /\ Target(u) = m

Adding(r) == job[r] \in {"links", "adds"}

\* What a factory has passed is registered (assembly_factory_imported.py:334).
PassedIsRegistered ==
    \A r \in Request : Adding(r) =>
        /\ \A i \in 1 .. place[r] : Yields[Target(r)][i] \in registered
        /\ job[r] = "adds" => Yields[Target(r)][place[r] + 1] \in registered

\* A model is had when its factory is through, or has been found to have been, and when a
\* lookup gives its claim up; a tree with something in it is of a model that is had or is
\* being added to; and so is what was claimed and is not any more.
FactoriesHave == \A r \in Request : job[r] \in {"shares", "made", "failed"} => Had(Target(r))
LookupsHave == \A r \in Lookups : pc[r] \in {"clears", "signals"} => Had(TreeOf(r))
TreesHave ==
    \A m \in Model : children[m] # <<>> => Had(m) \/ \E r \in Request : Adding(r) /\ Target(r) = m
ClaimsHave ==
    \A m \in Model : m \in signalled \/ (m \in attempted /\ builder[m] = None) => Had(m)

PartsInv ==
    LocksInv /\ PassedIsRegistered /\ FactoriesHave /\ LookupsHave /\ TreesHave /\ ClaimsHave

\* Requests go on about the same trees.
LEMMA SameTargets ==
    ASSUME [Next]_vars
    PROVE  /\ setting' = setting /\ Lookups' = Lookups
           /\ \A r \in Request : (Target(r))' = Target(r) /\ (TreeOf(r))' = TreeOf(r)
  BY StepSetting DEF Lookups, TreeOf, Target

\* What is had stays had: nothing is taken from the package, and no cancellation forgotten.
LEMMA HadStays ==
    ASSUME LocksInv, [Next]_vars
    PROVE  /\ registered \subseteq registered'
           /\ \A m \in Model : Had(m) => Had(m)'
<1>1. /\ pc \in [Request -> Pcs] /\ Fresh /\ answer \in [Request -> {None} \cup Answers]
  BY DEF LocksInv, ClaimsInv, TypeOK, Pcs
<1> USE DEF Goto, requests, factories, trees, claims
<1>2. registered \subseteq registered'
  BY DEF Next, vars, Step, Cancel, Ask, Claim, StopWaiting, Find, Enter, Unblock, FindTree,
       StartFactory, EndBuilding, Clear, Signal, LockSource, Read, Register, Add, EndLinks, Share
<1>3. \A u \in Request : answer[u] = "cancelled" => answer'[u] = "cancelled"
  <2>1. CASE UNCHANGED vars
    BY <2>1 DEF vars
  <2>2. ASSUME NEW r \in Request, Step(r) \/ Cancel(r)
        PROVE  \A u \in Request : answer[u] = "cancelled" => answer'[u] = "cancelled"
    <3>1. CASE Find(r) \/ FindTree(r) \/ EndBuilding(r) \/ Cancel(r)
      BY <1>1, <3>1 DEF Find, FindTree, EndBuilding, Cancel, Fresh
    <3>2. CASE ~(Find(r) \/ FindTree(r) \/ EndBuilding(r) \/ Cancel(r))
      BY <2>2, <3>2 DEF Step, Ask, Claim, StopWaiting, Enter, Unblock, StartFactory, Clear, Signal,
         LockSource, Read, Register, Add, EndLinks, Share
    <3> QED
      BY <3>1, <3>2
  <2> QED
    BY <2>1, <2>2 DEF Next
<1> QED
  BY <1>2, <1>3, SameTargets DEF Had

\* A factory that is adding to a model is one that locks the model, or was left behind.
LEMMA AddingIsLocking ==
    ASSUME LocksInv, NEW u \in Request, Adding(u), ~Had(Target(u))
    PROVE  /\ pc[u] = "building"
           /\ TreeOf(u) \in Alias => u \in FilledBy(Target(u))
           /\ TreeOf(u) \notin Alias => TreeOf(u) = Target(u) /\ LoopOf[u] \in LockedBy(Target(u))
<1>1. pc[u] = "building"
  BY DEF LocksInv, Fresh, Filling, Adding, Had
<1> QED
  BY <1>1 DEF Adding, FilledBy, Filling, LockedBy, Inside, Target

\* A factory registers a part before it passes its link.
LEMMA StepPassed == PartsInv /\ [Next]_vars => PassedIsRegistered'
<1> SUFFICES ASSUME PartsInv, [Next]_vars, NEW r \in Request, Adding(r)'
             PROVE  /\ \A i \in 1 .. place'[r] : Yields[Target(r)][i] \in registered'
                    /\ job'[r] = "adds" => Yields[Target(r)][place'[r] + 1] \in registered'
  BY SameTargets DEF PassedIsRegistered
<1>1. /\ job \in [Request -> Jobs] /\ place \in [Request -> Nat] /\ registered \subseteq registered'
      /\ Adding(r) => /\ \A i \in 1 .. place[r] : Yields[Target(r)][i] \in registered
                      /\ job[r] = "adds" => Yields[Target(r)][place[r] + 1] \in registered
      /\ job[r] = "reads" => place[r] = 0
  BY HadStays DEF PartsInv, LocksInv, Fresh, ClaimsInv, TypeOK, Jobs, PassedIsRegistered
<1> USE DEF Goto, requests, factories, trees, claims, Adding
<1>2. CASE UNCHANGED <<job[r], place[r]>>
  BY <1>1, <1>2
<1>3. CASE Read(r)
  <2>1. place'[r] = 0 /\ job'[r] \in {"links", "failed"}
    BY <1>1, <1>3 DEF Read
  <2> QED
    BY <2>1
<1>4. CASE Register(r)
  BY <1>1, <1>4 DEF Register
<1>5. CASE Add(r)
  <2>1. /\ job[r] = "adds" /\ job'[r] = "links" /\ place'[r] = place[r] + 1 /\ place[r] \in Nat
    BY <1>1, <1>5 DEF Add
  <2>2. \A i \in 1 .. place[r] + 1 : i \in 1 .. place[r] \/ i = place[r] + 1
    BY <2>1
  <2> QED
    BY <1>1, <2>1, <2>2
<1>6. CASE StartFactory(r) \/ LockSource(r) \/ EndLinks(r) \/ Share(r)
  BY <1>1, <1>6 DEF StartFactory, LockSource, EndLinks, Share
<1>7. UNCHANGED <<job[r], place[r]>> \/ Read(r) \/ Register(r) \/ Add(r) \/ StartFactory(r)
        \/ LockSource(r) \/ EndLinks(r) \/ Share(r)
  BY <1>1 DEF Next, vars, Step, Cancel, Ask, Claim, StopWaiting, Find, Enter, Unblock, FindTree,
       StartFactory, EndBuilding, Clear, Signal, LockSource, Read, Register, Add, EndLinks, Share
<1> QED
  BY <1>2, <1>3, <1>4, <1>5, <1>6, <1>7

\* A factory that has passed all of its file has registered all of it.
LEMMA PassedAll ==
    ASSUME PartsInv, NEW r \in Request, Adding(r), Target(r) \in Model,
           place[r] = Len(Yields[Target(r)])
    PROVE  Had(Target(r))
<1>1. Yields[Target(r)] \in Seq(Part)
  BY DerivedAssumption
<1>2. \A i \in 1 .. Len(Yields[Target(r)]) : Yields[Target(r)][i] \in registered
  BY DEF PartsInv, PassedIsRegistered
<1> QED
  BY <1>1, <1>2 DEF Had, Range

\* A request at the front of a model's queue, or the factory of an alias that has the
\* model's lock, finds nobody adding to it.
LEMMA NobodyAddsAtTurn ==
    ASSUME PartsInv, NEW r \in Request, pc[r] = "queued", HasTurn(r),
           NEW u \in Request, Adding(u), Target(u) = TreeOf(r)
    PROVE  Had(TreeOf(r))
<1>1. SUFFICES ASSUME ~Had(TreeOf(r)) PROVE FALSE
  OBVIOUS
<1>2. LocksInv /\ pc[u] = "building" /\ (TreeOf(u) \notin Alias => TreeOf(u) = TreeOf(r))
  BY <1>1, AddingIsLocking DEF PartsInv
<1>3. CASE TreeOf(u) \in Alias
  BY <1>2, <1>3 DEF LocksInv, LocksIn, Inside, Adding, Filling
<1>4. CASE TreeOf(u) \notin Alias
  <2>1. LoopOf[u] = LoopOf[r]
    BY <1>2, <1>4 DEF LocksInv, LocksIn, Inside
  <2> QED
    BY <1>2, <1>4, <2>1 DEF HasTurn, OnLoop
<1> QED
  BY <1>3, <1>4

\* A factory that is through has registered all that its model yields (do_instantiate).
LEMMA StepFactoriesHave == PartsInv /\ [Next]_vars => FactoriesHave'
<1> SUFFICES ASSUME PartsInv, [Next]_vars, NEW r \in Request, job'[r] \in {"shares", "made", "failed"}
             PROVE  Had(Target(r))'
  BY DEF FactoriesHave
<1>1. /\ job \in [Request -> Jobs] /\ LocksInv /\ (Target(r))' = Target(r)
      /\ job[r] \in {"shares", "made", "failed"} => Had(Target(r))
      /\ job[r] # "none" => Target(r) \in Model
  BY SameTargets, TreeTypes DEF PartsInv, LocksInv, ClaimsInv, TypeOK, Jobs, FactoriesHave, Wanting
<1>2. \A m \in Model : Had(m) /\ m = Target(r) => Had(Target(r))'
  BY <1>1, HadStays DEF Had
<1> USE DEF Goto, requests, factories, trees, claims
<1>3. CASE job'[r] = job[r] \/ Share(r)
  <2>1. job[r] \in {"shares", "made", "failed"}
    BY <1>3 DEF Share
  <2> QED
    BY <1>1, <1>2, <2>1
<1>4. CASE LockSource(r)
  <2>1. /\ job[r] = "locks" /\ children[Target(r)] # <<>>
        /\ LockedBy(Target(r)) = {} /\ FilledBy(Target(r)) = {}
    BY <1>1, <1>4 DEF LockSource
  <2>2. Had(Target(r))
    <3>1. SUFFICES ASSUME ~Had(Target(r)) PROVE FALSE
      OBVIOUS
    <3>2. PICK u \in Request : Adding(u) /\ Target(u) = Target(r)
      BY <1>1, <2>1, <3>1 DEF PartsInv, TreesHave
    <3> QED
      BY <1>1, <2>1, <3>1, <3>2, AddingIsLocking
  <2> QED
    BY <1>1, <1>2, <2>1, <2>2
<1>5. CASE Read(r)
  <2>1. Target(r) \in Model /\ Target(r) \in setting.failing
    BY <1>1, <1>5 DEF Read
  <2> QED
    BY <1>2, <2>1 DEF Had
<1>6. CASE EndLinks(r)
  <2>1. Target(r) \in Model /\ Had(Target(r))
    BY <1>1, <1>6, PassedAll DEF EndLinks, Adding
  <2> QED
    BY <1>2, <2>1
<1>7. CASE StartFactory(r) \/ Register(r) \/ Add(r)
  BY <1>1, <1>7 DEF StartFactory, Register, Add
<1>8. job'[r] = job[r] \/ Read(r) \/ Register(r) \/ Add(r) \/ StartFactory(r)
        \/ LockSource(r) \/ EndLinks(r) \/ Share(r)
  BY <1>1 DEF Next, vars, Step, Cancel, Ask, Claim, StopWaiting, Find, Enter, Unblock, FindTree,
       StartFactory, EndBuilding, Clear, Signal, LockSource, Read, Register, Add, EndLinks, Share
<1> QED
  BY <1>3, <1>4, <1>5, <1>6, <1>7, <1>8

\* A lookup gives its claim up when the model it built is had (get_part).
LEMMA StepLookupsHave == PartsInv /\ [Next]_vars => LookupsHave'
<1> SUFFICES ASSUME PartsInv, [Next]_vars, NEW r \in Lookups, pc'[r] \in {"clears", "signals"}
             PROVE  Had(TreeOf(r))'
  BY SameTargets DEF LookupsHave
<1>0. r \in Request /\ setting.want[r] \in Part /\ setting.want[r] # None
  BY DerivedAssumption DEF Lookups
<1>1. /\ pc \in [Request -> Pcs] /\ answer \in [Request -> {None} \cup Answers] /\ LocksInv
      /\ (TreeOf(r))' = TreeOf(r) /\ TreeOf(r) \in Model /\ Target(r) = TreeOf(r)
      /\ (Target(r))' = TreeOf(r)
      /\ pc[r] \in {"clears", "signals"} => Had(TreeOf(r))
  BY <1>0, SameTargets, TreeTypes, DerivedAssumption
     DEF PartsInv, LocksInv, ClaimsInv, TypeOK, Pcs, LookupsHave, Target
<1>2. Had(TreeOf(r)) => Had(TreeOf(r))'
  BY <1>1, HadStays DEF Had
<1> USE DEF Goto, requests, factories, trees, claims
<1>3. CASE pc'[r] = pc[r] \/ Clear(r)
  BY <1>1, <1>2, <1>3 DEF Clear
<1>4. CASE FindTree(r)
  <2>1. children[TreeOf(r)] # <<>> /\ pc[r] = "queued" /\ HasTurn(r)
    BY <1>1, <1>4 DEF FindTree, Content
  <2>2. Had(TreeOf(r))
    BY <1>0, <1>1, <2>1, NobodyAddsAtTurn DEF PartsInv, TreesHave
  <2> QED
    BY <1>2, <2>2
<1>5. CASE EndBuilding(r)
  <2>1. Had(TreeOf(r))
    BY <1>0, <1>1, <1>5 DEF EndBuilding, PartsInv, FactoriesHave
  <2> QED
    BY <1>2, <2>1
<1>6. CASE Cancel(r)
  <2>1. answer'[r] = "cancelled"
    BY <1>0, <1>1, <1>6 DEF Cancel
  <2> QED
    BY <1>0, <1>1, <2>1 DEF Had
<1>7. CASE Ask(r) \/ Claim(r) \/ StopWaiting(r) \/ Find(r) \/ Enter(r) \/ Unblock(r) \/ StartFactory(r)
          \/ Signal(r)
  BY <1>0, <1>1, <1>7 DEF Ask, Claim, StopWaiting, Find, Enter, Unblock, StartFactory, Signal
<1>8. \/ pc'[r] = pc[r] \/ Clear(r) \/ FindTree(r) \/ EndBuilding(r) \/ Cancel(r)
      \/ Ask(r) \/ Claim(r) \/ StopWaiting(r) \/ Find(r) \/ Enter(r) \/ Unblock(r) \/ StartFactory(r)
      \/ Signal(r)
  BY <1>0, <1>1 DEF Next, vars, Step, Cancel, Ask, Claim, StopWaiting, Find, Enter, Unblock, FindTree,
       StartFactory, EndBuilding, Clear, Signal, LockSource, Read, Register, Add, EndLinks, Share
<1> QED
  BY <1>3, <1>4, <1>5, <1>6, <1>7, <1>8

\* Nothing is in a tree but by a factory that is at it, or was.
LEMMA StepTreesHave == PartsInv /\ [Next]_vars => TreesHave'
<1> SUFFICES ASSUME PartsInv, [Next]_vars, NEW m \in Model, children'[m] # <<>>
             PROVE  Had(m)' \/ \E r \in Request : Adding(r)' /\ Target(r) = m
  BY SameTargets DEF TreesHave
<1>1. /\ job \in [Request -> Jobs] /\ children \in [Model -> Seq(Part)] /\ LocksInv
      /\ \A r \in Request : job[r] # "none" => Target(r) \in Model
  BY TreeTypes DEF PartsInv, LocksInv, ClaimsInv, TypeOK, Jobs, Wanting
<1>2. Had(m) => Had(m)'
  BY <1>1, HadStays
<1> USE DEF Goto, requests, factories, trees, claims, Adding
<1>3. ASSUME NEW r \in Request, Add(r) PROVE Had(m)' \/ \E u \in Request : Adding(u)' /\ Target(u) = m
  <2>1. job'[r] = "links" /\ job[r] = "adds" /\ \A u \in Request \ {r} : job'[u] = job[u]
    BY <1>1, <1>3 DEF Add
  <2>2. CASE Target(r) = m
    BY <2>1, <2>2
  <2>3. CASE Target(r) # m
    <3>1. children'[m] = children[m]
      BY <1>1, <1>3, <2>3 DEF Add
    <3> QED
      BY <1>2, <2>1, <3>1 DEF PartsInv, TreesHave
  <2> QED
    BY <2>2, <2>3
<1>4. CASE children'[m] = children[m]
  <2>1. CASE Had(m)
    BY <1>2, <2>1
  <2>2. ASSUME NEW u \in Request, Adding(u), Target(u) = m PROVE Had(m)' \/ Adding(u)'
    <3>1. CASE EndLinks(u)
      <4>1. Had(m)
        BY <1>1, <2>2, <3>1, PassedAll DEF EndLinks
      <4> QED
        BY <1>2, <4>1
    <3>2. CASE ~EndLinks(u)
      <4>1. Adding(u)'
        <5>1. ASSUME NEW d \in Request, Step(d) \/ Cancel(d), d # u PROVE job'[u] = job[u]
          BY <1>1, <5>1 DEF Step, Cancel, Ask, Claim, StopWaiting, Find, Enter, Unblock, FindTree,
             StartFactory, EndBuilding, Clear, Signal, LockSource, Read, Register, Add, EndLinks, Share
        <5>2. CASE StartFactory(u)
          BY <2>2, <5>2 DEF StartFactory, LocksInv, Fresh, PartsInv
        <5>3. CASE (Step(u) \/ Cancel(u)) /\ ~StartFactory(u)
          BY <1>1, <2>2, <3>2, <5>3 DEF Step, Cancel, Ask, Claim, StopWaiting, Find, Enter, Unblock,
             FindTree, EndBuilding, Clear, Signal, LockSource, Read, Register, Add, Share
        <5> QED
          BY <2>2, <5>1, <5>2, <5>3 DEF Next, vars
      <4> QED
        BY <4>1
    <3> QED
      BY <3>1, <3>2
  <2> QED
    BY <1>4, <2>1, <2>2 DEF PartsInv, TreesHave
<1>5. children' = children \/ \E r \in Request : Add(r)
  BY DEF Next, vars, Step, Cancel, Ask, Claim, StopWaiting, Find, Enter, Unblock, FindTree,
       StartFactory, EndBuilding, Clear, Signal, LockSource, Read, Register, EndLinks, Share
<1> QED
  BY <1>3, <1>4, <1>5

\* An event is set, and a claim given up, for a model that is had (get_part).
LEMMA StepClaimsHave == PartsInv /\ [Next]_vars => ClaimsHave'
<1> SUFFICES ASSUME PartsInv, [Next]_vars, NEW m \in Model,
                    m \in signalled' \/ (m \in attempted' /\ builder'[m] = None)
             PROVE  Had(m)'
  BY DEF ClaimsHave
<1>1. /\ builder \in [Model -> Request \cup {None}] /\ None \notin Request
      /\ LocksInv /\ setting \in Setting /\ Wanting
  BY DerivedAssumption DEF PartsInv, LocksInv, ClaimsInv, TypeOK
<1>2. Had(m) => Had(m)'
  BY <1>1, HadStays
<1> USE DEF Goto, requests, factories, trees, claims
<1>3. CASE UNCHANGED claims
  BY <1>2, <1>3 DEF PartsInv, ClaimsHave
<1>4. ASSUME NEW r \in Request, Claim(r) PROVE Had(m)'
  <2>1. m \in signalled \/ (m \in attempted /\ builder[m] = None)
    BY <1>1, <1>4 DEF Claim
  <2> QED
    BY <1>2, <2>1 DEF PartsInv, ClaimsHave
<1>5. ASSUME NEW r \in Request, Clear(r) \/ Signal(r) PROVE Had(m)'
  <2>1. r \in Lookups /\ pc[r] \in {"clears", "signals"}
    BY <1>1, <1>5 DEF Clear, Signal, Wanting
  <2>2. Had(TreeOf(r))
    BY <2>1 DEF PartsInv, LookupsHave
  <2>3. m = TreeOf(r) \/ m \in signalled \/ (m \in attempted /\ builder[m] = None)
    BY <1>1, <1>5 DEF Clear, Signal
  <2> QED
    BY <1>2, <2>2, <2>3 DEF PartsInv, ClaimsHave
<1>6. UNCHANGED claims \/ \E r \in Request : Claim(r) \/ Clear(r) \/ Signal(r)
  BY DEF Next, vars, Step, Cancel, Ask, StopWaiting, Find, Enter, Unblock, FindTree,
       StartFactory, EndBuilding, LockSource, Read, Register, Add, EndLinks, Share
<1> QED
  BY <1>3, <1>4, <1>5, <1>6

\* A lookup that waited for the build of its model, found it over or was the one that built it
\* finds its part, unless the file cannot be read or a build was cancelled (project.py:1911-2034).
THEOREM BuiltPartsAreFound == Spec => PartsAreFound
<1> DEFINE Found ==
        \A r \in Lookups :
            pc[r] \in {"claims", "waits", "signals"} /\ pc'[r] = "finds" =>
                \/ setting.want[r] \in registered
                \/ TreeOf(r) \in setting.failing
                \/ \E u \in Request : answer[u] = "cancelled" /\ Target(u) = TreeOf(r)
<1>1. Init => PartsInv
  <2> SUFFICES ASSUME Init PROVE PartsInv
    OBVIOUS
  <2>1. LocksInv
    BY InitLocks
  <2>2. PassedIsRegistered /\ FactoriesHave /\ LookupsHave /\ TreesHave /\ ClaimsHave
    BY DEF Init, PassedIsRegistered, FactoriesHave, LookupsHave, TreesHave, ClaimsHave, Adding, Lookups
  <2> QED
    BY <2>1, <2>2 DEF PartsInv
<1>2. PartsInv /\ [Next]_vars => PartsInv'
  <2>1. PartsInv => LocksInv
    BY DEF PartsInv
  <2> QED
    BY <2>1, StepLocks, StepPassed, StepFactoriesHave, StepLookupsHave, StepTreesHave, StepClaimsHave
       DEF PartsInv
<1>3. PartsInv /\ [Next]_vars => [Found]_vars
  <2> SUFFICES ASSUME PartsInv, [Next]_vars, NEW r \in Lookups,
                      pc[r] \in {"claims", "waits", "signals"}, pc'[r] = "finds"
               PROVE  \/ setting.want[r] \in registered
                      \/ TreeOf(r) \in setting.failing
                      \/ \E u \in Request : answer[u] = "cancelled" /\ Target(u) = TreeOf(r)
    OBVIOUS
  <2>1. /\ r \in Request /\ setting.want[r] \in Part /\ pc \in [Request -> Pcs]
        /\ TreeOf(r) \in Model /\ TreeOf(r) = OwnerOf(setting.want[r])
    BY TreeTypes, DerivedAssumption DEF Lookups, PartsInv, LocksInv, ClaimsInv, TypeOK, Pcs, TreeOf
  <2>2. CASE Claim(r) \/ StopWaiting(r)
    <3>1. TreeOf(r) \in signalled \/ (TreeOf(r) \in attempted /\ builder[TreeOf(r)] = None)
      BY <2>1, <2>2 DEF Claim, StopWaiting, Goto
    <3>2. Had(TreeOf(r))
      BY <2>1, <3>1 DEF PartsInv, ClaimsHave
    <3>3. setting.want[r] \in Range(Yields[TreeOf(r)])
      BY <2>1, DerivedAssumption DEF OwnerOf
    <3> QED
      BY <3>2, <3>3 DEF Had
  <2>3. CASE Signal(r)
    <3>1. Had(TreeOf(r))
      BY <2>3 DEF Signal, PartsInv, LookupsHave
    <3>2. setting.want[r] \in Range(Yields[TreeOf(r)])
      BY <2>1, DerivedAssumption DEF OwnerOf
    <3> QED
      BY <3>1, <3>2 DEF Had
  <2>4. Claim(r) \/ StopWaiting(r) \/ Signal(r)
    <3>1. ASSUME NEW d \in Request, Step(d) \/ Cancel(d), d # r PROVE pc'[r] = pc[r]
      BY <2>1, <3>1 DEF Goto, requests, Step, Cancel, Ask, Claim, StopWaiting, Find, Enter, Unblock,
         FindTree, StartFactory, EndBuilding, Clear, Signal, LockSource, Read, Register, Add, EndLinks,
         Share
    <3>2. CASE Step(r) \/ Cancel(r)
      BY <2>1, <3>2 DEF Goto, requests, Step, Cancel, Ask, Find, Enter, Unblock, FindTree,
         StartFactory, EndBuilding, Clear, LockSource, Read, Register, Add, EndLinks, Share, Inside, Past
    <3> QED
      BY <3>1, <3>2 DEF Next, vars, requests
  <2> QED
    BY <2>2, <2>3, <2>4
<1> QED
  BY <1>1, <1>2, <1>3, PTL DEF Spec, PartsAreFound
=============================================================================
