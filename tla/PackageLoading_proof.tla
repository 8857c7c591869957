------------------------ MODULE PackageLoading_proof ------------------------
(***************************************************************************)
(* What PackageLoading keeps true of any context: states are well typed,   *)
(* nobody gets hold of a package that is not complete, no package is       *)
(* loaded a second time, and the context's lock is held exactly over the   *)
(* lookups.  All of it rests on the shape of the call stacks: the frames   *)
(* of a thread are the thread and the packages it has locked, each of      *)
(* which was asked for by exactly one of the others, and a frame that      *)
(* waits for an import waits for just the package above it.                *)
(*                                                                         *)
(* And get_project's answers are right, because a refusal is passed on     *)
(* unchanged: from the load that cannot succeed (CannotLoad, which stays   *)
(* so once it holds), through every stack that waits for it (RefusalsOK),  *)
(* to the client whose goal that is (CallsOK).                             *)
(***************************************************************************)
EXTENDS PackageLoading, FiniteSetTheorems, TLAPS

\* Frame f is in a lookup or an import that still has a package to import.
Importing(f) ==
    /\ goal[f] \in Package
    /\ at[f] = None \/ at[f] \in Lineage(goal[f]) \ {goal[f]}

\* The top of each stack.
TopsOK ==
    \A t \in Thread :
        /\ frame[t] = t \/ (frame[t] \in Package /\ holder[frame[t]] = t)
        /\ pc[t] \in {"idle", "all", "done"} => frame[t] = t
        /\ pc[t] \in {"load", "fail"} => frame[t] \in Package
        /\ pc[t] \in {"idle", "all", "done", "load", "fail", "ctx"} => at[frame[t]] = None
        /\ pc[t] = "ctx" => goal[frame[t]] \in Package
        /\ pc[t] = "walk" => /\ goal[frame[t]] \in Package
                             /\ at[frame[t]] \in Lineage(goal[frame[t]])
        /\ pc[t] \in {"lock", "ret"} => Importing(frame[t])
        /\ pc[t] = "ret" /\ at[frame[t]] # None /\ result[t] \in Package =>
              result[t] = Wanted(t)

\* What is under the top: a locked package has the frame that asked for it.
StackOf(p) ==
    /\ holder[p] = None => at[p] = None
    /\ holder[p] # None =>
          /\ asker[p] = holder[p]
             \/ (asker[p] \in Package /\ asker[p] # p /\ holder[asker[p]] = holder[p])
          /\ asker[p] # frame[holder[p]]
          /\ Importing(asker[p]) /\ WantedBy(asker[p]) = p
          /\ \A q \in Package : holder[q] # None /\ asker[q] = asker[p] => q = p

StacksOK == \A p \in Package : StackOf(p)

IInv == TypeOK /\ TopsOK /\ StacksOK /\ OnlyWholePackages /\ ContextLockIsExact

-----------------------------------------------------------------------------
\* The top of a stack is on no other one, and no locked package was asked for by it.
LEMMA TopIsFree ==
    ASSUME TypeOK, TopsOK, StacksOK, NEW t \in Thread
    PROVE  /\ \A u \in Thread : frame[u] = frame[t] => u = t
           /\ \A p \in Package : holder[p] # None => asker[p] # frame[t]
  BY PackagesInOrder DEF TypeOK, TopsOK, StacksOK, StackOf, Thread, Frame

\* What a frame imports next is a package, on the way to the one it is after.
LEMMA WantedIsPackage ==
    ASSUME NEW f, Importing(f)
    PROVE  /\ WantedBy(f) \in Package
           /\ at[f] # None => WantedBy(f) \in Lineage(goal[f])
  BY PackagesInOrder, TreeInOrder DEF Importing, WantedBy

-----------------------------------------------------------------------------
\* At first only Main is after something, and no package is there.
THEOREM InitIInv == Init => IInv
<1> SUFFICES ASSUME Init PROVE IInv
  OBVIOUS
<1>1. TypeOK
  BY PackagesInOrder DEF Init, TypeOK, Frame, Thread
<1>2. TopsOK /\ StacksOK /\ OnlyWholePackages
  BY PackagesInOrder DEF Init, TopsOK, StacksOK, StackOf, OnlyWholePackages, Importing, Thread, Frame
<1>3. ContextLockIsExact
  <2>1. {f \in Frame : at[f] # None} = {}
    BY DEF Init, Frame
  <2> QED
    BY <2>1, FS_EmptySet, PackagesInOrder DEF Init, ContextLockIsExact, Frame, Thread
<1> QED
  BY <1>1, <1>2, <1>3 DEF IInv

\* Steps that leave the walks and the context's lock alone.
LEMMA LockUntouched ==
    ASSUME ContextLockIsExact, UNCHANGED <<lock, at, holder>>
    PROVE  ContextLockIsExact'
  BY DEF ContextLockIsExact, lock

\* A client that asks has an empty stack (get_project).
LEMMA StartGetKeeps ==
    ASSUME IInv, NEW c \in Client, StartGet(c)
    PROVE  IInv'
<1> USE DEF IInv
<1>0. c \in Thread /\ frame[c] = c /\ at[c] = None /\ setting.job[c] \in Package
  BY DEF StartGet, TopsOK, Thread
<1>1. TypeOK'
  BY <1>0, PackagesInOrder DEF StartGet, TypeOK, Goto, pkgs, lock, wave, Frame, Thread
<1>2. TopsOK'
  BY <1>0, TopIsFree, PackagesInOrder DEF StartGet, TypeOK, TopsOK, Goto, pkgs, lock, wave, Frame, Thread, Importing, Wanted, WantedBy
<1>3. StacksOK'
  BY <1>0, TopIsFree, PackagesInOrder DEF StartGet, TypeOK, StacksOK, StackOf, Goto, pkgs, lock, wave, Frame, Thread, Importing, WantedBy
<1>4. OnlyWholePackages'
  BY DEF StartGet, OnlyWholePackages, pkgs, wave
<1>5. ContextLockIsExact'
  BY LockUntouched DEF StartGet, pkgs
<1> QED
  BY <1>1, <1>2, <1>3, <1>4, <1>5

\* A step of a walk over a package that is there moves only that walk (get_project).
LEMMA WalkKeeps ==
    ASSUME IInv, NEW t \in Thread, Walk(t)
    PROVE  IInv'
<1> USE DEF IInv
<1>0. /\ frame[t] \in Frame /\ at[frame[t]] \in Package /\ goal[frame[t]] \in Package
      /\ Importing(frame[t])
      /\ Wanted(t) \in Package /\ Wanted(t) \in Lineage(goal[frame[t]])
  BY WantedIsPackage, TreeInOrder, PackagesInOrder DEF Walk, TypeOK, TopsOK, Importing, Wanted
<1>1. TypeOK'
  BY <1>0, PackagesInOrder DEF Walk, TypeOK, Goto, pkgs, lock, wave, Frame, Thread
<1>2. TopsOK'
  BY <1>0, TopIsFree, PackagesInOrder DEF Walk, TypeOK, TopsOK, Goto, pkgs, lock, wave, Frame, Thread, Importing, Wanted, WantedBy
<1>3. StacksOK'
  BY <1>0, TopIsFree, PackagesInOrder DEF Walk, TypeOK, StacksOK, StackOf, Goto, pkgs, lock, wave, Frame, Thread, Importing, WantedBy
<1>4. OnlyWholePackages'
  BY <1>0, PackagesInOrder DEF Walk, OnlyWholePackages, TypeOK, pkgs, wave, Frame
<1>5. ContextLockIsExact'
  <2>1. {f \in Frame : at'[f] # None} = {f \in Frame : at[f] # None}
    BY <1>0, PackagesInOrder DEF Walk, TypeOK, Frame
  <2> QED
    BY <2>1, <1>0, PackagesInOrder DEF Walk, ContextLockIsExact, TypeOK, pkgs, lock, Frame, Thread
<1> QED
  BY <1>1, <1>2, <1>3, <1>4, <1>5

\* A walk goes on below the package that it has just had imported (get_project).
LEMMA WalkOnKeeps ==
    ASSUME IInv, NEW t \in Thread, WalkOn(t)
    PROVE  IInv'
<1> USE DEF IInv
<1>0. /\ frame[t] \in Frame /\ at[frame[t]] \in Package /\ goal[frame[t]] \in Package
      /\ result[t] \in Package /\ result[t] \in Lineage(goal[frame[t]])
  BY WantedIsPackage, TreeInOrder, PackagesInOrder DEF WalkOn, TypeOK, TopsOK, Importing, Wanted
<1>1. TypeOK'
  BY <1>0, PackagesInOrder DEF WalkOn, TypeOK, Goto, pkgs, lock, wave, Frame, Thread
<1>2. TopsOK'
  BY <1>0, TopIsFree, PackagesInOrder DEF WalkOn, TypeOK, TopsOK, Goto, pkgs, lock, wave, Frame, Thread, Importing, Wanted, WantedBy
<1>3. StacksOK'
  BY <1>0, TopIsFree, PackagesInOrder DEF WalkOn, TypeOK, StacksOK, StackOf, Goto, pkgs, lock, wave, Frame, Thread, Importing, WantedBy
<1>4. OnlyWholePackages'
  BY <1>0, PackagesInOrder DEF WalkOn, OnlyWholePackages, TypeOK, pkgs, wave, Frame
<1>5. ContextLockIsExact'
  <2>1. {f \in Frame : at'[f] # None} = {f \in Frame : at[f] # None}
    BY <1>0, PackagesInOrder DEF WalkOn, TypeOK, Frame
  <2> QED
    BY <2>1, <1>0, PackagesInOrder DEF WalkOn, ContextLockIsExact, TypeOK, pkgs, lock, Frame, Thread
<1> QED
  BY <1>1, <1>2, <1>3, <1>4, <1>5

\* A lookup more, and one less, under the context's lock.
LEMMA OneMore ==
    ASSUME NEW f \in Frame, at \in [Frame -> Package \cup {None}], at[f] = None,
           NEW p \in Package, at' = [at EXCEPT ![f] = p]
    PROVE  /\ Cardinality({g \in Frame : at[g] # None}) \in Nat
           /\ Cardinality({g \in Frame : at'[g] # None}) =
                 Cardinality({g \in Frame : at[g] # None}) + 1
<1>1. {g \in Frame : at'[g] # None} = {g \in Frame : at[g] # None} \cup {f}
  BY PackagesInOrder
<1>2. IsFiniteSet({g \in Frame : at[g] # None}) /\ f \notin {g \in Frame : at[g] # None}
  BY FS_Subset, PackagesInOrder DEF Frame, Thread
<1> QED
  BY <1>1, <1>2, FS_AddElement, FS_CardinalityType

\* One frame less is looking something up.
LEMMA OneLess ==
    ASSUME NEW f \in Frame, at \in [Frame -> Package \cup {None}], at[f] # None,
           at' = [at EXCEPT ![f] = None]
    PROVE  /\ Cardinality({g \in Frame : at[g] # None}) \in Nat \ {0}
           /\ Cardinality({g \in Frame : at'[g] # None}) =
                 Cardinality({g \in Frame : at[g] # None}) - 1
           /\ Cardinality({g \in Frame : at'[g] # None}) = 0 =>
                 \A g \in Frame : at'[g] = None
<1> DEFINE S == {g \in Frame : at[g] # None}
           T == {g \in Frame : at'[g] # None}
<1>1. T = S \ {f} /\ f \in S
  OBVIOUS
<1>2. IsFiniteSet(S) /\ IsFiniteSet(T)
  BY FS_Subset, PackagesInOrder DEF Frame, Thread
<1>3. Cardinality(S) \in Nat /\ Cardinality(T) \in Nat /\ Cardinality(T) = Cardinality(S) - 1
  BY <1>1, <1>2, FS_RemoveElement, FS_CardinalityType
<1>4. Cardinality(T) = 0 => T = {}
  BY <1>2, FS_EmptySet
<1> QED
  BY <1>3, <1>4

\* A lookup that begins is counted in the context's lock (get_project).
LEMMA TakeContextLockKeeps ==
    ASSUME IInv, NEW t \in Thread, TakeContextLock(t)
    PROVE  IInv'
<1> USE DEF IInv
<1>0. /\ frame[t] \in Frame /\ at[frame[t]] = None /\ goal[frame[t]] \in Package
      /\ frame[t] = t \/ (frame[t] \in Package /\ holder[frame[t]] = t)
      /\ Root \in Lineage(goal[frame[t]]) /\ Root \in Package /\ ctxDepth \in Nat
  BY TreeInOrder, PackagesInOrder DEF TakeContextLock, TypeOK, TopsOK
<1>1. TypeOK'
  BY <1>0, PackagesInOrder DEF TakeContextLock, TypeOK, Goto, pkgs, lock, wave, Frame, Thread
<1>2. TopsOK'
  BY <1>0, TopIsFree, PackagesInOrder DEF TakeContextLock, TypeOK, TopsOK, Goto, pkgs, lock, wave, Frame, Thread, Importing, Wanted, WantedBy
<1>3. StacksOK'
  <2> SUFFICES ASSUME NEW p \in Package
               PROVE  StackOf(p)'
    BY DEF StacksOK
  <2>1. StackOf(p) /\ \A q \in Package : StackOf(q)
    BY DEF StacksOK
  <2>2. TypeOK'
    BY <1>1
  <2>3. (holder[p] = None => at[p] = None)'
    BY <1>0, <2>1, PackagesInOrder DEF TakeContextLock, StackOf, TypeOK, Goto, pkgs, Frame, Thread
  <2>4. ASSUME holder'[p] # None
        PROVE  /\ (asker[p] = holder[p]
                  \/ (asker[p] \in Package /\ asker[p] # p /\ holder[asker[p]] = holder[p]))'
               /\ (asker[p] # frame[holder[p]])'
    BY <1>0, <2>1, <2>4, TopIsFree, PackagesInOrder DEF TakeContextLock, StackOf, TypeOK, Goto, pkgs, Frame, Thread
  <2>5. ASSUME holder'[p] # None
        PROVE  (Importing(asker[p]) /\ WantedBy(asker[p]) = p)'
    BY <1>0, <2>1, <2>5, TopIsFree, PackagesInOrder DEF TakeContextLock, StackOf, TypeOK, Goto, pkgs, Frame, Thread, Importing, Wanted, WantedBy
  <2>6. ASSUME holder'[p] # None
        PROVE  \A q \in Package : holder'[q] # None /\ asker'[q] = asker'[p] => q = p
    BY <1>0, <2>1, <2>6, TopIsFree, PackagesInOrder DEF TakeContextLock, StackOf, TypeOK, Goto, pkgs, Frame, Thread
  <2> QED
    BY <2>3, <2>4, <2>5, <2>6 DEF StackOf
<1>4. OnlyWholePackages'
  BY <1>0, PackagesInOrder DEF TakeContextLock, OnlyWholePackages, TypeOK, TopsOK, StacksOK, StackOf, Goto, pkgs, wave, Frame, Thread
<1>5. ContextLockIsExact'
  <2>1. CASE Root \in projects
    <3>1. at' = [at EXCEPT ![frame[t]] = Root]
      BY <2>1 DEF TakeContextLock
    <3>2. ctxDepth' = Cardinality({f \in Frame : at'[f] # None})
      BY <1>0, <2>1, <3>1, OneMore DEF TakeContextLock, ContextLockIsExact, TypeOK
    <3> QED
      <4>1. ctxOwner' = t /\ holder' = holder /\ ctxDepth' # 0 /\ t # None
        BY <1>0, <2>1, PackagesInOrder DEF TakeContextLock, pkgs, Thread
      <4>2. ctxOwner \in {None, t}
        BY DEF TakeContextLock
      <4>3. \A u \in Thread : at'[u] # None => u = t
        BY <1>0, <3>1, <4>2, PackagesInOrder DEF ContextLockIsExact, TypeOK, Frame, Thread
      <4>4. \A p \in Package : at'[p] # None => holder[p] = t
        BY <1>0, <3>1, <4>2, PackagesInOrder DEF ContextLockIsExact, TypeOK, StacksOK, StackOf, Frame, Thread
      <4> QED
        BY <3>2, <4>1, <4>3, <4>4 DEF ContextLockIsExact
  <2>2. CASE Root \notin projects
    BY <2>2, LockUntouched DEF TakeContextLock, pkgs
  <2> QED
    BY <2>1, <2>2
<1> QED
  BY <1>1, <1>2, <1>3, <1>4, <1>5

\* A lookup that ends is not counted any more (get_project).
LEMMA EndGetKeeps ==
    ASSUME IInv, NEW t \in Thread, EndGet(t)
    PROVE  IInv'
<1> USE DEF IInv
<1>0. /\ frame[t] \in Frame /\ at[frame[t]] \in Package /\ goal[frame[t]] \in Package
      /\ at' = [at EXCEPT ![frame[t]] = None] /\ at \in [Frame -> Package \cup {None}]
      /\ ctxDepth \in Nat \ {0}
      /\ ctxDepth' = ctxDepth - 1
      /\ ctxDepth' = Cardinality({f \in Frame : at'[f] # None})
      /\ ctxDepth' = 0 => \A f \in Frame : at'[f] = None
  <2>1. /\ frame[t] \in Frame /\ at[frame[t]] \in Package /\ goal[frame[t]] \in Package
        /\ at' = [at EXCEPT ![frame[t]] = None] /\ at \in [Frame -> Package \cup {None}]
    BY TreeInOrder, PackagesInOrder DEF EndGet, TypeOK, TopsOK, Importing
  <2> QED
    BY <2>1, OneLess, PackagesInOrder DEF EndGet, ContextLockIsExact
<1>1. TypeOK'
  BY <1>0, PackagesInOrder DEF EndGet, TypeOK, Goto, pkgs, lock, wave, Frame, Thread
<1>2. TopsOK'
  BY <1>0, TopIsFree, PackagesInOrder DEF EndGet, TypeOK, TopsOK, Goto, pkgs, lock, wave, Frame, Thread, Importing, Wanted, WantedBy
<1>3. StacksOK'
  BY <1>0, TopIsFree, PackagesInOrder DEF EndGet, TypeOK, StacksOK, StackOf, Goto, pkgs, lock, wave, Frame, Thread, Importing, WantedBy
<1>4. OnlyWholePackages'
  BY <1>0, PackagesInOrder DEF EndGet, OnlyWholePackages, TypeOK, TopsOK, StacksOK, StackOf, Goto, pkgs, wave, Frame, Thread
<1>5. ContextLockIsExact'
  <2>1. CASE ctxDepth = 1
    BY <1>0, <2>1 DEF EndGet, ContextLockIsExact, Frame, Thread
  <2>2. CASE ctxDepth # 1
    <3>1. ctxOwner' = ctxOwner /\ holder' = holder /\ ctxOwner # None /\ ctxDepth' # 0
      BY <1>0, <2>2 DEF EndGet, ContextLockIsExact, pkgs
    <3>2. \A f \in Frame : at'[f] # None => at'[f] = at[f]
      BY <1>0
    <3> QED
      BY <1>0, <3>1, <3>2 DEF ContextLockIsExact, Frame, Thread
  <2> QED
    BY <2>1, <2>2
<1> QED
  BY <1>1, <1>2, <1>3, <1>4, <1>5

\* An import puts its package on top of the stack that wants it (import_project).
LEMMA TakePackageLockKeeps ==
    ASSUME IInv, NEW t \in Thread, TakePackageLock(t)
    PROVE  IInv'
<1> USE DEF IInv
<1>0. /\ frame[t] \in Frame /\ Importing(frame[t]) /\ Wanted(t) \in Package
      /\ holder[Wanted(t)] = None /\ at[Wanted(t)] = None
      /\ setting.refs[Wanted(t)] \subseteq Package
      /\ frame[t] = t \/ (frame[t] \in Package /\ holder[frame[t]] = t)
  BY WantedIsPackage, SettingsInOrder DEF TakePackageLock, TypeOK, TopsOK, StacksOK, StackOf, Wanted, SettingOK
<1>1. TypeOK'
  BY <1>0, PackagesInOrder DEF TakePackageLock, TypeOK, Goto, pkgs, lock, wave, Frame, Thread
<1>2. TopsOK'
  BY <1>0, TopIsFree, PackagesInOrder DEF TakePackageLock, TypeOK, TopsOK, Goto, pkgs, lock, wave, Frame, Thread, Importing, Wanted, WantedBy
<1>3. StacksOK'
  <2> SUFFICES ASSUME NEW p \in Package
               PROVE  StackOf(p)'
    BY DEF StacksOK
  <2>1. StackOf(p) /\ \A q \in Package : StackOf(q)
    BY DEF StacksOK
  <2>2. TypeOK'
    BY <1>1
  <2>3. (holder[p] = None => at[p] = None)'
    BY <1>0, <2>1, PackagesInOrder DEF TakePackageLock, StackOf, TypeOK, Goto, pkgs, Frame, Thread
  <2>4. ASSUME holder'[p] # None
        PROVE  /\ (asker[p] = holder[p]
                  \/ (asker[p] \in Package /\ asker[p] # p /\ holder[asker[p]] = holder[p]))'
               /\ (asker[p] # frame[holder[p]])'
    <3>1. CASE Wanted(t) \in projects \cup loading
      BY <2>1, <2>4, <3>1 DEF TakePackageLock, StackOf
    <3>2. CASE Wanted(t) \notin projects \cup loading /\ p = Wanted(t)
      BY <1>0, <2>1, <2>4, <3>2, PackagesInOrder DEF TakePackageLock, TypeOK, Frame, Thread
    <3>3. CASE Wanted(t) \notin projects \cup loading /\ p # Wanted(t)
      BY <1>0, <2>1, <2>4, <3>3, PackagesInOrder DEF TakePackageLock, StackOf, TypeOK, Frame, Thread
    <3> QED
      BY <3>1, <3>2, <3>3
  <2>5. ASSUME holder'[p] # None
        PROVE  (Importing(asker[p]) /\ WantedBy(asker[p]) = p)'
    BY <1>0, <2>1, <2>5, TopIsFree, PackagesInOrder DEF TakePackageLock, StackOf, TypeOK, Goto, pkgs, Frame, Thread, Importing, Wanted, WantedBy
  <2>6. ASSUME holder'[p] # None
        PROVE  \A q \in Package : holder'[q] # None /\ asker'[q] = asker'[p] => q = p
    BY <1>0, <2>1, <2>6, TopIsFree, PackagesInOrder DEF TakePackageLock, StackOf, TypeOK, Goto, pkgs, Frame, Thread
  <2> QED
    BY <2>3, <2>4, <2>5, <2>6 DEF StackOf
<1>4. OnlyWholePackages'
  BY <1>0, PackagesInOrder DEF TakePackageLock, OnlyWholePackages, TypeOK, TopsOK, StacksOK, StackOf, Goto, pkgs, wave, Frame, Thread
<1>5. ContextLockIsExact'
  BY <1>0, PackagesInOrder DEF TakePackageLock, ContextLockIsExact, TypeOK, pkgs, lock, Frame, Thread
<1> QED
  BY <1>1, <1>2, <1>3, <1>4, <1>5

\* A load that asks for a package has its own on top (import_project).
LEMMA AskWhileLoadingKeeps ==
    ASSUME IInv, NEW t \in Thread, AskWhileLoading(t)
    PROVE  IInv'
<1> USE DEF IInv
<1>0. /\ frame[t] \in Package /\ at[frame[t]] = None /\ holder[frame[t]] = t
  BY PackagesInOrder DEF AskWhileLoading, TypeOK, TopsOK, Thread
<1>1. TypeOK'
  BY <1>0, PackagesInOrder DEF AskWhileLoading, TypeOK, Goto, pkgs, lock, wave, Frame, Thread
<1>2. TopsOK'
  BY <1>0, TopIsFree, PackagesInOrder DEF AskWhileLoading, TypeOK, TopsOK, Goto, pkgs, lock, wave, Frame, Thread, Importing, Wanted, WantedBy
<1>3. StacksOK'
  BY <1>0, TopIsFree, PackagesInOrder DEF AskWhileLoading, TypeOK, StacksOK, StackOf, Goto, pkgs, lock, wave, Frame, Thread, Importing, WantedBy
<1>4. OnlyWholePackages'
  BY <1>0, PackagesInOrder DEF AskWhileLoading, OnlyWholePackages, TypeOK, TopsOK, StacksOK, StackOf, Goto, pkgs, wave, Frame, Thread
<1>5. ContextLockIsExact'
  BY LockUntouched DEF AskWhileLoading, pkgs
<1> QED
  BY <1>1, <1>2, <1>3, <1>4, <1>5

\* A loaded package goes from the stack into ctx.projects, whole (import_project).
LEMMA PublishKeeps ==
    ASSUME IInv, NEW t \in Thread, Publish(t)
    PROVE  IInv'
<1> USE DEF IInv
<1>0. /\ frame[t] \in Package /\ at[frame[t]] = None /\ holder[frame[t]] = t /\ t # None
      /\ asker[frame[t]] \in Frame /\ asker[frame[t]] # frame[t]
      /\ asker[frame[t]] = t \/ (asker[frame[t]] \in Package /\ holder[asker[frame[t]]] = t)
      /\ Importing(asker[frame[t]]) /\ WantedBy(asker[frame[t]]) = frame[t]
  BY PackagesInOrder DEF Publish, TypeOK, TopsOK, StacksOK, StackOf, Thread, Frame
<1>1. TypeOK'
  <2>1. projects' \subseteq Package /\ loading' \subseteq Package
        /\ result' \in [Thread -> Package \cup {None, Raised}]
        /\ pc' \in [Thread -> {"idle", "ctx", "walk", "lock", "load", "fail", "ret", "all", "done"}]
    BY <1>0 DEF Publish, EndImport, TypeOK, Goto
  <2>2. /\ holder' \in [Package -> Thread \cup {None}] /\ frame' \in [Thread -> Frame]
        /\ asker' \in [Package -> Frame \cup {None}] /\ todo' \in [Package -> SUBSET Package]
    BY <1>0 DEF Publish, EndImport, TypeOK
  <2> QED
    BY <2>1, <2>2 DEF Publish, EndImport, TypeOK, lock, wave
<1>2. TopsOK'
  <2>1. /\ frame \in [Thread -> Frame] /\ result \in [Thread -> Package \cup {None, Raised}]
        /\ pc \in [Thread -> {"idle", "ctx", "walk", "lock", "load", "fail", "ret", "all", "done"}]
        /\ holder \in [Package -> Thread \cup {None}]
    BY DEF TypeOK
  <2>2. UNCHANGED <<goal, at>> /\ \A p \in Package : p # frame[t] => holder'[p] = holder[p]
    BY <2>1 DEF Publish, EndImport, lock
  <2>3. ASSUME NEW u \in Thread, u # t
        PROVE  UNCHANGED <<pc[u], frame[u], result[u]>> /\ frame[u] # frame[t]
    BY <2>1, <2>3, TopIsFree DEF Publish, EndImport, Goto
  <2>4. pc'[t] = "ret" /\ result'[t] = frame[t] /\ frame'[t] = asker[frame[t]]
    BY <2>1 DEF Publish, EndImport, Goto
  <2> QED
    BY <1>0, <2>2, <2>3, <2>4 DEF TopsOK, Importing, Wanted, WantedBy
<1>3. StacksOK'
  <2> SUFFICES ASSUME NEW p \in Package
               PROVE  StackOf(p)'
    BY DEF StacksOK
  <2>1. StackOf(p) /\ \A q \in Package : StackOf(q)
    BY DEF StacksOK
  <2>2. TypeOK'
    BY <1>1
  <2>3. (holder[p] = None => at[p] = None)'
    BY <1>0, <2>1, PackagesInOrder DEF Publish, StackOf, TypeOK, Goto, pkgs, Frame, Thread, EndImport
  <2>4. ASSUME holder'[p] # None
        PROVE  /\ (asker[p] = holder[p]
                  \/ (asker[p] \in Package /\ asker[p] # p /\ holder[asker[p]] = holder[p]))'
               /\ (asker[p] # frame[holder[p]])'
    BY <1>0, <2>1, <2>4, TopIsFree, PackagesInOrder DEF Publish, StackOf, TypeOK, Goto, pkgs, Frame, Thread, EndImport
  <2>5. ASSUME holder'[p] # None
        PROVE  (Importing(asker[p]) /\ WantedBy(asker[p]) = p)'
    BY <1>0, <2>1, <2>5, TopIsFree, PackagesInOrder DEF Publish, StackOf, TypeOK, Goto, pkgs, Frame, Thread, Importing, Wanted, WantedBy, EndImport
  <2>6. ASSUME holder'[p] # None
        PROVE  \A q \in Package : holder'[q] # None /\ asker'[q] = asker'[p] => q = p
    BY <1>0, <2>1, <2>6, TopIsFree, PackagesInOrder DEF Publish, StackOf, TypeOK, Goto, pkgs, Frame, Thread, EndImport
  <2> QED
    BY <2>3, <2>4, <2>5, <2>6 DEF StackOf
<1>4. OnlyWholePackages'
  BY <1>0, PackagesInOrder DEF Publish, OnlyWholePackages, TypeOK, TopsOK, StacksOK, StackOf, Goto, pkgs, wave, Frame, Thread, EndImport
<1>5. ContextLockIsExact'
  <2>1. at' = at /\ ctxOwner' = ctxOwner /\ ctxDepth' = ctxDepth
    BY DEF Publish, EndImport, lock
  <2>2. \A p \in Package : at[p] # None => holder'[p] = holder[p]
    BY <1>0 DEF Publish, EndImport, TypeOK
  <2> QED
    BY <2>1, <2>2 DEF ContextLockIsExact
<1> QED
  BY <1>1, <1>2, <1>3, <1>4, <1>5

\* A load that raises takes its package off the stack and puts it nowhere (import_project).
LEMMA FailToLoadKeeps ==
    ASSUME IInv, NEW t \in Thread, FailToLoad(t)
    PROVE  IInv'
<1> USE DEF IInv
<1>0. /\ frame[t] \in Package /\ at[frame[t]] = None /\ holder[frame[t]] = t /\ t # None
      /\ asker[frame[t]] \in Frame /\ asker[frame[t]] # frame[t]
      /\ asker[frame[t]] = t \/ (asker[frame[t]] \in Package /\ holder[asker[frame[t]]] = t)
      /\ Importing(asker[frame[t]]) /\ WantedBy(asker[frame[t]]) = frame[t]
  BY PackagesInOrder DEF FailToLoad, TypeOK, TopsOK, StacksOK, StackOf, Thread, Frame
<1>1. TypeOK'
  BY <1>0, PackagesInOrder DEF FailToLoad, TypeOK, Goto, pkgs, lock, wave, Frame, Thread, EndImport
<1>2. TopsOK'
  BY <1>0, TopIsFree, PackagesInOrder, SMTT(30) DEF FailToLoad, TypeOK, TopsOK, Goto, pkgs, lock, wave, Frame, Thread, Importing, Wanted, WantedBy, EndImport
<1>3. StacksOK'
  <2> SUFFICES ASSUME NEW p \in Package
               PROVE  StackOf(p)'
    BY DEF StacksOK
  <2>1. StackOf(p) /\ \A q \in Package : StackOf(q)
    BY DEF StacksOK
  <2>2. TypeOK'
    BY <1>1
  <2>3. (holder[p] = None => at[p] = None)'
    BY <1>0, <2>1, PackagesInOrder DEF FailToLoad, StackOf, TypeOK, Goto, pkgs, Frame, Thread, EndImport
  <2>4. ASSUME holder'[p] # None
        PROVE  /\ (asker[p] = holder[p]
                  \/ (asker[p] \in Package /\ asker[p] # p /\ holder[asker[p]] = holder[p]))'
               /\ (asker[p] # frame[holder[p]])'
    BY <1>0, <2>1, <2>4, TopIsFree, PackagesInOrder DEF FailToLoad, StackOf, TypeOK, Goto, pkgs, Frame, Thread, EndImport
  <2>5. ASSUME holder'[p] # None
        PROVE  (Importing(asker[p]) /\ WantedBy(asker[p]) = p)'
    BY <1>0, <2>1, <2>5, TopIsFree, PackagesInOrder DEF FailToLoad, StackOf, TypeOK, Goto, pkgs, Frame, Thread, Importing, Wanted, WantedBy, EndImport
  <2>6. ASSUME holder'[p] # None
        PROVE  \A q \in Package : holder'[q] # None /\ asker'[q] = asker'[p] => q = p
    BY <1>0, <2>1, <2>6, TopIsFree, PackagesInOrder DEF FailToLoad, StackOf, TypeOK, Goto, pkgs, Frame, Thread, EndImport
  <2> QED
    BY <2>3, <2>4, <2>5, <2>6 DEF StackOf
<1>4. OnlyWholePackages'
  BY <1>0, PackagesInOrder DEF FailToLoad, OnlyWholePackages, TypeOK, TopsOK, StacksOK, StackOf, Goto, pkgs, wave, Frame, Thread, EndImport
<1>5. ContextLockIsExact'
  <2>1. at' = at /\ ctxOwner' = ctxOwner /\ ctxDepth' = ctxDepth
    BY DEF FailToLoad, EndImport, lock
  <2>2. \A p \in Package : at[p] # None => holder'[p] = holder[p]
    BY <1>0 DEF FailToLoad, EndImport, TypeOK
  <2> QED
    BY <2>1, <2>2 DEF ContextLockIsExact
<1> QED
  BY <1>1, <1>2, <1>3, <1>4, <1>5

\* A load that has its answer is where it was before it asked.
LEMMA BackInLoadKeeps ==
    ASSUME IInv, NEW t \in Thread, BackInLoad(t)
    PROVE  IInv'
<1> USE DEF IInv
<1>0. /\ frame[t] \in Package /\ at[frame[t]] = None /\ holder[frame[t]] = t
      /\ goal[frame[t]] \in Package
  BY PackagesInOrder DEF BackInLoad, TypeOK, TopsOK, Thread, Importing
<1>1. TypeOK'
  BY <1>0, PackagesInOrder DEF BackInLoad, TypeOK, Goto, pkgs, lock, wave, Frame, Thread
<1>2. TopsOK'
  BY <1>0, TopIsFree, PackagesInOrder DEF BackInLoad, TypeOK, TopsOK, Goto, pkgs, lock, wave, Frame, Thread, Importing, Wanted, WantedBy
<1>3. StacksOK'
  BY <1>0, TopIsFree, PackagesInOrder DEF BackInLoad, TypeOK, StacksOK, StackOf, Goto, pkgs, lock, wave, Frame, Thread, Importing, WantedBy
<1>4. OnlyWholePackages'
  BY <1>0, PackagesInOrder DEF BackInLoad, OnlyWholePackages, TypeOK, TopsOK, StacksOK, StackOf, Goto, pkgs, wave, Frame, Thread
<1>5. ContextLockIsExact'
  BY LockUntouched DEF BackInLoad, pkgs
<1> QED
  BY <1>1, <1>2, <1>3, <1>4, <1>5

\* A client that has its answer has an empty stack.
LEMMA BackInClientKeeps ==
    ASSUME IInv, NEW c \in Client, BackInClient(c)
    PROVE  IInv'
<1> USE DEF IInv
<1>0. c \in Thread /\ frame[c] = c /\ at[c] = None
  BY DEF BackInClient, Thread
<1>1. TypeOK'
  BY <1>0, PackagesInOrder DEF BackInClient, TypeOK, Goto, pkgs, lock, wave, Frame, Thread
<1>2. TopsOK'
  BY <1>0, TopIsFree, PackagesInOrder DEF BackInClient, TypeOK, TopsOK, Goto, pkgs, lock, wave, Frame, Thread, Importing, Wanted, WantedBy
<1>3. StacksOK'
  BY <1>0, TopIsFree, PackagesInOrder DEF BackInClient, TypeOK, StacksOK, StackOf, Goto, pkgs, lock, wave, Frame, Thread, Importing, WantedBy
<1>4. OnlyWholePackages'
  BY <1>0, PackagesInOrder DEF BackInClient, OnlyWholePackages, TypeOK, TopsOK, StacksOK, StackOf, Goto, pkgs, wave, Frame, Thread
<1>5. ContextLockIsExact'
  BY LockUntouched DEF BackInClient, pkgs
<1> QED
  BY <1>1, <1>2, <1>3, <1>4, <1>5

\* A thread of the pool that has its answer has an empty stack.
LEMMA BackInWorkerKeeps ==
    ASSUME IInv, NEW w \in Worker, BackInWorker(w)
    PROVE  IInv'
<1> USE DEF IInv
<1>0. w \in Thread /\ frame[w] = w /\ at[w] = None
  BY DEF BackInWorker, Thread
<1>1. TypeOK'
  BY <1>0, PackagesInOrder DEF BackInWorker, TypeOK, Goto, pkgs, lock, wave, Frame, Thread
<1>2. TopsOK'
  BY <1>0, TopIsFree, PackagesInOrder DEF BackInWorker, TypeOK, TopsOK, Goto, pkgs, lock, wave, Frame, Thread, Importing, Wanted, WantedBy
<1>3. StacksOK'
  BY <1>0, TopIsFree, PackagesInOrder DEF BackInWorker, TypeOK, StacksOK, StackOf, Goto, pkgs, lock, wave, Frame, Thread, Importing, WantedBy
<1>4. OnlyWholePackages'
  BY <1>0, PackagesInOrder DEF BackInWorker, OnlyWholePackages, TypeOK, TopsOK, StacksOK, StackOf, Goto, pkgs, wave, Frame, Thread
<1>5. ContextLockIsExact'
  BY LockUntouched DEF BackInWorker, pkgs
<1> QED
  BY <1>1, <1>2, <1>3, <1>4, <1>5

\* import_all begins with an empty stack.
LEMMA StartImportAllKeeps ==
    ASSUME IInv, NEW c \in Client, StartImportAll(c)
    PROVE  IInv'
<1> USE DEF IInv
<1>0. /\ c \in Thread /\ frame[c] = c /\ at[c] = None
      /\ ChildrenOf({Root}) \subseteq Package
  BY DEF StartImportAll, TopsOK, Thread, ChildrenOf
<1>1. TypeOK'
  BY <1>0, PackagesInOrder DEF StartImportAll, TypeOK, Goto, pkgs, lock, wave, Frame, Thread
<1>2. TopsOK'
  BY <1>0, TopIsFree, PackagesInOrder DEF StartImportAll, TypeOK, TopsOK, Goto, pkgs, lock, wave, Frame, Thread, Importing, Wanted, WantedBy
<1>3. StacksOK'
  BY <1>0, TopIsFree, PackagesInOrder DEF StartImportAll, TypeOK, StacksOK, StackOf, Goto, pkgs, lock, wave, Frame, Thread, Importing, WantedBy
<1>4. OnlyWholePackages'
  BY <1>0, PackagesInOrder DEF StartImportAll, OnlyWholePackages, TypeOK, TopsOK, StacksOK, StackOf, Goto, pkgs, wave, Frame, Thread
<1>5. ContextLockIsExact'
  BY LockUntouched DEF StartImportAll, pkgs
<1> QED
  BY <1>1, <1>2, <1>3, <1>4, <1>5

\* A thread of the pool imports without a lookup of its own (import_all).
LEMMA TakeTaskKeeps ==
    ASSUME IInv, NEW w \in Worker, TakeTask(w)
    PROVE  IInv'
<1> USE DEF IInv
<1>0. /\ w \in Thread /\ frame[w] = w /\ at[w] = None /\ tasks \subseteq Package
  BY DEF TakeTask, TopsOK, TypeOK, Thread
<1>1. TypeOK'
  BY <1>0, PackagesInOrder DEF TakeTask, TypeOK, Goto, pkgs, lock, wave, Frame, Thread
<1>2. TopsOK'
  BY <1>0, TopIsFree, PackagesInOrder DEF TakeTask, TypeOK, TopsOK, Goto, pkgs, lock, wave, Frame, Thread, Importing, Wanted, WantedBy
<1>3. StacksOK'
  BY <1>0, TopIsFree, PackagesInOrder DEF TakeTask, TypeOK, StacksOK, StackOf, Goto, pkgs, lock, wave, Frame, Thread, Importing, WantedBy
<1>4. OnlyWholePackages'
  BY <1>0, PackagesInOrder DEF TakeTask, OnlyWholePackages, TypeOK, TopsOK, StacksOK, StackOf, Goto, pkgs, wave, Frame, Thread
<1>5. ContextLockIsExact'
  BY LockUntouched DEF TakeTask, pkgs
<1> QED
  BY <1>1, <1>2, <1>3, <1>4, <1>5

\* A wave of import_all, or its end, touches no stack.
LEMMA NextWaveKeeps ==
    ASSUME IInv, NEW c \in Client, NextWave(c)
    PROVE  IInv'
<1> USE DEF IInv
<1>0. /\ c \in Thread /\ frame[c] = c /\ at[c] = None
      /\ ChildrenOf(got) \subseteq Package
  BY DEF NextWave, TopsOK, Thread, ChildrenOf
<1>1. TypeOK'
  BY <1>0, PackagesInOrder DEF NextWave, TypeOK, Goto, pkgs, lock, wave, Frame, Thread
<1>2. TopsOK'
  BY <1>0, TopIsFree, PackagesInOrder DEF NextWave, TypeOK, TopsOK, Goto, pkgs, lock, wave, Frame, Thread, Importing, Wanted, WantedBy
<1>3. StacksOK'
  BY <1>0, TopIsFree, PackagesInOrder DEF NextWave, TypeOK, StacksOK, StackOf, Goto, pkgs, lock, wave, Frame, Thread, Importing, WantedBy
<1>4. OnlyWholePackages'
  BY <1>0, PackagesInOrder DEF NextWave, OnlyWholePackages, TypeOK, TopsOK, StacksOK, StackOf, Goto, pkgs, wave, Frame, Thread
<1>5. ContextLockIsExact'
  BY LockUntouched DEF NextWave, pkgs
<1> QED
  BY <1>1, <1>2, <1>3, <1>4, <1>5

-----------------------------------------------------------------------------
\* The invariant is inductive: every step of a client, of a thread of the pool and of Main
\* keeps it (context.py).
THEOREM NextIInv == IInv /\ [Next]_vars => IInv'
<1> SUFFICES ASSUME IInv, [Next]_vars PROVE IInv'
  OBVIOUS
<1>1. ASSUME NEW t \in Thread, Step(t) PROVE IInv'
  BY <1>1, TakeContextLockKeeps, WalkKeeps, WalkOnKeeps, EndGetKeeps, TakePackageLockKeeps,
     AskWhileLoadingKeeps, PublishKeeps, FailToLoadKeeps, BackInLoadKeeps DEF Step
<1>2. ASSUME NEW c \in Client, ClientStep(c) PROVE IInv'
  BY <1>2, StartGetKeeps, BackInClientKeeps, StartImportAllKeeps, NextWaveKeeps DEF ClientStep
<1>3. ASSUME NEW w \in Worker, WorkerStep(w) PROVE IInv'
  BY <1>3, TakeTaskKeeps, BackInWorkerKeeps DEF WorkerStep
<1>4. CASE UNCHANGED vars
  <2>1. UNCHANGED <<setting, ready, projects, loading, holder, ctxOwner, ctxDepth, frame,
                    asker, goal, at, pc, result, todo, broken, answer, tasks, got, lost>>
    BY <1>4 DEF vars, pkgs, lock, wave
  <2>2. TypeOK' /\ OnlyWholePackages' /\ ContextLockIsExact'
    BY <2>1 DEF IInv, TypeOK, OnlyWholePackages, ContextLockIsExact
  <2>3. TopsOK' /\ StacksOK'
    BY <2>1 DEF IInv, TopsOK, StacksOK, StackOf, Importing, Wanted, WantedBy
  <2> QED
    BY <2>2, <2>3 DEF IInv
<1> QED
  BY <1>1, <1>2, <1>3, <1>4 DEF Next

\* The invariant holds of every reachable state.
LEMMA Invariant == Spec => []IInv
  BY InitIInv, NextIInv, PTL DEF Spec

\* Contexts, threads and calls stay what their comments say they are.
THEOREM TypeCorrect == Spec => []TypeOK
  BY Invariant, PTL DEF IInv

\* Whatever anybody walks through or is given, in this thread or another, is a package
\* whose load is over: the one of `projects` and not the one that is being filled.
THEOREM NobodyHasAHalf == Spec => []OnlyWholePackages
  BY Invariant, PTL DEF IInv

\* The context's lock counts the lookups nested in one another, and goes with the last.
THEOREM LockCountsLookups == Spec => []ContextLockIsExact
  BY Invariant, PTL DEF IInv

\* No package is loaded again once it has been published, and none is dropped.
THEOREM NoSecondLoad == Spec => LoadedOnce
<1> DEFINE Once == /\ projects \subseteq projects'
                   /\ \A p \in Package : p \in projects => holder'[p] = None
<1>1. IInv /\ [Next]_vars => [Once]_vars
  <2> SUFFICES ASSUME IInv, Next PROVE Once
    OBVIOUS
  <2>1. projects \subseteq projects'
    BY DEF Next, Step, ClientStep, WorkerStep, StartGet, TakeContextLock, Walk, WalkOn, EndGet,
           TakePackageLock, AskWhileLoading, Publish, FailToLoad, BackInLoad, BackInClient,
           BackInWorker, StartImportAll, TakeTask, NextWave, pkgs
  <2>2. OnlyWholePackages'
    BY NextIInv DEF IInv
  <2> QED
    BY <2>1, <2>2 DEF OnlyWholePackages
<1> QED
  BY <1>1, Invariant, PTL DEF Spec, LoadedOnce

-----------------------------------------------------------------------------
(* Why an answer that is not the package is right: from the load that      *)
(* fails up the stacks to whoever asked, and on to the constructor.        *)

\* A load of p fails, now and from now on.
CannotLoad(p) ==
    \/ p \in setting.failing
    \/ p \in setting.mating /\ \E r \in setting.refs[p] : <<p, r>> \in broken

\* What is marked as being loaded is locked, and a load asks for what its package names.
LoadsOK ==
    /\ \A p \in loading : holder[p] # None
    /\ \A p \in Package :
        todo[p] \subseteq setting.refs[p] /\ goal[p] \in setting.refs[p] \cup {None}

\* Main is after the root, alone, and then each client is after what its job is.
CallsOK ==
    /\ ~ready => /\ goal[Main] = Root /\ at[Main] = None /\ tasks = {}
                 /\ frame[Main] = Main => pc[Main] \in {"lock", "ret"}
                 /\ \A t \in Thread \ {Main} : pc[t] = "idle"
    /\ ready => \A c \in Client :
          /\ pc[c] \notin {"idle", "all", "done"} => goal[c] = setting.job[c]
          /\ pc[c] = "all" => setting.job[c] = All

\* An import returns its package or cannot load it, and so for a lookup.
RefusedRightly(t) ==
    /\ pc[t] = "fail" => CannotLoad(frame[t])
    /\ pc[t] = "ret" /\ result[t] \in Package => result[t] = Wanted(t)
    /\ pc[t] = "ret" /\ result[t] \notin Package =>
          /\ at[frame[t]] # None => CannotLoad(Wanted(t))
          /\ at[frame[t]] = None /\ frame[t] = t =>
                CannotBeHad(goal[t]) /\ (~ready => CannotLoad(goal[t]))

RefusalsOK ==
    /\ ready /\ Root \notin projects => CannotLoad(Root)
    /\ \A t \in Thread : RefusedRightly(t)

Settled == IInv /\ LoadsOK /\ CallsOK /\ RefusalsOK /\ AnswersAreRight

\* A package that cannot be loaded keeps whatever is under it from being had.
LEMMA NoLoadNoPackage ==
    ASSUME NEW p \in Package, NEW q \in Lineage(p), CannotLoad(q)
    PROVE  CannotBeHad(p)
  BY DEF CannotLoad, CannotBeHad

\* It stays so: declarations that could not be used stay on record.
LEMMA StaysSo ==
    ASSUME IInv, Next
    PROVE  /\ setting' = setting /\ broken \subseteq broken' /\ projects \subseteq projects'
           /\ ready => ready'
           /\ \A p \in Package : CannotLoad(p) => CannotLoad(p)'
           /\ \A p \in Package : CannotBeHad(p) => CannotBeHad(p)'
<1>1. setting' = setting /\ broken \subseteq broken' /\ projects \subseteq projects' /\ (ready => ready')
  BY DEF Next, Step, ClientStep, WorkerStep, StartGet, TakeContextLock, Walk, WalkOn, EndGet,
         TakePackageLock, AskWhileLoading, Publish, FailToLoad, BackInLoad, BackInClient,
         BackInWorker, StartImportAll, TakeTask, NextWave, EndImport, pkgs
<1>2. ASSUME NEW p, CannotLoad(p) PROVE CannotLoad(p)'
  BY <1>1, <1>2 DEF CannotLoad
<1>3. ASSUME NEW p, CannotBeHad(p) PROVE CannotBeHad(p)'
  BY <1>1, <1>3 DEF CannotBeHad
<1> QED
  BY <1>1, <1>2, <1>3

\* Only an import marks a package as being loaded, and a load takes what it asks for out of
\* what its package names.
LEMMA LoadsKept ==
    ASSUME IInv, LoadsOK, Next
    PROVE  LoadsOK'
<1> USE PackagesInOrder DEF IInv, TypeOK, LoadsOK, pkgs, Frame, Thread
<1>s. \A p \in Package : setting.refs[p] \subseteq Package
  BY SettingsInOrder DEF SettingOK
<1>1. ASSUME NEW c \in Client, StartGet(c) PROVE LoadsOK'
  BY <1>1, <1>s DEF StartGet, TopsOK
<1>2. ASSUME NEW t \in Thread, TakeContextLock(t) PROVE LoadsOK'
  BY <1>2, <1>s DEF TakeContextLock
<1>3. ASSUME NEW t \in Thread, Walk(t) PROVE LoadsOK'
  BY <1>3, <1>s DEF Walk
<1>4. ASSUME NEW t \in Thread, WalkOn(t) PROVE LoadsOK'
  BY <1>4, <1>s DEF WalkOn
<1>5. ASSUME NEW t \in Thread, EndGet(t) PROVE LoadsOK'
  BY <1>5, <1>s DEF EndGet
<1>6. ASSUME NEW t \in Thread, TakePackageLock(t) PROVE LoadsOK'
  <2> DEFINE p == Wanted(t)
  <2>1. p \in Package
    BY <1>6, WantedIsPackage DEF TakePackageLock, TopsOK, Wanted
  <2>2. CASE p \in projects \cup loading
    BY <1>6, <2>2 DEF TakePackageLock
  <2>3. CASE p \notin projects \cup loading
    <3>1. /\ holder' = [holder EXCEPT ![p] = t] /\ loading' = loading \cup {p} /\ goal' = goal
          /\ todo' = [todo EXCEPT ![p] = IF p \in setting.skipped THEN {} ELSE setting.refs[p]]
          /\ setting' = setting
      BY <1>6, <2>3 DEF TakePackageLock
    <3> QED
      BY <2>1, <3>1
  <2> QED
    BY <2>2, <2>3
<1>7. ASSUME NEW t \in Thread, AskWhileLoading(t) PROVE LoadsOK'
  BY <1>7, <1>s DEF AskWhileLoading, TopsOK
<1>8. ASSUME NEW t \in Thread, Publish(t) PROVE LoadsOK'
  BY <1>8, <1>s DEF Publish, EndImport, TopsOK
<1>9. ASSUME NEW t \in Thread, FailToLoad(t) PROVE LoadsOK'
  BY <1>9, <1>s DEF FailToLoad, EndImport, TopsOK
<1>10. ASSUME NEW t \in Thread, BackInLoad(t) PROVE LoadsOK'
  BY <1>10, <1>s DEF BackInLoad, TopsOK
<1>11. ASSUME NEW c \in Client, BackInClient(c) PROVE LoadsOK'
  BY <1>11, <1>s DEF BackInClient, TopsOK
<1>12. ASSUME NEW w \in Worker, BackInWorker(w) PROVE LoadsOK'
  BY <1>12, <1>s DEF BackInWorker, TopsOK
<1>13. ASSUME NEW c \in Client, StartImportAll(c) PROVE LoadsOK'
  BY <1>13, <1>s DEF StartImportAll
<1>14. ASSUME NEW w \in Worker, TakeTask(w) PROVE LoadsOK'
  BY <1>14, <1>s DEF TakeTask, TopsOK
<1>15. ASSUME NEW c \in Client, NextWave(c) PROVE LoadsOK'
  BY <1>15, <1>s DEF NextWave
<1> QED
  BY <1>1, <1>2, <1>3, <1>4, <1>5, <1>6, <1>7, <1>8, <1>9, <1>10, <1>11, <1>12, <1>13, <1>14, <1>15 DEF Next, Step, ClientStep, WorkerStep

\* Nobody begins before the constructor is through, and then a client has one job.
LEMMA CallsKept ==
    ASSUME IInv, CallsOK, Next
    PROVE  CallsOK'
<1> USE PackagesInOrder DEF IInv, TypeOK, CallsOK, Goto, Frame, Thread
<1>1. ASSUME NEW c \in Client, StartGet(c) PROVE CallsOK'
  BY <1>1 DEF StartGet, TopsOK, wave
<1>2. ASSUME NEW t \in Thread, TakeContextLock(t) PROVE CallsOK'
  BY <1>2 DEF TakeContextLock, TopsOK, wave
<1>3. ASSUME NEW t \in Thread, Walk(t) PROVE CallsOK'
  BY <1>3 DEF Walk, TopsOK, wave
<1>4. ASSUME NEW t \in Thread, WalkOn(t) PROVE CallsOK'
  BY <1>4 DEF WalkOn, TopsOK, wave
<1>5. ASSUME NEW t \in Thread, EndGet(t) PROVE CallsOK'
  BY <1>5 DEF EndGet, TopsOK, wave
<1>6. ASSUME NEW t \in Thread, TakePackageLock(t) PROVE CallsOK'
  <2>1. /\ Wanted(t) \in Package /\ pc[t] = "lock"
        /\ UNCHANGED <<setting, ready, goal, at, tasks>>
        /\ frame' = frame \/ frame' = [frame EXCEPT ![t] = Wanted(t)]
        /\ pc' = [pc EXCEPT ![t] = "ret"] \/ (frame'[t] = Wanted(t) /\ pc' = [pc EXCEPT ![t] = pc'[t]])
        /\ pc'[t] \in {"ret", "load", "fail"}
    BY <1>6, WantedIsPackage DEF TakePackageLock, TopsOK, Wanted, wave
  <2> QED
    BY <2>1
<1>7. ASSUME NEW t \in Thread, AskWhileLoading(t) PROVE CallsOK'
  BY <1>7 DEF AskWhileLoading, TopsOK, wave
<1>8. ASSUME NEW t \in Thread, Publish(t) PROVE CallsOK'
  BY <1>8 DEF Publish, EndImport, TopsOK, wave
<1>9. ASSUME NEW t \in Thread, FailToLoad(t) PROVE CallsOK'
  BY <1>9 DEF FailToLoad, EndImport, TopsOK, wave
<1>10. ASSUME NEW t \in Thread, BackInLoad(t) PROVE CallsOK'
  BY <1>10 DEF BackInLoad, TopsOK, wave
<1>11. ASSUME NEW c \in Client, BackInClient(c) PROVE CallsOK'
  BY <1>11 DEF BackInClient, TopsOK, wave
<1>12. ASSUME NEW w \in Worker, BackInWorker(w) PROVE CallsOK'
  BY <1>12 DEF BackInWorker, TopsOK, wave
<1>13. ASSUME NEW c \in Client, StartImportAll(c) PROVE CallsOK'
  BY <1>13 DEF StartImportAll, TopsOK, wave
<1>14. ASSUME NEW w \in Worker, TakeTask(w) PROVE CallsOK'
  BY <1>14 DEF TakeTask, TopsOK, wave
<1>15. ASSUME NEW c \in Client, NextWave(c) PROVE CallsOK'
  BY <1>15 DEF NextWave, TopsOK, wave, WaveIsOver
<1> QED
  BY <1>1, <1>2, <1>3, <1>4, <1>5, <1>6, <1>7, <1>8, <1>9, <1>10, <1>11, <1>12, <1>13, <1>14, <1>15 DEF Next, Step, ClientStep, WorkerStep

\* A step is one of one thread, and leaves the top of each other stack as it is.
Acts(t) ==
    \/ Step(t)
    \/ t \in Client /\ ClientStep(t)
    \/ t \in Worker /\ WorkerStep(t)

\* A thread acts on its own stack only.
LEMMA OthersUntouched ==
    ASSUME IInv, NEW t \in Thread, Acts(t), NEW u \in Thread, u # t
    PROVE  UNCHANGED <<pc[u], frame[u], result[u], at[frame[u]], goal[frame[u]]>>
<1> USE PackagesInOrder, TopIsFree DEF IInv, TypeOK, TopsOK, Goto, Frame, Thread
<1>1. ASSUME t \in Client, StartGet(t) PROVE UNCHANGED <<pc[u], frame[u], result[u], at[frame[u]], goal[frame[u]]>>
  BY <1>1 DEF StartGet
<1>2. ASSUME TakeContextLock(t) PROVE UNCHANGED <<pc[u], frame[u], result[u], at[frame[u]], goal[frame[u]]>>
  BY <1>2 DEF TakeContextLock
<1>3. ASSUME Walk(t) PROVE UNCHANGED <<pc[u], frame[u], result[u], at[frame[u]], goal[frame[u]]>>
  BY <1>3 DEF Walk
<1>4. ASSUME WalkOn(t) PROVE UNCHANGED <<pc[u], frame[u], result[u], at[frame[u]], goal[frame[u]]>>
  BY <1>4 DEF WalkOn
<1>5. ASSUME EndGet(t) PROVE UNCHANGED <<pc[u], frame[u], result[u], at[frame[u]], goal[frame[u]]>>
  BY <1>5 DEF EndGet
<1>6. ASSUME TakePackageLock(t) PROVE UNCHANGED <<pc[u], frame[u], result[u], at[frame[u]], goal[frame[u]]>>
  BY <1>6 DEF TakePackageLock
<1>7. ASSUME AskWhileLoading(t) PROVE UNCHANGED <<pc[u], frame[u], result[u], at[frame[u]], goal[frame[u]]>>
  BY <1>7 DEF AskWhileLoading
<1>8. ASSUME Publish(t) PROVE UNCHANGED <<pc[u], frame[u], result[u], at[frame[u]], goal[frame[u]]>>
  BY <1>8 DEF Publish, EndImport
<1>9. ASSUME FailToLoad(t) PROVE UNCHANGED <<pc[u], frame[u], result[u], at[frame[u]], goal[frame[u]]>>
  BY <1>9 DEF FailToLoad, EndImport
<1>10. ASSUME BackInLoad(t) PROVE UNCHANGED <<pc[u], frame[u], result[u], at[frame[u]], goal[frame[u]]>>
  BY <1>10 DEF BackInLoad
<1>11. ASSUME t \in Client, BackInClient(t) PROVE UNCHANGED <<pc[u], frame[u], result[u], at[frame[u]], goal[frame[u]]>>
  BY <1>11 DEF BackInClient
<1>12. ASSUME t \in Worker, BackInWorker(t) PROVE UNCHANGED <<pc[u], frame[u], result[u], at[frame[u]], goal[frame[u]]>>
  BY <1>12 DEF BackInWorker
<1>13. ASSUME t \in Client, StartImportAll(t) PROVE UNCHANGED <<pc[u], frame[u], result[u], at[frame[u]], goal[frame[u]]>>
  BY <1>13 DEF StartImportAll
<1>14. ASSUME t \in Worker, TakeTask(t) PROVE UNCHANGED <<pc[u], frame[u], result[u], at[frame[u]], goal[frame[u]]>>
  BY <1>14 DEF TakeTask
<1>15. ASSUME t \in Client, NextWave(t) PROVE UNCHANGED <<pc[u], frame[u], result[u], at[frame[u]], goal[frame[u]]>>
  BY <1>15 DEF NextWave
<1> QED
  BY <1>1, <1>2, <1>3, <1>4, <1>5, <1>6, <1>7, <1>8, <1>9, <1>10, <1>11, <1>12, <1>13, <1>14, <1>15 DEF Acts, Step, ClientStep, WorkerStep

\* Whoever acts hands on a refusal only for what it could not have (import_project,
\* get_project).
LEMMA ActorRefusedRightly ==
    ASSUME IInv, LoadsOK, CallsOK, RefusalsOK, NEW t \in Thread, Acts(t)
    PROVE  RefusedRightly(t)'
<1> DEFINE f == frame[t]
<1>0. /\ RefusedRightly(t)
      /\ f \in Frame /\ (f = t \/ (f \in Package /\ holder[f] = t))
      /\ t \notin Package /\ TypeOK
      /\ goal[f] \in Package =>
            {Root, goal[f]} \subseteq Lineage(goal[f]) /\ Lineage(goal[f]) \subseteq Package
  BY PackagesInOrder, TreeInOrder DEF RefusalsOK, IInv, TypeOK, TopsOK, Thread
<1>1. Next
  BY DEF Acts, Next, Step, ClientStep, WorkerStep
<1>2. /\ setting' = setting /\ broken \subseteq broken'
      /\ \A p \in Package : CannotLoad(p) => CannotLoad(p)'
      /\ \A p \in Package : CannotBeHad(p) => CannotBeHad(p)'
  BY <1>1, StaysSo
<1> USE DEF Goto
<1>3. CASE TakeContextLock(t)
  <2>1. CASE pc'[t] = "walk"
    BY <2>1 DEF RefusedRightly
  <2>2. CASE pc'[t] # "walk"
    <3>1. /\ Root \notin projects /\ result'[t] = None /\ pc'[t] = "ret"
          /\ UNCHANGED <<at, goal, frame, ready>> /\ at[f] = None /\ goal[f] \in Package /\ pc[t] = "ctx"
      BY <1>3, <1>0, <2>2 DEF TakeContextLock, TypeOK, IInv, TopsOK
    <3>2. ASSUME f = t PROVE CannotBeHad(goal[t])' /\ ready
      <4>1. ready
        BY <3>1, <3>2 DEF CallsOK
      <4>2. CannotLoad(Root)
        BY <3>1, <4>1 DEF RefusalsOK
      <4>3. CannotBeHad(goal[t])
        BY <1>0, <3>1, <3>2, <4>2, NoLoadNoPackage
      <4> QED
        BY <1>2, <3>1, <3>2, <4>1, <4>3 DEF CannotBeHad
    <3>3. None \notin Package
      BY PackagesInOrder
    <3> QED
      BY <3>1, <3>2, <3>3 DEF RefusedRightly
  <2> QED
    BY <2>1, <2>2
<1>4. CASE Walk(t) \/ WalkOn(t) \/ AskWhileLoading(t)
  <2>1. pc'[t] \in {"walk", "lock", "ctx"}
    BY <1>0, <1>4 DEF Walk, WalkOn, AskWhileLoading, TypeOK
  <2> QED
    BY <2>1 DEF RefusedRightly
<1>5. CASE EndGet(t)
  <2>1. /\ pc'[t] = "ret" /\ at' = [at EXCEPT ![f] = None] /\ UNCHANGED <<goal, frame, ready>>
        /\ at[f] # None /\ goal[f] \in Package
    BY <1>0, <1>5, PackagesInOrder DEF EndGet, TypeOK, IInv, TopsOK, Importing
  <2>2. at'[f] = None /\ (Wanted(t))' = goal[f]
    BY <1>0, <2>1 DEF TypeOK, Wanted, WantedBy
  <2>3. ready \/ f # t
    <3>1. pc[t] # "idle"
      BY <1>5 DEF EndGet
    <3> QED
      BY <2>1, <3>1 DEF CallsOK
  <2>4. CASE pc[t] = "walk" /\ result' = [result EXCEPT ![t] = IF at[f] = goal[f] THEN goal[f] ELSE None]
    <3>1. CASE at[f] = goal[f]
      BY <1>0, <2>1, <2>2, <2>4, <3>1 DEF RefusedRightly, TypeOK
    <3>2. CASE at[f] # goal[f]
      <4>1. at[f] \in setting.skipped /\ at[f] \in Lineage(goal[f]) \ {goal[f]}
        BY <1>5, <2>1, <2>4, <3>2 DEF EndGet, IInv, TopsOK
      <4>2. CannotBeHad(goal[f])
        BY <4>1 DEF CannotBeHad
      <4>3. CannotBeHad(goal[f])'
        BY <1>2, <2>1, <4>2 DEF CannotBeHad
      <4>4. result'[t] = None /\ None \notin Package
        BY <1>0, <2>4, <3>2, PackagesInOrder DEF TypeOK
      <4> QED
        BY <2>1, <2>2, <2>3, <4>3, <4>4 DEF RefusedRightly
    <3> QED
      BY <3>1, <3>2
  <2>5. CASE pc[t] = "ret" /\ result[t] \notin Package /\ UNCHANGED result
    <3>1. CannotLoad(Wanted(t)) /\ Wanted(t) \in Lineage(goal[f])
      BY <1>0, <2>1, <2>5, WantedIsPackage DEF RefusedRightly, IInv, TopsOK, Wanted
    <3>2. CannotBeHad(goal[f])
      BY <2>1, <3>1, NoLoadNoPackage
    <3>3. CannotBeHad(goal[f])'
      BY <1>2, <2>1, <3>2 DEF CannotBeHad
    <3> QED
      BY <2>1, <2>2, <2>3, <2>5, <3>3 DEF RefusedRightly
  <2> QED
    BY <1>5, <2>4, <2>5 DEF EndGet
<1>6. CASE TakePackageLock(t)
  <2>0. Wanted(t) \in Package
    BY <1>6, WantedIsPackage DEF TakePackageLock, Wanted, IInv, TopsOK
  <2> PICK p \in Package : p = Wanted(t)
    BY <2>0
  <2>1. holder[p] = None /\ pc[t] = "lock"
    BY <1>6 DEF TakePackageLock
  <2>2. CASE p \in projects \cup loading
    <3>1. p \in projects
      BY <2>1, <2>2 DEF LoadsOK
    <3>2. result'[t] = p /\ UNCHANGED <<at, goal, frame>>
      BY <1>0, <1>6, <2>2, <3>1 DEF TakePackageLock, TypeOK
    <3>3. (Wanted(t))' = p
      BY <3>2 DEF Wanted, WantedBy
    <3>4. pc'[t] = "ret"
      BY <1>0, <1>6, <2>2 DEF TakePackageLock, TypeOK
    <3> QED
      BY <2>1, <3>2, <3>3, <3>4 DEF RefusedRightly
  <2>3. CASE p \notin projects \cup loading
    <3>1. frame'[t] = p /\ pc'[t] = (IF p \in setting.failing THEN "fail" ELSE "load")
      BY <1>0, <1>6, <2>3 DEF TakePackageLock, TypeOK
    <3>2. p \in setting.failing => CannotLoad(p)'
      BY <1>2 DEF CannotLoad
    <3> QED
      BY <3>1, <3>2 DEF RefusedRightly, CannotLoad
  <2> QED
    BY <2>2, <2>3
<1>7. CASE Publish(t)
  <2>1. /\ f \in Package /\ WantedBy(asker[f]) = f
        /\ result'[t] = f /\ pc'[t] = "ret" /\ frame'[t] = asker[f] /\ UNCHANGED <<at, goal>>
    BY <1>0, <1>7, PackagesInOrder DEF Publish, EndImport, IInv, TypeOK, TopsOK, StacksOK, StackOf, Thread
  <2>2. (Wanted(t))' = f
    BY <2>1 DEF Wanted, WantedBy
  <2> QED
    BY <2>1, <2>2 DEF RefusedRightly
<1>8. CASE FailToLoad(t)
  <2>0. f \in Package
    BY <1>8 DEF FailToLoad, IInv, TopsOK
  <2> PICK p \in Package : p = f
    BY <2>0
  <2>1. /\ WantedBy(asker[p]) = p /\ CannotLoad(p)
        /\ result'[t] = Raised /\ pc'[t] = "ret" /\ frame'[t] = asker[p]
        /\ UNCHANGED <<at, goal, ready>>
    BY <1>0, <1>8, PackagesInOrder DEF FailToLoad, EndImport, IInv, TypeOK, TopsOK, StacksOK, StackOf,
       Thread, RefusedRightly
  <2>2. (Wanted(t))' = p /\ Raised \notin Package
    BY <2>1, PackagesInOrder DEF Wanted, WantedBy
  <2>3. CannotLoad(p)' /\ CannotBeHad(p)'
    BY <1>2, <2>1, TreeInOrder, NoLoadNoPackage
  <2>4. CannotLoad(Wanted(t))'
    BY <2>2, <2>3 DEF CannotLoad
  <2>5. ASSUME at'[frame'[t]] = None, frame'[t] = t PROVE CannotBeHad(goal[t])' /\ CannotLoad(goal[t])'
    <3>1. goal'[t] = p
      BY <2>1, <2>5 DEF WantedBy
    <3> QED
      BY <2>3, <3>1 DEF CannotBeHad, CannotLoad
  <2> QED
    BY <2>1, <2>2, <2>4, <2>5 DEF RefusedRightly
<1>9. CASE BackInLoad(t)
  <2>1. f \in Package /\ goal[f] \in Package /\ goal[f] \in setting.refs[f] /\ frame' = frame
    BY <1>0, <1>9, PackagesInOrder DEF BackInLoad, IInv, TopsOK, Importing, LoadsOK
  <2>2. CASE result[t] \notin Package /\ f \in setting.mating
    <3>1. <<f, goal[f]>> \in broken'
      BY <1>9, <2>2 DEF BackInLoad
    <3>2. CannotLoad(f)'
      BY <1>2, <2>1, <2>2, <3>1 DEF CannotLoad
    <3>3. pc'[t] = "fail"
      BY <1>0, <1>9, <2>2 DEF BackInLoad, TypeOK
    <3> QED
      BY <2>1, <3>2, <3>3 DEF RefusedRightly, CannotLoad
  <2>3. CASE ~(result[t] \notin Package /\ f \in setting.mating)
    <3>1. pc'[t] = "load"
      BY <1>0, <1>9, <2>3 DEF BackInLoad, TypeOK
    <3> QED
      BY <3>1 DEF RefusedRightly
  <2> QED
    BY <2>2, <2>3
<1>10. CASE t \in Client /\ ClientStep(t)
  <2>1. pc'[t] \in {"ctx", "done", "idle", "all"}
    BY <1>0, <1>10 DEF ClientStep, StartGet, BackInClient, StartImportAll, NextWave, TypeOK
  <2> QED
    BY <2>1 DEF RefusedRightly
<1>11. CASE t \in Worker /\ WorkerStep(t)
  <2>1. pc'[t] \in {"lock", "idle"}
    BY <1>0, <1>11 DEF WorkerStep, TakeTask, BackInWorker, TypeOK
  <2> QED
    BY <2>1 DEF RefusedRightly
<1> QED
  BY <1>3, <1>4, <1>5, <1>6, <1>7, <1>8, <1>9, <1>10, <1>11 DEF Acts, Step

\* A refusal that was right stays right.
LEMMA RefusalsKept ==
    ASSUME IInv, LoadsOK, CallsOK, RefusalsOK, Next
    PROVE  RefusalsOK'
<1>1. PICK t \in Thread : Acts(t)
  BY DEF Next, Acts, Thread
<1>2. /\ setting' = setting /\ broken \subseteq broken' /\ (ready => ready')
      /\ \A p \in Package : CannotLoad(p) => CannotLoad(p)'
      /\ \A p \in Package : CannotBeHad(p) => CannotBeHad(p)'
  BY StaysSo
<1>3. ASSUME NEW u \in Thread PROVE RefusedRightly(u)'
  <2>1. CASE u = t
    BY <1>1, <2>1, ActorRefusedRightly
  <2>2. CASE u # t
    <3>1. RefusedRightly(u) /\ (pc[u] = "fail" => frame[u] \in Package)
      BY PackagesInOrder DEF RefusalsOK, IInv, TopsOK
    <3>2. UNCHANGED <<pc[u], frame[u], result[u], at[frame[u]], goal[frame[u]]>>
      BY <1>1, <2>2, OthersUntouched
    <3>3. (Wanted(u))' = Wanted(u)
      BY <3>2 DEF Wanted, WantedBy
    <3>4. CASE pc[u] = "fail"
      BY <1>2, <3>1, <3>2, <3>4 DEF RefusedRightly, CannotLoad
    <3>5. CASE pc[u] = "ret"
      BY <1>2, <3>1, <3>2, <3>3, <3>5 DEF RefusedRightly, CannotLoad, CannotBeHad
    <3> QED
      BY <3>2, <3>4, <3>5 DEF RefusedRightly
  <2> QED
    BY <2>1, <2>2
<1>4. ASSUME ready', Root \notin projects' PROVE CannotLoad(Root)'
  <2>1. Root \notin projects /\ Root \in Package
    BY <1>4, StaysSo, PackagesInOrder
  <2>2. CASE ready
    BY <1>2, <2>1, <2>2 DEF RefusalsOK
  <2>3. CASE ~ready
    <3>1. PICK c \in Client : BackInClient(c)
      BY <1>4, <2>3 DEF Next, Step, ClientStep, WorkerStep, StartGet, TakeContextLock, Walk, WalkOn,
         EndGet, TakePackageLock, AskWhileLoading, Publish, FailToLoad, BackInLoad, BackInWorker,
         StartImportAll, TakeTask, NextWave, EndImport
    <3>2. /\ c = Main /\ goal[c] = Root /\ pc[c] = "ret" /\ at[c] = None /\ frame[c] = c
          /\ RefusedRightly(c)
      BY <2>3, <3>1 DEF BackInClient, CallsOK, RefusalsOK, Thread
    <3>3. result[c] \in Package => result[c] = Root /\ result[c] \in projects
      BY <3>2, PackagesInOrder DEF RefusedRightly, Wanted, WantedBy, IInv, OnlyWholePackages, Thread
    <3>4. CannotLoad(Root)
      BY <2>1, <2>3, <3>2, <3>3 DEF RefusedRightly
    <3> QED
      BY <1>2, <2>1, <3>4
  <2> QED
    BY <2>2, <2>3
<1> QED
  BY <1>3, <1>4 DEF RefusalsOK, CannotLoad

\* An answer that was right stays right, and one that is given is.
LEMMA AnswersKept ==
    ASSUME IInv, LoadsOK, CallsOK, RefusalsOK, AnswersAreRight, Next
    PROVE  AnswersAreRight'
<1>1. PICK t \in Thread : Acts(t)
  BY DEF Next, Acts, Thread
<1>2. /\ setting' = setting /\ broken \subseteq broken' /\ projects \subseteq projects'
      /\ \A p \in Package : CannotBeHad(p) => CannotBeHad(p)'
  BY StaysSo
<1>3. SUFFICES ASSUME NEW c \in Client, pc'[c] = "done", setting.job[c] \in Package
               PROVE  \/ answer'[c] = setting.job[c] /\ setting.job[c] \in projects'
                      \/ answer'[c] # setting.job[c] /\ CannotBeHad(setting.job[c])'
  BY <1>2 DEF AnswersAreRight, CannotBeHad
<1>4. CASE pc[c] = "done"
  <2>1. answer'[c] = answer[c]
    BY <1>4 DEF Next, Step, ClientStep, WorkerStep, StartGet, TakeContextLock, Walk, WalkOn,
         EndGet, TakePackageLock, AskWhileLoading, Publish, FailToLoad, BackInLoad, BackInWorker,
         StartImportAll, TakeTask, NextWave, EndImport, BackInClient, wave, IInv, TypeOK
  <2> QED
    BY <1>2, <1>3, <1>4, <2>1 DEF AnswersAreRight
<1>5. CASE pc[c] # "done" /\ BackInClient(c)
  <2>1. /\ ready /\ answer'[c] = result[c] /\ pc[c] = "ret" /\ frame[c] = c /\ at[c] = None
        /\ goal[c] = setting.job[c] /\ RefusedRightly(c)
    BY <1>3, <1>5 DEF BackInClient, Goto, IInv, TypeOK, CallsOK, RefusalsOK, Thread
  <2>2. CASE result[c] \in Package
    <3>1. result[c] = setting.job[c] /\ result[c] \in projects
      BY <2>1, <2>2, PackagesInOrder DEF RefusedRightly, Wanted, WantedBy, IInv, OnlyWholePackages, Thread
    <3> QED
      BY <1>2, <2>1, <3>1
  <2>3. CASE result[c] \notin Package
    <3>1. CannotBeHad(setting.job[c])
      BY <2>1, <2>3 DEF RefusedRightly
    <3> QED
      BY <1>2, <1>3, <2>1, <2>3, <3>1
  <2> QED
    BY <2>2, <2>3
<1>6. CASE pc[c] # "done" /\ ~BackInClient(c)
  <2>1. t = c
    BY <1>1, <1>3, <1>6, OthersUntouched DEF Thread
  <2>2. NextWave(c)
    BY <1>1, <1>3, <1>6, <2>1, PackagesInOrder DEF Acts, Step, ClientStep, WorkerStep, StartGet,
         TakeContextLock, Walk, WalkOn, EndGet, TakePackageLock, AskWhileLoading, Publish, FailToLoad,
         BackInLoad, StartImportAll, EndImport, Goto, IInv, TypeOK, Thread
  <2>3. setting.job[c] = All
    BY <2>2 DEF NextWave, CallsOK, IInv, TopsOK, Thread
  <2> QED
    BY <1>3, <2>3, PackagesInOrder
<1> QED
  BY <1>4, <1>5, <1>6

\* All of it holds of every reachable state.
LEMMA SettledInvariant == Spec => []Settled
<1>1. Init => Settled
  <2> SUFFICES ASSUME Init PROVE Settled
    OBVIOUS
  <2>1. IInv
    BY InitIInv
  <2>2. LoadsOK /\ CallsOK
    BY PackagesInOrder DEF Init, LoadsOK, CallsOK, Frame, Thread
  <2>3. RefusalsOK /\ AnswersAreRight
    BY PackagesInOrder DEF Init, RefusalsOK, RefusedRightly, AnswersAreRight, Thread
  <2> QED
    BY <2>1, <2>2, <2>3 DEF Settled
<1>2. Settled /\ [Next]_vars => Settled'
  <2> SUFFICES ASSUME Settled, [Next]_vars PROVE Settled'
    OBVIOUS
  <2>1. CASE Next
    BY <2>1, NextIInv, LoadsKept, CallsKept, RefusalsKept, AnswersKept DEF Settled
  <2>2. CASE UNCHANGED vars
    <3>1. IInv'
      BY <2>2, NextIInv DEF Settled
    <3>2. UNCHANGED <<setting, ready, projects, loading, holder, ctxOwner, ctxDepth, frame,
                      asker, goal, at, pc, result, todo, broken, answer, tasks, got, lost>>
      BY <2>2 DEF vars, pkgs, lock, wave
    <3>3. LoadsOK' /\ CallsOK'
      BY <3>2 DEF Settled, LoadsOK, CallsOK
    <3>4. RefusalsOK'
      BY <3>2 DEF Settled, RefusalsOK, RefusedRightly, CannotLoad, CannotBeHad, Wanted, WantedBy
    <3>5. AnswersAreRight'
      BY <3>2 DEF Settled, AnswersAreRight, CannotBeHad
    <3> QED
      BY <3>1, <3>3, <3>4, <3>5 DEF Settled
  <2> QED
    BY <2>1, <2>2
<1> QED
  BY <1>1, <1>2, PTL DEF Spec

\* get_project returns the package it was asked for, or nothing where there is a reason
\* for that on the way to it: whatever the other threads are loading at the time.
THEOREM EveryAnswerIsRight == Spec => []AnswersAreRight
  BY SettledInvariant, PTL DEF Settled
=============================================================================
