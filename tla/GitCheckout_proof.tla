-------------------------- MODULE GitCheckout_proof -------------------------
(***************************************************************************)
(* Proofs about GitCheckout, for any importers, processes, repositories    *)
(* and retries, and any number of interruptions.  They are about contexts  *)
(* in which no health check removes lock files (NoCleaners): whoever is at *)
(* a copy has the lock on its lock file then, so that what a step finds    *)
(* out about the copy is still so at the importer's next step.             *)
(***************************************************************************)
EXTENDS GitCheckout, TLAPS

NoCleaners == \A s \in Setting : s.cleaners = {}

NobodyCleans == \A c \in Cleaner : cleaning[c] = None

\* What the importers that are at a copy have made of it.
CopyFits ==
    \A t \in Importer :
        LET r == RepoOf[t] IN
        /\ pc[t] \in {"ignore", "clone"} => tree[r] = "none"
        /\ pc[t] = "cloning" => tree[r] = "part"
        /\ pc[t] \in {"fetch", "reset"} => tree[r] # "none"
        /\ pc[t] = "resetting" => tree[r] = "torn"
        /\ pc[t] = "guard" => tree[r] = "whole"

\* A clone that is not complete has no guard.
PartHasNoGuard == \A r \in Repo : tree[r] \in {"none", "part"} => guard[r] = "none"

\* Where nobody was interrupted, a copy has its guard or is absent, or is of a repository
\* without a commit, but for the time that somebody clones it.
Guarded(r) == tree[r] \in {"whole", "torn"} /\ guard[r] = "whole"
Absent(r) == \/ tree[r] = "none" /\ guard[r] = "none"
             \/ Unborn(r) /\ guard[r] = "none"
KeepsCopy(t) ==
    LET r == RepoOf[t] IN
    /\ pc[t] \in {"check", "honor", "leave"} => Guarded(r) \/ Absent(r)
    /\ pc[t] \in {"fetch", "reset"} => Guarded(r)
    /\ pc[t] = "resetting" => guard[r] = "whole"
CopiesAreKept ==
    /\ FailuresLeaveNothing
    /\ \A t \in Importer : RepoOf[t] \notin hurt => KeepsCopy(t)

\* The update of a copy that is outdated ends before it counts as up to date.
StillOutdated(r) ==
    \/ setting.kind[r] # "default" /\ guard[r] # "whole"
    \/ setting.kind[r] # "commit" /\ ~fresh[r]
UpdatesEndFirst ==
    setting.force = {} =>
        /\ \A r \in Repo : tree[r] = "torn" => StillOutdated(r)
        /\ \A t \in Importer :
              /\ pc[t] \in {"fetch", "reset", "resetting"} => StillOutdated(RepoOf[t])
              /\ pc[t] = "honor" => tree[RepoOf[t]] = "none" \/ StillOutdated(RepoOf[t])

\* Who goes on has an attempt for it.
AttemptsLeft ==
    \A t \in Importer :
        pc[t] \in {"honor", "fetch", "reset", "resetting", "clone", "cloning", "ignore"} =>
            attempt[t] <= MaxRetries

IInv == /\ TypeOK /\ AttemptsLeft /\ NobodyCleans /\ LiveLocksStay /\ ConfigIsOnesOwn
        /\ CopyFits /\ PartHasNoGuard /\ CopiesAreKept

-----------------------------------------------------------------------------
\* Who has the lock file of a copy is alone there.
LEMMA LockHolderIsAlone ==
    ASSUME LiveLocksStay
    PROVE  OneAtEachCopy
  BY ImportersInOrder DEF LiveLocksStay, OneAtEachCopy, AtWork

\* A look at the copy leads out of the loop or, with an attempt left, to a git operation.
LEMMA CheckOutcome ==
    ASSUME NEW t \in Importer, Check(t)
    PROVE  \/ /\ Goto(t, "leave")
              /\ \E how \in {"found", "stale", "raised"} : answer' = [answer EXCEPT ![t] = how]
           \/ Goto(t, "honor") /\ answer' = answer /\ attempt[t] <= MaxRetries
  BY DEF Check, Leave

\* The copies that are there at first are whole, and nobody is at them.
THEOREM InitIInv == Init => IInv
  BY ImportersInOrder, SettingsInOrder
  DEF Init, IInv, TypeOK, AttemptsLeft, NobodyCleans, LiveLocksStay, ConfigIsOnesOwn,
     CopyFits, PartHasNoGuard,
      CopiesAreKept, FailuresLeaveNothing, KeepsCopy, Guarded, Absent, Unborn, AtWork, Inside, SettingOK

\* States stay well typed.
LEMMA StepKeepsTypes ==
    ASSUME IInv, NEW t \in Importer, Step(t) \/ Interrupt(t)
    PROVE  TypeOK'
<1> USE ImportersInOrder DEF IInv, Goto, Leave, LeaveConfig, EndCall, disk, config, mine, world
<1>1. CASE TakeThreadLock(t)
  BY <1>1 DEF TakeThreadLock, TypeOK, AttemptsLeft, Inside
<1>2. CASE TakeFileLock(t)
  BY <1>2 DEF TakeFileLock, TypeOK, AttemptsLeft, Inside
<1>3. CASE Check(t)
  <2>1. UNCHANGED <<world, disk, fileLock, threadLock, config, mine, left>>
    BY <1>3 DEF Check
  <2>2. pc' \in [Importer -> Inside \cup {"idle", "file"}]
    BY <1>3, CheckOutcome DEF TypeOK, Inside
  <2>3. answer' \in [Importer -> {None, "found", "stale", "raised"}]
    BY <1>3, CheckOutcome DEF TypeOK
  <2> QED
    BY <2>1, <2>2, <2>3 DEF TypeOK
<1>4. CASE Honor(t)
  BY <1>4 DEF Honor, TypeOK, AttemptsLeft, Inside
<1>5. CASE Ignore(t)
  BY <1>5 DEF Ignore, TypeOK, AttemptsLeft, Inside
<1>6. CASE Fetch(t)
  BY <1>6 DEF Fetch, TypeOK, AttemptsLeft, Inside
<1>7. CASE UpdateFails(t)
  <2>0. UNCHANGED world
    BY <1>7 DEF UpdateFails
  <2>1. (/\ setting \in Setting /\ remote \in [Repo -> 0 .. MaxVersion]
       /\ hurt \subseteq Repo /\ interrupts \in 0 .. MaxInterrupts
       /\ cleaning \in [Cleaner -> Repo \cup {None}])'
    BY <2>0 DEF TypeOK
  <2>2. (/\ tree \in [Repo -> {"none", "part", "torn", "whole"}]
       /\ head \in [Repo -> 0 .. MaxVersion]
       /\ guard \in [Repo -> {"none", "empty", "whole"}]
       /\ fresh \in [Repo -> BOOLEAN])'
    BY <1>7 DEF UpdateFails, UpdateStops, TypeOK, AttemptsLeft, Inside
  <2>3. (/\ fileLock \in [Repo -> Importer \cup {None}]
       /\ threadLock \in [Process -> [Repo -> Importer \cup {None}]]
       /\ honoring \subseteq Importer /\ ignoring \subseteq Importer)'
    BY <1>7 DEF UpdateFails, UpdateStops, TypeOK, AttemptsLeft, Inside
  <2>4. (/\ pc \in [Importer -> Inside \cup {"idle", "file"}]
       /\ answer \in [Importer -> {None, "found", "stale", "raised"}])'
    BY <1>7 DEF UpdateFails, UpdateStops, TypeOK, AttemptsLeft, Inside
  <2>5. (/\ attempt \in [Importer -> 0 .. MaxRetries + 1]
       /\ full \in [Importer -> BOOLEAN]
       /\ fetched \in [Importer -> 0 .. MaxVersion]
       /\ left \in [Importer -> Nat])'
    BY <1>7 DEF UpdateFails, UpdateStops, TypeOK, AttemptsLeft, Inside
  <2> QED
    BY <2>1, <2>2, <2>3, <2>4, <2>5 DEF TypeOK
<1>8. CASE StartReset(t)
  BY <1>8 DEF StartReset, TypeOK, AttemptsLeft, Inside
<1>9. CASE EndReset(t)
  <2>1. /\ UNCHANGED <<world, guard, fileLock, threadLock, mine, left>>
        /\ tree' = [tree EXCEPT ![RepoOf[t]] = "whole"]
        /\ head' = [head EXCEPT ![RepoOf[t]] = fetched[t]]
        /\ fresh' = [fresh EXCEPT ![RepoOf[t]] = guard[RepoOf[t]] # "none"]
        /\ LeaveConfig(t)
    BY <1>9 DEF EndReset
  <2>2. /\ \E label \in {"guard", "leave"} : pc' = [pc EXCEPT ![t] = label]
        /\ \/ UNCHANGED answer
           \/ \E how \in {"found", "raised"} : answer' = [answer EXCEPT ![t] = how]
    BY <1>9 DEF EndReset
  <2>3. pc' \in [Importer -> Inside \cup {"idle", "file"}]
    BY <2>2 DEF TypeOK, Inside
  <2>4. answer' \in [Importer -> {None, "found", "stale", "raised"}]
    BY <2>2 DEF TypeOK
  <2> QED
    BY <2>1, <2>3, <2>4 DEF TypeOK
<1>10. CASE StartClone(t)
  BY <1>10 DEF StartClone, TypeOK, AttemptsLeft, Inside
<1>11. CASE EndClone(t)
  BY <1>11 DEF EndClone, TypeOK, AttemptsLeft, Inside
<1>11a. CASE EndCloneUnborn(t)
  BY <1>11a DEF EndCloneUnborn, TypeOK, AttemptsLeft, Inside
<1>12. CASE RefuseClone(t)
  <2>0. UNCHANGED world
    BY <1>12 DEF RefuseClone
  <2>1. (/\ setting \in Setting /\ remote \in [Repo -> 0 .. MaxVersion]
       /\ hurt \subseteq Repo /\ interrupts \in 0 .. MaxInterrupts
       /\ cleaning \in [Cleaner -> Repo \cup {None}])'
    BY <2>0 DEF TypeOK
  <2>2. (/\ tree \in [Repo -> {"none", "part", "torn", "whole"}]
       /\ head \in [Repo -> 0 .. MaxVersion]
       /\ guard \in [Repo -> {"none", "empty", "whole"}]
       /\ fresh \in [Repo -> BOOLEAN])'
    BY <1>12 DEF RefuseClone, TypeOK, AttemptsLeft, Inside
  <2>3. (/\ fileLock \in [Repo -> Importer \cup {None}]
       /\ threadLock \in [Process -> [Repo -> Importer \cup {None}]]
       /\ honoring \subseteq Importer /\ ignoring \subseteq Importer)'
    BY <1>12 DEF RefuseClone, TypeOK, AttemptsLeft, Inside
  <2>4. (/\ pc \in [Importer -> Inside \cup {"idle", "file"}]
       /\ answer \in [Importer -> {None, "found", "stale", "raised"}])'
    BY <1>12, ZenonT(60) DEF RefuseClone, TypeOK, AttemptsLeft, Inside
  <2>5. (/\ attempt \in [Importer -> 0 .. MaxRetries + 1]
       /\ full \in [Importer -> BOOLEAN]
       /\ fetched \in [Importer -> 0 .. MaxVersion]
       /\ left \in [Importer -> Nat])'
    BY <1>12 DEF RefuseClone, TypeOK, AttemptsLeft, Inside
  <2> QED
    BY <2>1, <2>2, <2>3, <2>4, <2>5 DEF TypeOK
<1>13. CASE DropClone(t)
  <2>0. UNCHANGED world
    BY <1>13 DEF DropClone
  <2>1. (/\ setting \in Setting /\ remote \in [Repo -> 0 .. MaxVersion]
       /\ hurt \subseteq Repo /\ interrupts \in 0 .. MaxInterrupts
       /\ cleaning \in [Cleaner -> Repo \cup {None}])'
    BY <2>0 DEF TypeOK
  <2>2. (/\ tree \in [Repo -> {"none", "part", "torn", "whole"}]
       /\ head \in [Repo -> 0 .. MaxVersion]
       /\ guard \in [Repo -> {"none", "empty", "whole"}]
       /\ fresh \in [Repo -> BOOLEAN])'
    BY <1>13 DEF DropClone, TypeOK, AttemptsLeft, Inside
  <2>3. (/\ fileLock \in [Repo -> Importer \cup {None}]
       /\ threadLock \in [Process -> [Repo -> Importer \cup {None}]]
       /\ honoring \subseteq Importer /\ ignoring \subseteq Importer)'
    BY <1>13 DEF DropClone, TypeOK, AttemptsLeft, Inside
  <2>4. (/\ pc \in [Importer -> Inside \cup {"idle", "file"}]
       /\ answer \in [Importer -> {None, "found", "stale", "raised"}])'
    BY <1>13 DEF DropClone, TypeOK, AttemptsLeft, Inside
  <2>4a. /\ UNCHANGED <<full, fetched, left>>
         /\ \/ attempt' = attempt
            \/ attempt' = [attempt EXCEPT ![t] = @ + 1] /\ attempt[t] < MaxRetries
    BY <1>13 DEF DropClone
  <2>5. (/\ attempt \in [Importer -> 0 .. MaxRetries + 1]
       /\ full \in [Importer -> BOOLEAN]
       /\ fetched \in [Importer -> 0 .. MaxVersion]
       /\ left \in [Importer -> Nat])'
    BY <2>4a DEF TypeOK
  <2> QED
    BY <2>1, <2>2, <2>3, <2>4, <2>5 DEF TypeOK
<1>14. CASE WriteGuard(t)
  BY <1>14 DEF WriteGuard, TypeOK, AttemptsLeft, Inside
<1>15. CASE Release(t)
  BY <1>15 DEF Release, TypeOK, AttemptsLeft, Inside
<1>16. CASE Interrupt(t)
  <2>0. /\ UNCHANGED <<setting, remote, cleaning, tree, head, fresh>>
        /\ hurt' = hurt \cup {RepoOf[t]} /\ interrupts' = interrupts + 1 /\ interrupts < MaxInterrupts
        /\ guard' = guard \/ guard' = [guard EXCEPT ![RepoOf[t]] = "empty"]
    BY <1>16 DEF Interrupt
  <2>1. (/\ setting \in Setting /\ remote \in [Repo -> 0 .. MaxVersion]
       /\ hurt \subseteq Repo /\ interrupts \in 0 .. MaxInterrupts
       /\ cleaning \in [Cleaner -> Repo \cup {None}])'
    BY <2>0 DEF TypeOK
  <2>2. (/\ tree \in [Repo -> {"none", "part", "torn", "whole"}]
       /\ head \in [Repo -> 0 .. MaxVersion]
       /\ guard \in [Repo -> {"none", "empty", "whole"}]
       /\ fresh \in [Repo -> BOOLEAN])'
    BY <2>0 DEF TypeOK
  <2>3. (/\ fileLock \in [Repo -> Importer \cup {None}]
       /\ threadLock \in [Process -> [Repo -> Importer \cup {None}]]
       /\ honoring \subseteq Importer /\ ignoring \subseteq Importer)'
    BY <1>16 DEF Interrupt, TypeOK, AttemptsLeft, Inside
  <2>4. (/\ pc \in [Importer -> Inside \cup {"idle", "file"}]
       /\ answer \in [Importer -> {None, "found", "stale", "raised"}])'
    BY <1>16 DEF Interrupt, TypeOK, AttemptsLeft, Inside
  <2>5. (/\ attempt \in [Importer -> 0 .. MaxRetries + 1]
       /\ full \in [Importer -> BOOLEAN]
       /\ fetched \in [Importer -> 0 .. MaxVersion]
       /\ left \in [Importer -> Nat])'
    BY <1>16 DEF Interrupt, TypeOK, AttemptsLeft, Inside
  <2> QED
    BY <2>1, <2>2, <2>3, <2>4, <2>5 DEF TypeOK
<1> QED
  BY <1>1, <1>2, <1>3, <1>4, <1>5, <1>6, <1>7, <1>8, <1>9, <1>10, <1>11, <1>11a, <1>12, <1>13,
     <1>14, <1>15, <1>16 DEF Step

\* The attempts of an importer are counted before it goes on.
LEMMA StepKeepsAttempts ==
    ASSUME IInv, NEW t \in Importer, Step(t) \/ Interrupt(t)
    PROVE  AttemptsLeft'
<1> USE ImportersInOrder DEF IInv, Goto, Leave, LeaveConfig, EndCall, disk, config, mine, world
<1>1. CASE TakeThreadLock(t)
  BY <1>1 DEF TakeThreadLock, TypeOK, AttemptsLeft
<1>2. CASE TakeFileLock(t)
  BY <1>2 DEF TakeFileLock, TypeOK, AttemptsLeft
<1>3. CASE Check(t)
  <2>1. UNCHANGED <<world, disk, fileLock, threadLock, config, mine, left>> /\ pc[t] = "check"
    BY <1>3 DEF Check
  <2>2. \/ pc' = [pc EXCEPT ![t] = "leave"]
        \/ pc' = [pc EXCEPT ![t] = "honor"] /\ attempt[t] <= MaxRetries
    BY <1>3, CheckOutcome
  <2> QED
    BY <2>1, <2>2 DEF TypeOK, AttemptsLeft
<1>4. CASE Honor(t)
  BY <1>4 DEF Honor, TypeOK, AttemptsLeft
<1>5. CASE Ignore(t)
  BY <1>5 DEF Ignore, TypeOK, AttemptsLeft
<1>6. CASE Fetch(t)
  BY <1>6 DEF Fetch, TypeOK, AttemptsLeft
<1>7. CASE UpdateFails(t)
  BY <1>7 DEF UpdateFails, UpdateStops, TypeOK, AttemptsLeft
<1>8. CASE StartReset(t)
  BY <1>8 DEF StartReset, TypeOK, AttemptsLeft
<1>9. CASE EndReset(t)
  BY <1>9 DEF EndReset, TypeOK, AttemptsLeft
<1>10. CASE StartClone(t)
  BY <1>10 DEF StartClone, TypeOK, AttemptsLeft
<1>11. CASE EndClone(t)
  BY <1>11 DEF EndClone, TypeOK, AttemptsLeft
<1>11a. CASE EndCloneUnborn(t)
  BY <1>11a DEF EndCloneUnborn, TypeOK, AttemptsLeft
<1>12. CASE RefuseClone(t)
  BY <1>12 DEF RefuseClone, TypeOK, AttemptsLeft
<1>13. CASE DropClone(t)
  BY <1>13 DEF DropClone, TypeOK, AttemptsLeft
<1>14. CASE WriteGuard(t)
  BY <1>14 DEF WriteGuard, TypeOK, AttemptsLeft
<1>15. CASE Release(t)
  BY <1>15 DEF Release, TypeOK, AttemptsLeft
<1>16. CASE Interrupt(t)
  BY <1>16 DEF Interrupt, TypeOK, AttemptsLeft
<1> QED
  BY <1>1, <1>2, <1>3, <1>4, <1>5, <1>6, <1>7, <1>8, <1>9, <1>10, <1>11, <1>11a, <1>12, <1>13,
     <1>14, <1>15, <1>16 DEF Step

\* Nobody comes to a copy whose lock file somebody has, and nobody leaves it to others.
LEMMA StepKeepsLocks ==
    ASSUME IInv, NEW t \in Importer, Step(t) \/ Interrupt(t)
    PROVE  LiveLocksStay' /\ NobodyCleans'
<1> USE ImportersInOrder DEF IInv, Goto, Leave, LeaveConfig, EndCall, disk, config, mine, world
<1>1. CASE TakeThreadLock(t)
  BY <1>1 DEF TakeThreadLock, TypeOK, LiveLocksStay, NobodyCleans, AtWork, Inside
<1>2. CASE TakeFileLock(t)
  BY <1>2 DEF TakeFileLock, TypeOK, LiveLocksStay, NobodyCleans, AtWork, Inside
<1>3. CASE Check(t)
  <2>1. UNCHANGED <<world, disk, fileLock, threadLock, config, mine, left>> /\ pc[t] = "check"
    BY <1>3 DEF Check
  <2> QED
    BY <1>3, <2>1, CheckOutcome DEF TypeOK, LiveLocksStay, NobodyCleans, AtWork, Inside
<1>4. CASE Honor(t)
  BY <1>4 DEF Honor, TypeOK, LiveLocksStay, NobodyCleans, AtWork, Inside
<1>5. CASE Ignore(t)
  BY <1>5 DEF Ignore, TypeOK, LiveLocksStay, NobodyCleans, AtWork, Inside
<1>6. CASE Fetch(t)
  BY <1>6 DEF Fetch, TypeOK, LiveLocksStay, NobodyCleans, AtWork, Inside
<1>7. CASE UpdateFails(t)
  BY <1>7 DEF UpdateFails, UpdateStops, TypeOK, LiveLocksStay, NobodyCleans, AtWork, Inside
<1>8. CASE StartReset(t)
  BY <1>8 DEF StartReset, TypeOK, LiveLocksStay, NobodyCleans, AtWork, Inside
<1>9. CASE EndReset(t)
  BY <1>9 DEF EndReset, TypeOK, LiveLocksStay, NobodyCleans, AtWork, Inside
<1>10. CASE StartClone(t)
  BY <1>10 DEF StartClone, TypeOK, LiveLocksStay, NobodyCleans, AtWork, Inside
<1>11. CASE EndClone(t)
  BY <1>11 DEF EndClone, TypeOK, LiveLocksStay, NobodyCleans, AtWork, Inside
<1>11a. CASE EndCloneUnborn(t)
  BY <1>11a DEF EndCloneUnborn, TypeOK, LiveLocksStay, NobodyCleans, AtWork, Inside
<1>12. CASE RefuseClone(t)
  BY <1>12 DEF RefuseClone, TypeOK, LiveLocksStay, NobodyCleans, AtWork, Inside
<1>13. CASE DropClone(t)
  BY <1>13 DEF DropClone, TypeOK, LiveLocksStay, NobodyCleans, AtWork, Inside
<1>14. CASE WriteGuard(t)
  BY <1>14 DEF WriteGuard, TypeOK, LiveLocksStay, NobodyCleans, AtWork, Inside
<1>15. CASE Release(t)
  BY <1>15 DEF Release, TypeOK, LiveLocksStay, NobodyCleans, AtWork, Inside
<1>16. CASE Interrupt(t)
  BY <1>16 DEF Interrupt, TypeOK, LiveLocksStay, NobodyCleans, AtWork, Inside
<1> QED
  BY <1>1, <1>2, <1>3, <1>4, <1>5, <1>6, <1>7, <1>8, <1>9, <1>10, <1>11, <1>11a, <1>12, <1>13,
     <1>14, <1>15, <1>16 DEF Step

\* Whoever sets the configuration aside has waited for the others of the process.
LEMMA StepKeepsConfig ==
    ASSUME IInv, NEW t \in Importer, Step(t) \/ Interrupt(t)
    PROVE  ConfigIsOnesOwn'
<1> USE ImportersInOrder DEF IInv, Goto, Leave, LeaveConfig, EndCall, disk, config, mine, world
<1>1. CASE TakeThreadLock(t)
  BY <1>1 DEF TakeThreadLock, TypeOK, ConfigIsOnesOwn
<1>2. CASE TakeFileLock(t)
  BY <1>2 DEF TakeFileLock, TypeOK, ConfigIsOnesOwn
<1>3. CASE Check(t)
  <2>1. UNCHANGED <<world, disk, fileLock, threadLock, config, mine, left>> /\ pc[t] = "check"
    BY <1>3 DEF Check
  <2> QED
    BY <1>3, <2>1, CheckOutcome DEF TypeOK, ConfigIsOnesOwn
<1>4. CASE Honor(t)
  BY <1>4 DEF Honor, TypeOK, ConfigIsOnesOwn
<1>5. CASE Ignore(t)
  BY <1>5 DEF Ignore, TypeOK, ConfigIsOnesOwn
<1>6. CASE Fetch(t)
  BY <1>6 DEF Fetch, TypeOK, ConfigIsOnesOwn
<1>7. CASE UpdateFails(t)
  BY <1>7 DEF UpdateFails, UpdateStops, TypeOK, ConfigIsOnesOwn
<1>8. CASE StartReset(t)
  BY <1>8 DEF StartReset, TypeOK, ConfigIsOnesOwn
<1>9. CASE EndReset(t)
  BY <1>9 DEF EndReset, TypeOK, ConfigIsOnesOwn
<1>10. CASE StartClone(t)
  BY <1>10 DEF StartClone, TypeOK, ConfigIsOnesOwn
<1>11. CASE EndClone(t)
  BY <1>11 DEF EndClone, TypeOK, ConfigIsOnesOwn
<1>11a. CASE EndCloneUnborn(t)
  BY <1>11a DEF EndCloneUnborn, TypeOK, ConfigIsOnesOwn
<1>12. CASE RefuseClone(t)
  BY <1>12 DEF RefuseClone, TypeOK, ConfigIsOnesOwn
<1>13. CASE DropClone(t)
  BY <1>13 DEF DropClone, TypeOK, ConfigIsOnesOwn
<1>14. CASE WriteGuard(t)
  BY <1>14 DEF WriteGuard, TypeOK, ConfigIsOnesOwn
<1>15. CASE Release(t)
  BY <1>15 DEF Release, TypeOK, ConfigIsOnesOwn
<1>16. CASE Interrupt(t)
  BY <1>16 DEF Interrupt, TypeOK, ConfigIsOnesOwn
<1> QED
  BY <1>1, <1>2, <1>3, <1>4, <1>5, <1>6, <1>7, <1>8, <1>9, <1>10, <1>11, <1>11a, <1>12, <1>13,
     <1>14, <1>15, <1>16 DEF Step

\* What an importer has made of the copy is not touched by others.
LEMMA StepKeepsCopies ==
    ASSUME IInv, NEW t \in Importer, Step(t) \/ Interrupt(t)
    PROVE  CopyFits' /\ PartHasNoGuard'
<1> USE ImportersInOrder DEF IInv, Goto, Leave, LeaveConfig, EndCall, disk, config, mine, world
<1>1. CASE TakeThreadLock(t)
  BY <1>1, LockHolderIsAlone DEF TakeThreadLock, TypeOK, CopyFits, PartHasNoGuard,
     OneAtEachCopy, AtWork, Inside
<1>2. CASE TakeFileLock(t)
  BY <1>2, LockHolderIsAlone DEF TakeFileLock, TypeOK, CopyFits, PartHasNoGuard,
     OneAtEachCopy, AtWork, Inside
<1>3. CASE Check(t)
  <2>1. UNCHANGED <<world, disk, fileLock, threadLock, config, mine, left>> /\ pc[t] = "check"
    BY <1>3 DEF Check
  <2> QED
    BY <1>3, <2>1, CheckOutcome, LockHolderIsAlone, SMTT(30) DEF TypeOK, CopyFits, PartHasNoGuard,
       OneAtEachCopy, AtWork, Inside
<1>4. CASE Honor(t)
  BY <1>4, LockHolderIsAlone DEF Honor, TypeOK, CopyFits, PartHasNoGuard, OneAtEachCopy,
     AtWork, Inside
<1>5. CASE Ignore(t)
  BY <1>5, LockHolderIsAlone DEF Ignore, TypeOK, CopyFits, PartHasNoGuard, OneAtEachCopy,
     AtWork, Inside
<1>6. CASE Fetch(t)
  BY <1>6, LockHolderIsAlone DEF Fetch, TypeOK, CopyFits, PartHasNoGuard, OneAtEachCopy,
     AtWork, Inside
<1>7. CASE UpdateFails(t)
  BY <1>7, LockHolderIsAlone DEF UpdateFails, UpdateStops, TypeOK, CopyFits, PartHasNoGuard, OneAtEachCopy,
     AtWork, Inside
<1>8. CASE StartReset(t)
  BY <1>8, LockHolderIsAlone DEF StartReset, TypeOK, CopyFits, PartHasNoGuard, OneAtEachCopy,
     AtWork, Inside
<1>9. CASE EndReset(t)
  BY <1>9, LockHolderIsAlone DEF EndReset, TypeOK, CopyFits, PartHasNoGuard, OneAtEachCopy,
     AtWork, Inside
<1>10. CASE StartClone(t)
  BY <1>10, LockHolderIsAlone DEF StartClone, TypeOK, CopyFits, PartHasNoGuard, OneAtEachCopy,
     AtWork, Inside
<1>11. CASE EndClone(t)
  BY <1>11, LockHolderIsAlone DEF EndClone, TypeOK, CopyFits, PartHasNoGuard, OneAtEachCopy,
     AtWork, Inside
<1>11a. CASE EndCloneUnborn(t)
  BY <1>11a, LockHolderIsAlone DEF EndCloneUnborn, TypeOK, CopyFits, PartHasNoGuard, OneAtEachCopy,
     AtWork, Inside
<1>12. CASE RefuseClone(t)
  BY <1>12, LockHolderIsAlone DEF RefuseClone, TypeOK, CopyFits, PartHasNoGuard,
     OneAtEachCopy, AtWork, Inside
<1>13. CASE DropClone(t)
  BY <1>13, LockHolderIsAlone DEF DropClone, TypeOK, CopyFits, PartHasNoGuard, OneAtEachCopy,
     AtWork, Inside
<1>14. CASE WriteGuard(t)
  BY <1>14, LockHolderIsAlone DEF WriteGuard, TypeOK, CopyFits, PartHasNoGuard, OneAtEachCopy,
     AtWork, Inside
<1>15. CASE Release(t)
  BY <1>15, LockHolderIsAlone DEF Release, TypeOK, CopyFits, PartHasNoGuard, OneAtEachCopy,
     AtWork, Inside
<1>16. CASE Interrupt(t)
  BY <1>16, LockHolderIsAlone DEF Interrupt, TypeOK, CopyFits, PartHasNoGuard, OneAtEachCopy,
     AtWork, Inside
<1> QED
  BY <1>1, <1>2, <1>3, <1>4, <1>5, <1>6, <1>7, <1>8, <1>9, <1>10, <1>11, <1>11a, <1>12, <1>13,
     <1>14, <1>15, <1>16 DEF Step

\* Every way out of an attempt leaves a copy with its guard, or one without a commit, or none.
LEMMA StepKeepsWhole ==
    ASSUME IInv, NEW t \in Importer, Step(t) \/ Interrupt(t)
    PROVE  CopiesAreKept'
<1> USE ImportersInOrder DEF IInv, Goto, Leave, LeaveConfig, EndCall, disk, config, mine, world
<1>1. CASE TakeThreadLock(t)
  <2>1. UNCHANGED <<tree, head, guard, hurt>> /\ pc[t] = "idle" /\ pc' = [pc EXCEPT ![t] = "file"]
    BY <1>1 DEF TakeThreadLock
  <2>2. \A u \in Importer : RepoOf[u] \notin hurt' => KeepsCopy(u)'
    BY <2>1 DEF TypeOK, CopiesAreKept, KeepsCopy, Guarded, Absent, Unborn
  <2>3. \A u \in Importer : pc'[u] \in Inside <=> pc[u] \in Inside
    BY <2>1 DEF TypeOK, Inside
  <2>4. FailuresLeaveNothing'
    BY <2>1, <2>3 DEF CopiesAreKept, FailuresLeaveNothing, Unborn, AtWork
  <2> QED
    BY <2>2, <2>4 DEF CopiesAreKept
<1>2. CASE TakeFileLock(t)
  <2>1. AtWork(RepoOf[t]) = {}
    BY <1>2 DEF TakeFileLock, LiveLocksStay, TypeOK, AtWork
  <2>2. KeepsCopy(t)' \/ RepoOf[t] \in hurt'
    BY <1>2, <2>1 DEF TakeFileLock, TypeOK, CopiesAreKept, FailuresLeaveNothing, KeepsCopy,
       Guarded, Absent, Unborn
  <2>3. \A u \in Importer \ {t} : KeepsCopy(u)' \/ RepoOf[u] \in hurt'
    BY <1>2 DEF TakeFileLock, TypeOK, CopiesAreKept, KeepsCopy, Guarded, Absent, Unborn
  <2>4. FailuresLeaveNothing'
    BY <1>2 DEF TakeFileLock, TypeOK, CopiesAreKept, FailuresLeaveNothing, Unborn, AtWork,
       Inside
  <2> QED
    BY <2>2, <2>3, <2>4 DEF CopiesAreKept
<1>3. CASE Check(t)
  <2>1. UNCHANGED <<tree, head, guard, hurt>> /\ pc[t] = "check"
    BY <1>3 DEF Check
  <2>2. pc' = [pc EXCEPT ![t] = "leave"] \/ pc' = [pc EXCEPT ![t] = "honor"]
    BY <1>3, CheckOutcome
  <2>3. \A u \in Importer : RepoOf[u] \notin hurt' => KeepsCopy(u)'
    BY <2>1, <2>2 DEF TypeOK, CopiesAreKept, KeepsCopy, Guarded, Absent, Unborn
  <2>4. \A u \in Importer : pc'[u] \in Inside <=> pc[u] \in Inside
    BY <2>1, <2>2 DEF TypeOK, Inside
  <2>5. FailuresLeaveNothing'
    BY <2>1, <2>4 DEF CopiesAreKept, FailuresLeaveNothing, Unborn, AtWork
  <2> QED
    BY <2>3, <2>5 DEF CopiesAreKept
<1>4. CASE Honor(t)
  BY <1>4, LockHolderIsAlone DEF Honor, TypeOK, CopyFits, PartHasNoGuard, CopiesAreKept,
     KeepsCopy, FailuresLeaveNothing, Guarded, Absent, Unborn, OneAtEachCopy, AtWork, Inside
<1>5. CASE Ignore(t)
  BY <1>5, LockHolderIsAlone DEF Ignore, TypeOK, CopyFits, PartHasNoGuard, CopiesAreKept,
     KeepsCopy, FailuresLeaveNothing, Guarded, Absent, Unborn, OneAtEachCopy, AtWork, Inside
<1>6. CASE Fetch(t)
  BY <1>6, LockHolderIsAlone DEF Fetch, TypeOK, CopyFits, PartHasNoGuard, CopiesAreKept,
     KeepsCopy, FailuresLeaveNothing, Guarded, Absent, Unborn, OneAtEachCopy, AtWork, Inside
<1>7. CASE UpdateFails(t)
  BY <1>7, LockHolderIsAlone DEF UpdateFails, UpdateStops, TypeOK, CopyFits, PartHasNoGuard, CopiesAreKept,
     KeepsCopy, FailuresLeaveNothing, Guarded, Absent, Unborn, OneAtEachCopy, AtWork, Inside
<1>8. CASE StartReset(t)
  BY <1>8, LockHolderIsAlone DEF StartReset, TypeOK, CopyFits, PartHasNoGuard, CopiesAreKept,
     KeepsCopy, FailuresLeaveNothing, Guarded, Absent, Unborn, OneAtEachCopy, AtWork, Inside
<1>9. CASE EndReset(t)
  BY <1>9, LockHolderIsAlone DEF EndReset, TypeOK, CopyFits, PartHasNoGuard, CopiesAreKept,
     KeepsCopy, FailuresLeaveNothing, Guarded, Absent, Unborn, OneAtEachCopy, AtWork, Inside
<1>10. CASE StartClone(t)
  BY <1>10, LockHolderIsAlone DEF StartClone, TypeOK, CopyFits, PartHasNoGuard, CopiesAreKept,
     KeepsCopy, FailuresLeaveNothing, Guarded, Absent, Unborn, OneAtEachCopy, AtWork, Inside
<1>11. CASE EndClone(t)
  BY <1>11, LockHolderIsAlone DEF EndClone, TypeOK, CopyFits, PartHasNoGuard, CopiesAreKept,
     KeepsCopy, FailuresLeaveNothing, Guarded, Absent, Unborn, OneAtEachCopy, AtWork, Inside
<1>11a. CASE EndCloneUnborn(t)
  BY <1>11a, LockHolderIsAlone DEF EndCloneUnborn, TypeOK, CopyFits, PartHasNoGuard, CopiesAreKept,
     KeepsCopy, FailuresLeaveNothing, Guarded, Absent, Unborn, OneAtEachCopy, AtWork, Inside
<1>12. CASE RefuseClone(t)
  BY <1>12, LockHolderIsAlone DEF RefuseClone, TypeOK, CopyFits, PartHasNoGuard,
     CopiesAreKept, KeepsCopy, FailuresLeaveNothing, Guarded, Absent, Unborn, OneAtEachCopy, AtWork,
     Inside
<1>13. CASE DropClone(t)
  BY <1>13, LockHolderIsAlone DEF DropClone, TypeOK, CopyFits, PartHasNoGuard, CopiesAreKept,
     KeepsCopy, FailuresLeaveNothing, Guarded, Absent, Unborn, OneAtEachCopy, AtWork, Inside
<1>14. CASE WriteGuard(t)
  BY <1>14, LockHolderIsAlone DEF WriteGuard, TypeOK, CopyFits, PartHasNoGuard, CopiesAreKept,
     KeepsCopy, FailuresLeaveNothing, Guarded, Absent, Unborn, OneAtEachCopy, AtWork, Inside
<1>15. CASE Release(t)
  BY <1>15, LockHolderIsAlone DEF Release, TypeOK, CopyFits, PartHasNoGuard, CopiesAreKept,
     KeepsCopy, FailuresLeaveNothing, Guarded, Absent, Unborn, OneAtEachCopy, AtWork, Inside
<1>16. CASE Interrupt(t)
  BY <1>16, LockHolderIsAlone DEF Interrupt, TypeOK, CopyFits, PartHasNoGuard, CopiesAreKept,
     KeepsCopy, FailuresLeaveNothing, Guarded, Absent, Unborn, OneAtEachCopy, AtWork, Inside
<1> QED
  BY <1>1, <1>2, <1>3, <1>4, <1>5, <1>6, <1>7, <1>8, <1>9, <1>10, <1>11, <1>11a, <1>12, <1>13,
     <1>14, <1>15, <1>16 DEF Step

\* An update that is due ends before the copy counts as up to date.
LEMMA StepKeepsUpdates ==
    ASSUME IInv, UpdatesEndFirst, FoundIsWhole, NEW t \in Importer, Step(t) \/ Interrupt(t)
    PROVE  UpdatesEndFirst' /\ FoundIsWhole'
<1> USE ImportersInOrder DEF IInv, Goto, Leave, LeaveConfig, EndCall, disk, config, mine, world
<1>1. CASE TakeThreadLock(t)
  BY <1>1, LockHolderIsAlone DEF TakeThreadLock, TypeOK, CopyFits, PartHasNoGuard,
     UpdatesEndFirst, StillOutdated, FoundIsWhole, Forced, OneAtEachCopy, AtWork, Inside
<1>2. CASE TakeFileLock(t)
  BY <1>2, LockHolderIsAlone DEF TakeFileLock, TypeOK, CopyFits, PartHasNoGuard,
     UpdatesEndFirst, StillOutdated, FoundIsWhole, Forced, OneAtEachCopy, AtWork, Inside
<1>3. CASE Check(t)
  <2> DEFINE r == RepoOf[t]
  <2>1. UNCHANGED <<tree, guard, fresh, setting>> /\ pc[t] = "check"
    BY <1>3 DEF Check
  <2>2. ASSUME setting.force = {}
        PROVE  \/ /\ pc' = [pc EXCEPT ![t] = "leave"] /\ answer' = [answer EXCEPT ![t] = "found"]
                  /\ tree[r] = "whole" /\ guard[r] # "none"
               \/ /\ pc' = [pc EXCEPT ![t] = "leave"]
                  /\ answer' = [answer EXCEPT ![t] = "stale"] \/ answer' = [answer EXCEPT ![t] = "raised"]
               \/ /\ pc' = [pc EXCEPT ![t] = "honor"] /\ UNCHANGED answer
                  /\ tree[r] = "none" \/ StillOutdated(r)
    BY <1>3, <2>2 DEF Check, Leave, Outdated, Forced, StillOutdated, GuardIsMissed,
       UpdatesEndFirst,
       TypeOK, PartHasNoGuard
  <2>3. UpdatesEndFirst'
    BY <2>1, <2>2 DEF TypeOK, UpdatesEndFirst, StillOutdated
  <2>4. FoundIsWhole'
    BY <2>1, <2>2 DEF TypeOK, FoundIsWhole
  <2> QED
    BY <2>3, <2>4
<1>4. CASE Honor(t)
  BY <1>4, LockHolderIsAlone DEF Honor, TypeOK, CopyFits, PartHasNoGuard, UpdatesEndFirst,
     StillOutdated, FoundIsWhole, Forced, OneAtEachCopy, AtWork, Inside
<1>5. CASE Ignore(t)
  BY <1>5, LockHolderIsAlone DEF Ignore, TypeOK, CopyFits, PartHasNoGuard, UpdatesEndFirst,
     StillOutdated, FoundIsWhole, Forced, OneAtEachCopy, AtWork, Inside
<1>6. CASE Fetch(t)
  BY <1>6, LockHolderIsAlone DEF Fetch, TypeOK, CopyFits, PartHasNoGuard, UpdatesEndFirst,
     StillOutdated, FoundIsWhole, Forced, OneAtEachCopy, AtWork, Inside
<1>7. CASE UpdateFails(t)
  BY <1>7, LockHolderIsAlone DEF UpdateFails, UpdateStops, TypeOK, CopyFits, PartHasNoGuard,
     UpdatesEndFirst, StillOutdated, FoundIsWhole, Forced, OneAtEachCopy, AtWork, Inside
<1>8. CASE StartReset(t)
  BY <1>8, LockHolderIsAlone DEF StartReset, TypeOK, CopyFits, PartHasNoGuard,
     UpdatesEndFirst, StillOutdated, FoundIsWhole, Forced, OneAtEachCopy, AtWork, Inside
<1>9. CASE EndReset(t)
  <2> DEFINE r == RepoOf[t]
  <2>1. /\ UNCHANGED <<guard, setting>> /\ tree' = [tree EXCEPT ![r] = "whole"]
        /\ \A q \in Repo \ {r} : fresh'[q] = fresh[q]
        /\ \A u \in Importer \ {t} : pc'[u] = pc[u] /\ answer'[u] = answer[u]
        /\ pc'[t] \in {"leave", "guard"}
        /\ guard[r] = "none" => answer'[t] = "raised"
    BY <1>9 DEF EndReset, TypeOK
  <2>2. \A u \in Importer \ {t} : RepoOf[u] = r => pc[u] \notin Inside
    BY <1>9, LockHolderIsAlone DEF EndReset, OneAtEachCopy, AtWork, Inside
  <2>3. UpdatesEndFirst'
    BY <2>1, <2>2 DEF TypeOK, UpdatesEndFirst, StillOutdated, Inside
  <2>4. FoundIsWhole'
    BY <2>1, <2>2 DEF TypeOK, FoundIsWhole, Inside
  <2> QED
    BY <2>3, <2>4
<1>10. CASE StartClone(t)
  BY <1>10, LockHolderIsAlone DEF StartClone, TypeOK, CopyFits, PartHasNoGuard,
     UpdatesEndFirst, StillOutdated, FoundIsWhole, Forced, OneAtEachCopy, AtWork, Inside
<1>11. CASE EndClone(t)
  BY <1>11, LockHolderIsAlone DEF EndClone, TypeOK, CopyFits, PartHasNoGuard, UpdatesEndFirst,
     StillOutdated, FoundIsWhole, Forced, OneAtEachCopy, AtWork, Inside
<1>11a. CASE EndCloneUnborn(t)
  BY <1>11a, LockHolderIsAlone DEF EndCloneUnborn, TypeOK, CopyFits, PartHasNoGuard, UpdatesEndFirst,
     StillOutdated, FoundIsWhole, Forced, OneAtEachCopy, AtWork, Inside
<1>12. CASE RefuseClone(t)
  <2> DEFINE r == RepoOf[t]
  <2>1. /\ UNCHANGED <<guard, fresh, setting>> /\ tree' = [tree EXCEPT ![r] = "none"]
        /\ \A u \in Importer \ {t} : pc'[u] = pc[u] /\ answer'[u] = answer[u]
        /\ pc'[t] \in {"clone", "ignore", "check", "leave"}
        /\ pc'[t] = "leave" => answer'[t] = "raised"
    BY <1>12 DEF RefuseClone, TypeOK
  <2>2. \A u \in Importer \ {t} : RepoOf[u] = r => pc[u] \notin Inside
    BY <1>12, LockHolderIsAlone DEF RefuseClone, OneAtEachCopy, AtWork, Inside
  <2>3. UpdatesEndFirst'
    BY <2>1, <2>2 DEF TypeOK, UpdatesEndFirst, StillOutdated, Inside
  <2>4. FoundIsWhole'
    BY <2>1, <2>2 DEF TypeOK, FoundIsWhole, Inside
  <2> QED
    BY <2>3, <2>4
<1>13. CASE DropClone(t)
  <2> DEFINE r == RepoOf[t]
  <2>1. /\ UNCHANGED <<guard, fresh, setting>> /\ tree' = [tree EXCEPT ![r] = "none"]
        /\ \A u \in Importer \ {t} : pc'[u] = pc[u] /\ answer'[u] = answer[u]
        /\ pc'[t] \in {"clone", "ignore", "check", "leave"}
        /\ pc'[t] = "leave" => answer'[t] = "raised"
    BY <1>13 DEF DropClone, TypeOK
  <2>2. \A u \in Importer \ {t} : RepoOf[u] = r => pc[u] \notin Inside
    BY <1>13, LockHolderIsAlone DEF DropClone, OneAtEachCopy, AtWork, Inside
  <2>3. UpdatesEndFirst'
    BY <2>1, <2>2 DEF TypeOK, UpdatesEndFirst, StillOutdated, Inside
  <2>4. FoundIsWhole'
    BY <2>1, <2>2 DEF TypeOK, FoundIsWhole, Inside
  <2> QED
    BY <2>3, <2>4
<1>14. CASE WriteGuard(t)
  BY <1>14, LockHolderIsAlone DEF WriteGuard, TypeOK, CopyFits, PartHasNoGuard,
     UpdatesEndFirst, StillOutdated, FoundIsWhole, Forced, OneAtEachCopy, AtWork, Inside
<1>15. CASE Release(t)
  BY <1>15, LockHolderIsAlone DEF Release, TypeOK, CopyFits, PartHasNoGuard, UpdatesEndFirst,
     StillOutdated, FoundIsWhole, Forced, OneAtEachCopy, AtWork, Inside
<1>16. CASE Interrupt(t)
  BY <1>16, LockHolderIsAlone DEF Interrupt, TypeOK, CopyFits, PartHasNoGuard,
     UpdatesEndFirst, StillOutdated, FoundIsWhole, Forced, OneAtEachCopy, AtWork, Inside
<1> QED
  BY <1>1, <1>2, <1>3, <1>4, <1>5, <1>6, <1>7, <1>8, <1>9, <1>10, <1>11, <1>11a, <1>12, <1>13,
     <1>14, <1>15, <1>16 DEF Step

-----------------------------------------------------------------------------
\* The day that goes by, and the repository that moves on, disturb nothing.
LEMMA WorldKeeps ==
    ASSUME IInv, NEW r \in Repo, Age(r) \/ Move(r)
    PROVE  IInv'
<1> USE ImportersInOrder DEF IInv, disk, config, mine, world
<1>1. CASE Age(r)
  BY <1>1 DEF Age, TypeOK, AttemptsLeft, NobodyCleans, LiveLocksStay, ConfigIsOnesOwn,
     CopyFits, PartHasNoGuard,
     CopiesAreKept, FailuresLeaveNothing, KeepsCopy, Guarded, Absent, Unborn, AtWork
<1>2. CASE Move(r)
  BY <1>2 DEF Move, TypeOK, AttemptsLeft, NobodyCleans, LiveLocksStay, ConfigIsOnesOwn,
     CopyFits, PartHasNoGuard,
     CopiesAreKept, FailuresLeaveNothing, KeepsCopy, Guarded, Absent, Unborn, AtWork
<1> QED
  BY <1>1, <1>2

\* Where there is no health check, none removes a lock file.
LEMMA NobodyStartsToClean ==
    ASSUME NoCleaners, IInv, NEW c \in Cleaner
    PROVE  ~(\E r \in Repo : FindUnheld(c, r)) /\ ~RemoveLock(c)
  BY DEF NoCleaners, IInv, TypeOK, NobodyCleans, FindUnheld, RemoveLock

\* What does not move keeps the invariant.
LEMMA StutterKeeps ==
    ASSUME IInv, UNCHANGED vars
    PROVE  IInv'
  BY DEF IInv, TypeOK, AttemptsLeft, NobodyCleans, LiveLocksStay, ConfigIsOnesOwn, CopyFits,
     PartHasNoGuard, CopiesAreKept, FailuresLeaveNothing, KeepsCopy, Guarded, Absent, Unborn, AtWork,
        vars, disk, config, mine, world

\* The invariant is inductive: every step of an importer, every interruption and the passing
\* of time keep it (project_factory_git.py).
THEOREM NextIInv == NoCleaners /\ IInv /\ [Next]_vars => IInv'
<1> SUFFICES ASSUME NoCleaners, IInv, [Next]_vars PROVE IInv'
  OBVIOUS
<1>1. ASSUME NEW t \in Importer, Step(t) \/ Interrupt(t) PROVE IInv'
  BY <1>1, StepKeepsTypes, StepKeepsAttempts, StepKeepsLocks, StepKeepsConfig,
     StepKeepsCopies, StepKeepsWhole DEF IInv
<1>2. ASSUME NEW r \in Repo, Age(r) \/ Move(r) PROVE IInv'
  BY <1>2, WorldKeeps
<1> QED
  BY <1>1, <1>2, NobodyStartsToClean, StutterKeeps DEF Next

\* The invariant holds of every reachable state.
LEMMA SpecIInv == NoCleaners /\ Spec => []IInv
<1>1. ASSUME NoCleaners PROVE Spec => []IInv
  <2>1. IInv /\ [Next]_vars => IInv'
    BY <1>1, NextIInv
  <2> QED
    BY <2>1, InitIInv, PTL DEF Spec
<1> QED
  BY <1>1

\* Every reachable state is well typed.
THEOREM TypeCorrect == NoCleaners /\ Spec => []TypeOK
<1>1. IInv => TypeOK
  BY DEF IInv
<1> QED
  BY <1>1, SpecIInv, PTL

\* Two importers are never at one copy, whatever processes they are of and however others
\* were interrupted.
THEOREM CopiesAreExclusive == NoCleaners /\ Spec => []OneAtEachCopy
<1>1. IInv => OneAtEachCopy
  BY LockHolderIsAlone DEF IInv
<1> QED
  BY <1>1, SpecIInv, PTL

\* A process's git configuration is never set aside under somebody who counts on it.
THEOREM ConfigIsSafe == NoCleaners /\ Spec => []ConfigIsOnesOwn
<1>1. IInv => ConfigIsOnesOwn
  BY DEF IInv
<1> QED
  BY <1>1, SpecIInv, PTL

\* No failure of a download, an update or the configuration leaves part of a clone behind, and
\* none takes the guard from a copy that has it (_clone_repo, _clone_or_update_repo).
THEOREM NoLeftovers == NoCleaners /\ Spec => []FailuresLeaveNothing
<1>1. IInv => FailuresLeaveNothing
  BY DEF IInv, CopiesAreKept
<1> QED
  BY <1>1, SpecIInv, PTL

\* A copy is never removed, or cloned over, once it is complete.
THEOREM CopiesAreSafe == NoCleaners /\ Spec => CopiesStay
<1>1. ASSUME NoCleaners, IInv, [Next]_vars
      PROVE  \A r \in Repo : tree[r] \in {"torn", "whole"} => tree'[r] \in {"torn", "whole"}
  <2> USE ImportersInOrder DEF IInv, TypeOK, CopyFits, disk
  <2>1. ASSUME NEW t \in Importer, Step(t) \/ Interrupt(t)
        PROVE  \A r \in Repo : tree[r] \in {"torn", "whole"} => tree'[r] \in {"torn", "whole"}
    <3>1. CASE \/ TakeThreadLock(t) \/ TakeFileLock(t) \/ Check(t) \/ Honor(t) \/ Ignore(t)
               \/ Fetch(t) \/ UpdateFails(t) \/ WriteGuard(t) \/ Release(t) \/ Interrupt(t)
      BY <3>1 DEF TakeThreadLock, TakeFileLock, Check, Honor, Ignore, Fetch, UpdateFails, UpdateStops,
         WriteGuard, Release, Interrupt
    <3>2. CASE StartReset(t)
      BY <1>1, <3>2 DEF StartReset
    <3>3. CASE EndReset(t)
      BY <1>1, <3>3 DEF EndReset
    <3>4. CASE StartClone(t)
      BY <1>1, <3>4 DEF StartClone
    <3>5. CASE EndClone(t)
      BY <1>1, <3>5 DEF EndClone
    <3>5a. CASE EndCloneUnborn(t)
      BY <1>1, <3>5a DEF EndCloneUnborn
    <3>6. CASE RefuseClone(t)
      BY <1>1, <3>6 DEF RefuseClone
    <3>7. CASE DropClone(t)
      BY <1>1, <3>7 DEF DropClone
    <3> QED
      BY <2>1, <3>1, <3>2, <3>3, <3>4, <3>5, <3>5a, <3>6, <3>7 DEF Step
  <2> QED
    BY <1>1, <2>1, NobodyStartsToClean DEF Next, vars, Age, Move
<1>2. IInv /\ IInv' /\ [Next]_vars /\ NoCleaners =>
        [\A r \in Repo : tree[r] \in {"torn", "whole"} => tree'[r] \in {"torn", "whole"}]_vars
  BY <1>1
<1>3. ASSUME NoCleaners PROVE Spec => CopiesStay
  <2>1. IInv /\ [Next]_vars =>
          [\A r \in Repo : tree[r] \in {"torn", "whole"} => tree'[r] \in {"torn", "whole"}]_vars
    BY <1>1, <1>3
  <2> QED
    BY <2>1, <1>3, SpecIInv, PTL DEF Spec, CopiesStay
<1> QED
  BY <1>3

\* A copy that an interruption or a failed reset has left half way is updated by the next import that can,
\* and what an import has found is whole.
THEOREM HalfCopiesAreMended == NoCleaners /\ Spec => [](TornIsNotBelieved /\ FoundIsWhole)
<1>1. ASSUME NoCleaners PROVE Spec => []UpdatesEndFirst /\ []FoundIsWhole
  <2>1. Init => UpdatesEndFirst /\ FoundIsWhole
    BY ImportersInOrder, SettingsInOrder DEF Init, UpdatesEndFirst, FoundIsWhole, SettingOK
  <2>2. ASSUME IInv, UpdatesEndFirst, FoundIsWhole, [Next]_vars
        PROVE  UpdatesEndFirst' /\ FoundIsWhole'
    <3> USE <2>2
    <3>1. ASSUME NEW t \in Importer, Step(t) \/ Interrupt(t)
          PROVE  UpdatesEndFirst' /\ FoundIsWhole'
      BY <3>1, StepKeepsUpdates
    <3>2. ASSUME NEW r \in Repo, Age(r) \/ Move(r)
          PROVE  UpdatesEndFirst' /\ FoundIsWhole'
      <4>1. /\ UNCHANGED <<setting, tree, guard, pc, answer>>
            /\ \A q \in Repo : fresh'[q] => fresh[q]
        BY <3>2 DEF Age, Move, IInv, TypeOK, disk, world
      <4> QED
        BY <4>1, ImportersInOrder DEF UpdatesEndFirst, StillOutdated, FoundIsWhole
    <3>3. CASE UNCHANGED vars
      BY <3>3 DEF vars, disk, world, UpdatesEndFirst, StillOutdated, FoundIsWhole
    <3> QED
      BY <1>1, <3>1, <3>2, <3>3, NobodyStartsToClean DEF Next
  <2> QED
    BY <1>1, <2>1, <2>2, SpecIInv, PTL DEF Spec
<1>2. UpdatesEndFirst => TornIsNotBelieved
  BY ImportersInOrder DEF UpdatesEndFirst, TornIsNotBelieved, StillOutdated, Outdated
<1>3. ASSUME NoCleaners PROVE Spec => [](TornIsNotBelieved /\ FoundIsWhole)
  BY <1>1, <1>2, <1>3, PTL
<1> QED
  BY <1>3
=============================================================================
