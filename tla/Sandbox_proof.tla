--------------------------- MODULE Sandbox_proof ----------------------------
(***************************************************************************)
(* Proofs about EnvironmentLock and SandboxInstall, for any number of      *)
(* processes, tasks, sessions and packages.                                *)
(*                                                                         *)
(* The lock: a counter stays natural only because it is the size of a set  *)
(* that the task is in; an install finds itself alone only because a       *)
(* counter at zero means an empty set.                                     *)
(*                                                                         *)
(* The sandbox: three invariants, each on top of the one before.  AloneInv *)
(* has the locks and what every task knows of its session; TruthInv what   *)
(* the files are like where nobody installs, and how far an install has    *)
(* come; NeedsInv what every session has declared, where it is, and how    *)
(* the v-env is filled.                                                    *)
(***************************************************************************)
EXTENDS EnvironmentLock, SandboxInstall, FiniteSetTheorems, SequenceTheorems, TLAPS

-----------------------------------------------------------------------------
(* EnvironmentLock.                                                        *)

\* The inductive invariant: the three invariants together, none of which is inductive
\* alone.
LockInv == LockTypeOK /\ CountersAreExact /\ InstallIsAlone

-----------------------------------------------------------------------------
(* How many tasks of one process are in a set, and how that moves.         *)

\* How many tasks of a process are in a set.
Number(S, p) == Cardinality(S \cap Of(p))

\* A set of tasks has finitely many of one process, and none when the count is 0.
LEMMA NumberZero ==
    ASSUME NEW S \in SUBSET User, NEW p
    PROVE  /\ IsFiniteSet(S \cap Of(p))
           /\ Number(S, p) \in Nat
           /\ Number(S, p) = 0 <=> S \cap Of(p) = {}
<1>1. S \cap Of(p) \in SUBSET User
    OBVIOUS
<1>2. IsFiniteSet(S \cap Of(p))
    BY <1>1, FS_Subset, UserAssumption
<1> QED
    BY <1>2, FS_CardinalityType, FS_EmptySet DEF Number

\* A task that joins a set is one more of its own process.
LEMMA NumberJoin ==
    ASSUME NEW S \in SUBSET User, NEW t \in User, t \notin S, NEW p
    PROVE  Number(S \cup {t}, p) =
               IF Home[t] = p THEN Number(S, p) + 1 ELSE Number(S, p)
<1>1. CASE Home[t] = p
    <2>1. (S \cup {t}) \cap Of(p) = (S \cap Of(p)) \cup {t}
        BY <1>1 DEF Of
    <2> QED
        BY <1>1, <2>1, NumberZero, FS_AddElement DEF Number
<1>2. CASE Home[t] # p
    <2>1. (S \cup {t}) \cap Of(p) = S \cap Of(p)
        BY <1>2 DEF Of
    <2> QED
        BY <1>2, <2>1 DEF Number
<1> QED
    BY <1>1, <1>2

\* A task that leaves a set is one less of its own process.
LEMMA NumberLeave ==
    ASSUME NEW S \in SUBSET User, NEW t \in S, NEW p
    PROVE  /\ Number(S \ {t}, p) =
                  IF Home[t] = p THEN Number(S, p) - 1 ELSE Number(S, p)
           /\ Home[t] = p => Number(S, p) > 0
<1>1. CASE Home[t] = p
    <2>1. (S \ {t}) \cap Of(p) = (S \cap Of(p)) \ {t}
        OBVIOUS
    <2>2. t \in S \cap Of(p)
        BY <1>1 DEF Of
    <2> QED
        BY <1>1, <2>1, <2>2, NumberZero, FS_RemoveElement, SMTT(30) DEF Number
<1>2. CASE Home[t] # p
    <2>1. (S \ {t}) \cap Of(p) = S \cap Of(p)
        BY <1>2 DEF Of
    <2> QED
        BY <1>2, <2>1 DEF Number
<1> QED
    BY <1>1, <1>2

\* A process that dies has no task left in a set; the others keep theirs.
LEMMA NumberDie ==
    ASSUME NEW S \in SUBSET User, NEW q, NEW p
    PROVE  Number(S \ Of(q), p) = IF p = q THEN 0 ELSE Number(S, p)
<1>1. CASE p = q
    <2>1. (S \ Of(q)) \cap Of(p) = {}
        BY <1>1
    <2> QED
        BY <1>1, <2>1, FS_EmptySet DEF Number
<1>2. CASE p # q
    <2>1. (S \ Of(q)) \cap Of(p) = S \cap Of(p)
        BY <1>2 DEF Of
    <2> QED
        BY <1>2, <2>1 DEF Number
<1> QED
    BY <1>1, <1>2

-----------------------------------------------------------------------------
(* What each kind of step does to the three sets of tasks.                 *)

\* The sets are sets of tasks.
LEMMA SetsOfTasks == /\ Reading \in SUBSET User
                     /\ Writing \in SUBSET User
                     /\ Counted \in SUBSET User
BY DEF Reading, Writing, Counted

\* With the counters exact, a flag that is down means nobody writes in the
\* process, and a lock file that is free means nobody writes at all.
LEMMA NobodyWrites ==
    ASSUME LockInv
    PROVE  /\ \A p \in Process : ~writer[p] => Writing \cap Of(p) = {}
           /\ fileLock = NoProcess => Writing = {}
           /\ \A p \in Process : readers[p] = 0 => Reading \cap Of(p) = {}
<1>1. \A p \in Process : ~writer[p] <=> Writing \cap Of(p) = {}
    BY DEF LockInv, CountersAreExact
<1>2. ASSUME fileLock = NoProcess, NEW t \in Writing
      PROVE  FALSE
    <2>1. t \in User /\ Home[t] \in Process
        BY <1>2, SetsOfTasks, UserAssumption
    <2>2. t \in Writing \cap Of(Home[t])
        BY <1>2, <2>1 DEF Of
    <2>3. fileLock = Home[t]
        BY <2>1, <2>2 DEF LockInv, CountersAreExact
    <2> QED
        BY <1>2, <2>1, <2>3, UserAssumption
<1>3. ASSUME NEW p \in Process, readers[p] = 0
      PROVE  Reading \cap Of(p) = {}
    <2>1. Number(Reading, p) = 0
        BY <1>3 DEF LockInv, CountersAreExact, Number
    <2> QED
        BY <2>1, NumberZero, SetsOfTasks
<1> QED
    BY <1>1, <1>2, <1>3

-----------------------------------------------------------------------------
(* One lemma per kind of change, so that each action only has to say which  *)
(* tasks it moved.                                                         *)

\* A wrapper gets in.
LEMMA ReaderEnters ==
    ASSUME LockInv, LockTypeOK', NEW t \in User, t \notin Reading,
           TakeRead(Home[t]),
           Reading' = Reading \cup {t}, Writing' = Writing, Counted' = Counted
    PROVE  CountersAreExact' /\ InstallIsAlone'
<1> DEFINE h == Home[t]
<1>1. h \in Process
    BY UserAssumption
<1>2. Writing \cap Of(h) = {}
    BY <1>1, NobodyWrites DEF TakeRead, CanRead
<1>3. ASSUME NEW p \in Process
      PROVE  Number(Reading', p) = readers'[p]
    <2>1. Number(Reading, p) = readers[p]
        BY DEF LockInv, CountersAreExact, Number
    <2>2. Number(Reading', p) =
              IF h = p THEN Number(Reading, p) + 1 ELSE Number(Reading, p)
        BY NumberJoin, SetsOfTasks
    <2> QED
        BY <1>1, <2>1, <2>2 DEF LockInv, LockTypeOK, TakeRead
<1>4. CountersAreExact'
    BY <1>3 DEF LockInv, CountersAreExact, Number, TakeRead
<1>5. InstallIsAlone'
    BY <1>2, SetsOfTasks DEF LockInv, InstallIsAlone, Of
<1> QED
    BY <1>4, <1>5

\* An install gets in, at the first try or at a later one.
LEMMA WriterEnters ==
    ASSUME LockInv, LockTypeOK', NEW t \in User,
           TakeWrite(Home[t]),
           Reading' = Reading, Writing' = Writing \cup {t}, Counted' = Counted
    PROVE  CountersAreExact' /\ InstallIsAlone'
<1> DEFINE h == Home[t]
<1>1. h \in Process /\ h # NoProcess
    BY UserAssumption
<1>2. Writing = {} /\ Reading \cap Of(h) = {}
    BY <1>1, NobodyWrites DEF TakeWrite, CanWrite
<1>3. Writing' = {t}
    BY <1>2
<1>4. ASSUME NEW p \in Process
      PROVE  /\ writer'[p] <=> Writing' \cap Of(p) # {}
             /\ writer'[p] <=> fileLock' = p
    <2>1. Writing' \cap Of(p) # {} <=> p = h
        BY <1>3 DEF Of
    <2>2. ~writer[p]
        BY <1>2 DEF LockInv, CountersAreExact
    <2>3. writer'[p] <=> p = h
        BY <1>1, <2>2 DEF LockInv, LockTypeOK, TakeWrite
    <2> QED
        BY <2>1, <2>3 DEF TakeWrite
<1>5. CountersAreExact'
    BY <1>4 DEF LockInv, CountersAreExact, TakeWrite
<1>6. InstallIsAlone'
    BY <1>2, <1>3 DEF InstallIsAlone
<1> QED
    BY <1>5, <1>6

\* A write announces itself.
LEMMA WriterAnnounces ==
    ASSUME LockInv, LockTypeOK', NEW t \in User, t \notin Counted,
           writersWaiting' = [writersWaiting EXCEPT ![Home[t]] = @ + 1],
           UNCHANGED <<readers, writer, fileLock>>,
           Reading' = Reading, Writing' = Writing, Counted' = Counted \cup {t}
    PROVE  CountersAreExact' /\ InstallIsAlone'
<1>1. ASSUME NEW p \in Process
      PROVE  Number(Counted', p) = writersWaiting'[p]
    <2>1. Home[t] \in Process
        BY UserAssumption
    <2>2. Number(Counted, p) = writersWaiting[p]
        BY DEF LockInv, CountersAreExact, Number
    <2>3. Number(Counted', p) =
              IF Home[t] = p THEN Number(Counted, p) + 1 ELSE Number(Counted, p)
        BY NumberJoin, SetsOfTasks
    <2> QED
        BY <2>1, <2>2, <2>3 DEF LockInv, LockTypeOK
<1>2. CountersAreExact'
    BY <1>1 DEF LockInv, CountersAreExact, Number
<1>3. InstallIsAlone'
    BY DEF LockInv, InstallIsAlone
<1> QED
    BY <1>2, <1>3

\* A write withdraws its announcement.
LEMMA WriterWithdraws ==
    ASSUME LockInv, LockTypeOK', NEW t \in Counted,
           writersWaiting' = [writersWaiting EXCEPT ![Home[t]] = @ - 1],
           UNCHANGED <<readers, writer, fileLock>>,
           Reading' = Reading, Writing' = Writing, Counted' = Counted \ {t}
    PROVE  CountersAreExact' /\ InstallIsAlone'
<1>1. ASSUME NEW p \in Process
      PROVE  Number(Counted', p) = writersWaiting'[p]
    <2>1. t \in User /\ Home[t] \in Process
        BY SetsOfTasks, UserAssumption
    <2>2. Number(Counted, p) = writersWaiting[p]
        BY DEF LockInv, CountersAreExact, Number
    <2>3. Number(Counted', p) =
              IF Home[t] = p THEN Number(Counted, p) - 1 ELSE Number(Counted, p)
        BY NumberLeave, SetsOfTasks
    <2> QED
        BY <2>1, <2>2, <2>3 DEF LockInv, LockTypeOK
<1>2. CountersAreExact'
    BY <1>1 DEF LockInv, CountersAreExact, Number
<1>3. InstallIsAlone'
    BY DEF LockInv, InstallIsAlone
<1> QED
    BY <1>2, <1>3

\* A wrapper leaves.
LEMMA ReaderLeaves ==
    ASSUME LockInv, LockTypeOK', NEW t \in Reading,
           readers' = [readers EXCEPT ![Home[t]] = @ - 1],
           UNCHANGED <<writer, writersWaiting, fileLock>>,
           Reading' = Reading \ {t}, Writing' = Writing, Counted' = Counted
    PROVE  CountersAreExact' /\ InstallIsAlone'
<1>1. ASSUME NEW p \in Process
      PROVE  Number(Reading', p) = readers'[p]
    <2>1. t \in User /\ Home[t] \in Process
        BY SetsOfTasks, UserAssumption
    <2>2. Number(Reading, p) = readers[p]
        BY DEF LockInv, CountersAreExact, Number
    <2>3. Number(Reading', p) =
              IF Home[t] = p THEN Number(Reading, p) - 1 ELSE Number(Reading, p)
        BY NumberLeave, SetsOfTasks
    <2> QED
        BY <2>1, <2>2, <2>3 DEF LockInv, LockTypeOK
<1>2. CountersAreExact'
    BY <1>1 DEF LockInv, CountersAreExact, Number
<1>3. InstallIsAlone'
    BY DEF LockInv, InstallIsAlone
<1> QED
    BY <1>2, <1>3

\* An install leaves.
LEMMA WriterLeaves ==
    ASSUME LockInv, LockTypeOK', NEW t \in Writing,
           writer' = [writer EXCEPT ![Home[t]] = FALSE],
           fileLock' = NoProcess,
           UNCHANGED <<readers, writersWaiting>>,
           Reading' = Reading, Writing' = Writing \ {t}, Counted' = Counted
    PROVE  CountersAreExact' /\ InstallIsAlone'
<1>1. t \in User /\ Home[t] \in Process
    BY SetsOfTasks, UserAssumption
<1>2. Writing = {t} /\ Writing' = {}
    BY DEF LockInv, InstallIsAlone
<1>3. \A p \in Process : ~writer'[p]
    BY <1>1, <1>2 DEF LockInv, LockTypeOK, CountersAreExact, Of
<1>4. CountersAreExact'
    BY <1>2, <1>3, UserAssumption DEF LockInv, CountersAreExact
<1>5. InstallIsAlone'
    BY <1>2 DEF InstallIsAlone
<1> QED
    BY <1>4, <1>5

\* Nobody moves in or out of a set.
LEMMA NobodyGoes ==
    ASSUME LockInv, UNCHANGED <<readers, writer, writersWaiting, fileLock>>,
           Reading' = Reading, Writing' = Writing, Counted' = Counted
    PROVE  CountersAreExact' /\ InstallIsAlone'
BY DEF LockInv, CountersAreExact, InstallIsAlone

-----------------------------------------------------------------------------
(* The invariant is inductive.                                             *)

\* Nobody uses the environment at first, and nothing is counted.
LEMMA InitLockInv == LockInit => LockInv
<1> SUFFICES ASSUME LockInit PROVE LockInv
    OBVIOUS
<1>1. Reading = {} /\ Writing = {} /\ Counted = {}
    BY DEF LockInit, Reading, Writing, Counted
<1>2. LockTypeOK
    BY DEF LockInit, LockTypeOK, Place
<1>3. CountersAreExact
    BY <1>1, FS_EmptySet, UserAssumption DEF LockInit, CountersAreExact
<1>4. InstallIsAlone
    BY <1>1 DEF InstallIsAlone
<1> QED
    BY <1>2, <1>3, <1>4 DEF LockInv

\* The types are kept: a counter goes down only for a task that it counts.
LEMMA NextLockTypeOK == LockInv /\ [LockNext]_lockVars => LockTypeOK'
<1> SUFFICES ASSUME LockInv, [LockNext]_lockVars PROVE LockTypeOK'
    OBVIOUS
<1> USE DEF LockTypeOK, Place
<1> DEFINE Counters == /\ readers \in [Process -> Nat]
                       /\ writer \in [Process -> BOOLEAN]
                       /\ writersWaiting \in [Process -> Nat]
                       /\ fileLock \in Process \cup {NoProcess}
<1>0. LockTypeOK /\ \A t \in User : Home[t] \in Process
    BY UserAssumption DEF LockInv
<1>r. ASSUME NEW p \in Process, TakeRead(p) PROVE Counters'
    BY <1>0, <1>r DEF TakeRead
<1>w. ASSUME NEW p \in Process, TakeWrite(p) PROVE Counters'
    BY <1>0, <1>w DEF TakeWrite
<1>1. ASSUME NEW t \in User, NEW w \in BOOLEAN, Ask(t, w) PROVE LockTypeOK'
    <2>1. Counters'
        BY <1>0, <1>1, <1>r, <1>w DEF Ask
    <2>2. forWrite' = [forWrite EXCEPT ![t] = w]
        BY <1>1 DEF Ask
    <2>3. \/ place' = [place EXCEPT ![t] = "inside"]
          \/ w /\ place' = [place EXCEPT ![t] = "missed"]
          \/ ~w /\ place' = [place EXCEPT ![t] = "polling"]
        BY <1>1 DEF Ask
    <2> HIDE DEF Counters
    <2>4. /\ place' \in [User -> Place]
          /\ forWrite' \in [User -> BOOLEAN]
          /\ \A u \in User : place'[u] \in {"missed", "admitted", "failed"} => forWrite'[u]
        BY <1>0, <2>2, <2>3
    <2> QED
        BY <2>1, <2>4 DEF Counters
<1>2. ASSUME NEW t \in User, Announce(t) PROVE LockTypeOK'
    BY <1>0, <1>2 DEF Announce
<1>3. ASSUME NEW t \in User, PollRead(t) PROVE LockTypeOK'
    <2>1. Counters'
        BY <1>0, <1>3, <1>r DEF PollRead
    <2> QED
        BY <1>0, <1>3, <2>1 DEF PollRead
<1>4. ASSUME NEW t \in User, PollWrite(t) PROVE LockTypeOK'
    <2>1. Counters'
        BY <1>0, <1>4, <1>w DEF PollWrite
    <2> QED
        BY <1>0, <1>4, <2>1 DEF PollWrite
<1>5. ASSUME NEW t \in User, FileFails(t) PROVE LockTypeOK'
    BY <1>0, <1>5 DEF FileFails
<1>6. ASSUME NEW t \in User, Cancel(t) PROVE LockTypeOK'
    BY <1>0, <1>6 DEF Cancel
<1>7. ASSUME NEW t \in User, Withdraw(t) PROVE LockTypeOK'
    <2>1. t \in Counted /\ Home[t] \in Process
        BY <1>0, <1>7, UserAssumption DEF Withdraw, Counted
    <2>2. writersWaiting[Home[t]] > 0
        <3>1. Number(Counted, Home[t]) > 0
            BY <2>1, NumberLeave, SetsOfTasks
        <3> QED
            BY <2>1, <3>1 DEF LockInv, CountersAreExact, Number
    <2> QED
        BY <1>0, <1>7, <2>1, <2>2 DEF Withdraw
<1>8. ASSUME NEW t \in User, Release(t) PROVE LockTypeOK'
    <2>1. CASE forWrite[t]
        BY <1>0, <1>8, <2>1, UserAssumption DEF Release
    <2>2. CASE ~forWrite[t]
        <3>1. t \in Reading /\ Home[t] \in Process
            BY <1>8, <2>2, UserAssumption DEF Release, Reading
        <3>2. readers[Home[t]] > 0
            <4>1. Number(Reading, Home[t]) > 0
                BY <3>1, NumberLeave, SetsOfTasks
            <4> QED
                BY <3>1, <4>1 DEF LockInv, CountersAreExact, Number
        <3> QED
            BY <1>0, <1>8, <2>2, <3>1, <3>2 DEF Release
    <2> QED
        BY <2>1, <2>2
<1>9. ASSUME NEW p \in Process, Killed(p) PROVE LockTypeOK'
    BY <1>0, <1>9 DEF Killed
<1>10. ASSUME UNCHANGED lockVars PROVE LockTypeOK'
    BY <1>0, <1>10 DEF lockVars
<1> QED
    BY <1>1, <1>2, <1>3, <1>4, <1>5, <1>6, <1>7, <1>8, <1>9, <1>10
       DEF LockNext, LockStep

\* Where each action moves its task.
LEMMA NextLockMoves ==
    ASSUME LockInv, [LockNext]_lockVars, LockTypeOK'
    PROVE  CountersAreExact' /\ InstallIsAlone'
<1> USE DEF Reading, Writing, Counted
<1>0. /\ place \in [User -> Place] /\ forWrite \in [User -> BOOLEAN]
      /\ \A t \in User : place[t] \in {"missed", "admitted", "failed"} => forWrite[t]
    BY DEF LockInv, LockTypeOK
<1>1. ASSUME NEW t \in User, NEW w \in BOOLEAN, Ask(t, w)
      PROVE  CountersAreExact' /\ InstallIsAlone'
    <2>0. place[t] = "out" /\ forWrite' = [forWrite EXCEPT ![t] = w]
        BY <1>1 DEF Ask
    <2>1. CASE place' = [place EXCEPT ![t] = "inside"] /\ w
        <3>1. TakeWrite(Home[t])
            BY <1>1, <2>0, <2>1, <1>0 DEF Ask, Place
        <3>2. /\ Reading' = Reading /\ Counted' = Counted
              /\ Writing' = Writing \cup {t}
            BY <1>0, <2>0, <2>1
        <3> HIDE DEF Reading, Writing, Counted
        <3> QED
            BY <3>1, <3>2, WriterEnters
    <2>2. CASE place' = [place EXCEPT ![t] = "inside"] /\ ~w
        <3>1. TakeRead(Home[t])
            BY <1>1, <2>0, <2>2, <1>0 DEF Ask, Place
        <3>2. /\ Reading' = Reading \cup {t} /\ t \notin Reading
              /\ Writing' = Writing /\ Counted' = Counted
            BY <1>0, <2>0, <2>2
        <3> HIDE DEF Reading, Writing, Counted
        <3> QED
            BY <3>1, <3>2, ReaderEnters
    <2>3. CASE /\ place' = [place EXCEPT ![t] = IF w THEN "missed" ELSE "polling"]
               /\ UNCHANGED <<readers, writer, writersWaiting, fileLock>>
        <3>1. Reading' = Reading /\ Writing' = Writing /\ Counted' = Counted
            BY <1>0, <2>0, <2>3
        <3> HIDE DEF Reading, Writing, Counted
        <3> QED
            BY <2>3, <3>1, NobodyGoes
    <2> QED
        BY <1>1, <2>1, <2>2, <2>3 DEF Ask
<1>2. ASSUME NEW t \in User, Announce(t)
      PROVE  CountersAreExact' /\ InstallIsAlone'
    <2>1. /\ Reading' = Reading /\ Writing' = Writing
          /\ Counted' = Counted \cup {t} /\ t \notin Counted
        BY <1>0, <1>2 DEF Announce
    <2> HIDE DEF Reading, Writing, Counted
    <2> QED
        BY <1>2, <2>1, WriterAnnounces DEF Announce
<1>3. ASSUME NEW t \in User, PollRead(t)
      PROVE  CountersAreExact' /\ InstallIsAlone'
    <2>1. /\ Reading' = Reading \cup {t} /\ t \notin Reading
          /\ Writing' = Writing /\ Counted' = Counted
        BY <1>0, <1>3 DEF PollRead
    <2> HIDE DEF Reading, Writing, Counted
    <2> QED
        BY <1>3, <2>1, ReaderEnters DEF PollRead
<1>4. ASSUME NEW t \in User, PollWrite(t)
      PROVE  CountersAreExact' /\ InstallIsAlone'
    <2>1. /\ Reading' = Reading /\ Counted' = Counted
          /\ Writing' = Writing \cup {t}
        BY <1>0, <1>4 DEF PollWrite
    <2> HIDE DEF Reading, Writing, Counted
    <2> QED
        BY <1>4, <2>1, WriterEnters DEF PollWrite
<1>5. ASSUME NEW t \in User, FileFails(t) \/ Cancel(t)
      PROVE  CountersAreExact' /\ InstallIsAlone'
    <2>1. Reading' = Reading /\ Writing' = Writing /\ Counted' = Counted
        BY <1>0, <1>5 DEF FileFails, Cancel
    <2> HIDE DEF Reading, Writing, Counted
    <2> QED
        BY <1>5, <2>1, NobodyGoes DEF FileFails, Cancel
<1>6. ASSUME NEW t \in User, Withdraw(t)
      PROVE  CountersAreExact' /\ InstallIsAlone'
    <2>1. /\ Reading' = Reading /\ Writing' = Writing
          /\ Counted' = Counted \ {t} /\ t \in Counted
        BY <1>0, <1>6 DEF Withdraw
    <2> HIDE DEF Reading, Writing, Counted
    <2> QED
        BY <1>6, <2>1, WriterWithdraws DEF Withdraw
<1>7. ASSUME NEW t \in User, Release(t)
      PROVE  CountersAreExact' /\ InstallIsAlone'
    <2>1. CASE forWrite[t]
        <3>1. /\ Reading' = Reading /\ Counted' = Counted
              /\ Writing' = Writing \ {t} /\ t \in Writing
            BY <1>0, <1>7, <2>1 DEF Release
        <3> HIDE DEF Reading, Writing, Counted
        <3> QED
            BY <1>7, <2>1, <3>1, WriterLeaves DEF Release
    <2>2. CASE ~forWrite[t]
        <3>1. /\ Reading' = Reading \ {t} /\ t \in Reading
              /\ Writing' = Writing /\ Counted' = Counted
            BY <1>0, <1>7, <2>2 DEF Release
        <3> HIDE DEF Reading, Writing, Counted
        <3> QED
            BY <1>7, <2>2, <3>1, ReaderLeaves DEF Release
    <2> QED
        BY <2>1, <2>2
<1>8. ASSUME NEW p \in Process, Killed(p)
      PROVE  CountersAreExact' /\ InstallIsAlone'
    <2>1. /\ Reading' = Reading \ Of(p)
          /\ Writing' = Writing \ Of(p)
          /\ Counted' = Counted \ Of(p)
        BY <1>0, <1>8 DEF Killed, Of
    <2> HIDE DEF Reading, Writing, Counted
    <2>2. ASSUME NEW q \in Process
          PROVE  /\ readers'[q] = Number(Reading', q)
                 /\ writersWaiting'[q] = Number(Counted', q)
        <3>1. /\ readers[q] = Number(Reading, q)
              /\ writersWaiting[q] = Number(Counted, q)
            BY DEF LockInv, CountersAreExact, Number
        <3>2. /\ Number(Reading', q) = IF q = p THEN 0 ELSE Number(Reading, q)
              /\ Number(Counted', q) = IF q = p THEN 0 ELSE Number(Counted, q)
            BY <2>1, NumberDie, SetsOfTasks
        <3> QED
            BY <1>8, <3>1, <3>2 DEF Killed, LockInv, LockTypeOK
    <2>3. ASSUME NEW q \in Process
          PROVE  /\ writer'[q] <=> Writing' \cap Of(q) # {}
                 /\ writer'[q] <=> fileLock' = q
        <3>0. p # NoProcess /\ q # NoProcess
            BY UserAssumption
        <3>1. /\ writer[q] <=> Writing \cap Of(q) # {}
              /\ writer[q] <=> fileLock = q
            BY DEF LockInv, CountersAreExact
        <3>2. CASE q = p
            <4>1. Writing' \cap Of(q) = {} /\ ~writer'[q] /\ fileLock' # q
                BY <1>8, <2>1, <3>0, <3>2 DEF Killed, LockInv, LockTypeOK
            <4> QED
                BY <4>1
        <3>3. CASE q # p
            <4>1. Writing' \cap Of(q) = Writing \cap Of(q)
                BY <2>1, <3>3 DEF Of
            <4>2. writer'[q] = writer[q] /\ (fileLock' = q <=> fileLock = q)
                BY <1>8, <3>0, <3>3 DEF Killed, LockInv, LockTypeOK
            <4> QED
                BY <3>1, <4>1, <4>2
        <3> QED
            BY <3>2, <3>3
    <2>4. CountersAreExact'
        BY <2>2, <2>3 DEF CountersAreExact, Number
    <2>5. InstallIsAlone'
        BY <2>1 DEF LockInv, InstallIsAlone
    <2> QED
        BY <2>4, <2>5
<1>9. ASSUME UNCHANGED lockVars
      PROVE  CountersAreExact' /\ InstallIsAlone'
    BY <1>9, NobodyGoes DEF lockVars
<1> QED
    BY <1>1, <1>2, <1>3, <1>4, <1>5, <1>6, <1>7, <1>8, <1>9 DEF LockNext, LockStep

\* The invariant holds in every reachable state.
THEOREM LockInvariance == LockSpec => []LockInv
<1>1. LockInv /\ [LockNext]_lockVars => LockInv'
    BY NextLockTypeOK, NextLockMoves DEF LockInv
<1> QED
    BY InitLockInv, <1>1, PTL DEF LockSpec

\* Whatever tasks and processes there are, every state is well typed.
THEOREM LockTypeCorrect == LockSpec => []LockTypeOK
<1>1. LockInv => LockTypeOK
    BY DEF LockInv
<1> QED
    BY LockInvariance, <1>1, PTL

\* Whatever tasks and processes there are, no counter leaks: not when a wait is
\* cancelled or fails, not when a process dies.
THEOREM NoCounterLeaks == LockSpec => []CountersAreExact
<1>1. LockInv => CountersAreExact
    BY DEF LockInv
<1> QED
    BY LockInvariance, <1>1, PTL

\* Whatever tasks and processes there are, an install is alone.
THEOREM InstallExcludes == LockSpec => []InstallIsAlone
<1>1. LockInv => InstallIsAlone
    BY DEF LockInv
<1> QED
    BY LockInvariance, <1>1, PTL

-----------------------------------------------------------------------------
(* The lock keeps the promise of RWLock.                                   *)

\* Every step of the lock enters, leaves, dies or changes nothing there.
LEMMA StepKeepsPromise ==
    ASSUME LockInv, [LockNext]_lockVars
    PROVE  [Promise!RWNext]_(Promise!rwVars)
<1> USE DEF Reading, Writing
<1>0. /\ place \in [User -> Place] /\ forWrite \in [User -> BOOLEAN]
      /\ \A t \in User : place[t] \in {"missed", "admitted", "failed"} => forWrite[t]
      /\ \A t \in User : Home[t] \in Process
    BY UserAssumption DEF LockInv, LockTypeOK
<1>a. ASSUME NEW t \in User, TakeWrite(Home[t]), Reading' = Reading,
             Writing' = Writing \cup {t}
      PROVE  Promise!EnterWriting(t)
    <2> HIDE DEF Reading, Writing
    <2>1. Writing = {} /\ Reading \cap Of(Home[t]) = {}
        BY <1>0, <1>a, NobodyWrites DEF TakeWrite, CanWrite
    <2> QED
        BY <1>a, <2>1 DEF Promise!EnterWriting, Promise!Of, Of
<1>b. ASSUME NEW t \in User, TakeRead(Home[t]), t \notin Reading,
             Reading' = Reading \cup {t}, Writing' = Writing
      PROVE  Promise!EnterReading(t)
    <2> HIDE DEF Reading, Writing
    <2>1. Writing \cap Of(Home[t]) = {}
        BY <1>0, <1>b, NobodyWrites DEF TakeRead, CanRead
    <2>2. t \notin Writing
        BY <2>1 DEF Of
    <2> QED
        BY <1>b, <2>1, <2>2 DEF Promise!EnterReading, Promise!Of, Of
<1>1. ASSUME NEW t \in User, NEW w \in BOOLEAN, Ask(t, w)
      PROVE  [Promise!RWNext]_(Promise!rwVars)
    <2>0. place[t] = "out" /\ forWrite' = [forWrite EXCEPT ![t] = w]
        BY <1>1 DEF Ask
    <2>1. CASE place' = [place EXCEPT ![t] = "inside"] /\ w
        <3>1. TakeWrite(Home[t])
            BY <1>1, <2>0, <2>1, <1>0 DEF Ask, Place
        <3>2. Reading' = Reading /\ Writing' = Writing \cup {t}
            BY <1>0, <2>0, <2>1
        <3> QED
            BY <1>a, <3>1, <3>2 DEF Promise!RWNext
    <2>2. CASE place' = [place EXCEPT ![t] = "inside"] /\ ~w
        <3>1. TakeRead(Home[t])
            BY <1>1, <2>0, <2>2, <1>0 DEF Ask, Place
        <3>2. Reading' = Reading \cup {t} /\ t \notin Reading /\ Writing' = Writing
            BY <1>0, <2>0, <2>2
        <3> QED
            BY <1>b, <3>1, <3>2 DEF Promise!RWNext
    <2>3. CASE place' = [place EXCEPT ![t] = IF w THEN "missed" ELSE "polling"]
        BY <1>0, <2>0, <2>3 DEF Promise!rwVars
    <2> QED
        BY <1>1, <2>1, <2>2, <2>3 DEF Ask
<1>2. ASSUME NEW t \in User, PollRead(t)
      PROVE  [Promise!RWNext]_(Promise!rwVars)
    <2>1. Reading' = Reading \cup {t} /\ t \notin Reading /\ Writing' = Writing
        BY <1>0, <1>2 DEF PollRead
    <2> QED
        BY <1>2, <1>b, <2>1 DEF PollRead, Promise!RWNext
<1>3. ASSUME NEW t \in User, PollWrite(t)
      PROVE  [Promise!RWNext]_(Promise!rwVars)
    <2>1. Reading' = Reading /\ Writing' = Writing \cup {t}
        BY <1>0, <1>3 DEF PollWrite
    <2> QED
        BY <1>3, <1>a, <2>1 DEF PollWrite, Promise!RWNext
<1>4. ASSUME NEW t \in User,
             Announce(t) \/ FileFails(t) \/ Cancel(t) \/ Withdraw(t)
      PROVE  UNCHANGED Promise!rwVars
    BY <1>0, <1>4 DEF Announce, FileFails, Cancel, Withdraw, Promise!rwVars
<1>5. ASSUME NEW t \in User, Release(t)
      PROVE  Promise!RWNext
    <2>1. /\ t \in Reading \cup Writing
          /\ Reading' = Reading \ {t} /\ Writing' = Writing \ {t}
        BY <1>0, <1>5 DEF Release
    <2> QED
        BY <2>1 DEF Promise!RWNext, Promise!Leave
<1>6. ASSUME NEW p \in Process, Killed(p)
      PROVE  Promise!RWNext
    <2>1. Reading' = Reading \ Of(p) /\ Writing' = Writing \ Of(p)
        BY <1>0, <1>6 DEF Killed, Of
    <2> QED
        BY <2>1 DEF Promise!RWNext, Promise!Die, Promise!Of, Of
<1>7. ASSUME UNCHANGED lockVars
      PROVE  UNCHANGED Promise!rwVars
    BY <1>7 DEF lockVars, Promise!rwVars
<1> QED
    BY <1>1, <1>2, <1>3, <1>4, <1>5, <1>6, <1>7 DEF LockNext, LockStep

\* EnvironmentLock, with its polls, counters, lock file and crashes, implements
\* the readers/writer lock that RWLock states.
THEOREM Implementation == LockSpec => ImplementsRWLock
<1>1. LockInit => Promise!RWInit
    BY DEF LockInit, Reading, Writing, Promise!RWInit
<1> QED
    BY <1>1, LockInvariance, StepKeepsPromise, PTL
       DEF LockSpec, ImplementsRWLock, Promise!RWSpec

-----------------------------------------------------------------------------
(* SandboxInstall.                                                         *)

\* Where a task is when it installs, from just before pip to the last marker.
Changing == {"pip", "pipping", "touch", "clear", "drop", "demand"}

\* A task is inside an environment: it has the lock that it took, in the half that it
\* asked for.
Within(t) ==
    \/ pc[t] \in Changing \cup {"recheck", "running"}
    \/ pc[t] \in {"ensure", "look"} /\ phase[t] \in {"once", "deps"}

\* Where a task can be in each phase, and what it has left to do there.
InOrder(t) ==
    /\ pc[t] = "recheck" => phase[t] = "prepare"
    /\ pc[t] = "wait" => phase[t] # "deps"
    /\ pc[t] = "running" => phase[t] = "run"
    /\ phase[t] = "run" => pc[t] \in {"idle", "wait", "running"}
    /\ pc[t] \in Changing \cup {"look", "recheck"} => todo[t] # <<>>
    /\ pc[t] = "wait" /\ phase[t] = "prepare" => todo[t] # <<>>
    /\ phase[t] = "prepare" /\ pc[t] \in Changing \cup {"wait", "look", "recheck"} =>
           setting.sessionOf[t] = NoSession
    /\ phase[t] \in {"once", "prepare"} /\ (pc[t] = "wait" \/ Within(t)) =>
           write[t] /\ lockOn[t] = Base

\* Every task is somewhere it can be.
ControlOK == \A t \in Task : InOrder(t)

\* The locks are had by the tasks inside, and a task that may write is alone.
LocksOK ==
    \A e \in Environment :
        /\ writing[e] = {t \in Task : Within(t) /\ write[t] /\ lockOn[t] = e}
        /\ reading[e] = {t \in Task : Within(t) /\ ~write[t] /\ lockOn[t] = e}
        /\ \A t \in writing[e] : writing[e] = {t} /\ reading[e] = {}

\* What a task knows of its session: which lock, and which half of it, is still what
\* it should have asked for, and a wrapper runs out of the environment that is locked.
AsAsked(t) ==
    /\ pc[t] = "wait" /\ phase[t] = "run" =>
           write[t] = NeedsInstall(t) /\ lockOn[t] = RunsOutOf(t)
    /\ pc[t] # "idle" /\ phase[t] = "deps" =>
           write[t] /\ lockOn[t] = Venv /\ RunsOutOf(t) = Venv
    /\ pc[t] = "running" => runsIn[t] = lockOn[t] /\ runsIn[t] = RunsOutOf(t)

\* Every task knows its session.
SessionsOK == \A t \in Task : AsAsked(t)

\* The invariant behind InstallsAreAlone.
AloneInv == TypeOK /\ ControlOK /\ LocksOK /\ SessionsOK

\* What a task without a wait between reading and acting has read is so.
ForceOK ==
    \A t \in Task :
        phase[t] \in {"once", "deps"} =>
            /\ pc[t] \in {"look", "pip"} => (force[t] <=> Head(todo[t]) \in reassert[At(t)])
            /\ pc[t] = "pip" => force[t] \/ Head(todo[t]) \notin guard[At(t)]

-----------------------------------------------------------------------------
(* The state is well typed.                                                *)

\* What is left of a list of packages.
LEMMA TailTypes ==
    ASSUME NEW q \in Seq(Package), q # <<>>
    PROVE  /\ Head(q) \in Package /\ Tail(q) \in Seq(Package)
           /\ Range(q) = {Head(q)} \cup Range(Tail(q))
<1>1. Head(q) \in Package /\ Tail(q) \in Seq(Package) /\ Len(q) \in Nat \ {0}
  BY HeadTailProperties, EmptySeq, LenProperties
<1>2. /\ DOMAIN q = 1 .. Len(q) /\ DOMAIN Tail(q) = 1 .. Len(q) - 1
      /\ Head(q) = q[1] /\ \A i \in 1 .. Len(q) - 1 : Tail(q)[i] = q[i + 1]
  BY <1>1, HeadTailProperties, LenProperties
<1>3. \A i \in 1 .. Len(q) : i = 1 \/ (i - 1 \in 1 .. Len(q) - 1 /\ q[i] = Tail(q)[i - 1])
  BY <1>1, <1>2
<1>4. \A i \in 1 .. Len(q) - 1 : i + 1 \in 1 .. Len(q)
  BY <1>1
<1>5. 1 \in DOMAIN q
  BY <1>1, <1>2
<1>6. ASSUME NEW x \in Range(q) PROVE x \in {Head(q)} \cup Range(Tail(q))
  <2>1. PICK i \in 1 .. Len(q) : q[i] = x
    BY <1>2 DEF Range
  <2>2. i = 1 \/ (i - 1 \in DOMAIN Tail(q) /\ Tail(q)[i - 1] = x)
    BY <1>2, <1>3, <2>1
  <2> QED
    BY <1>2, <2>1, <2>2 DEF Range
<1>7. ASSUME NEW x \in Range(Tail(q)) PROVE x \in Range(q)
  <2>1. PICK i \in 1 .. Len(q) - 1 : q[i + 1] = x
    BY <1>2 DEF Range
  <2> QED
    BY <1>2, <1>4, <2>1 DEF Range
<1>8. Head(q) \in Range(q)
  BY <1>2, <1>5 DEF Range
<1> QED
  BY <1>1, <1>6, <1>7, <1>8

\* What is declared to a session joins what was declared before.
LEMMA AppendTypes ==
    ASSUME NEW q \in Seq(Package), NEW p \in Package
    PROVE  Append(q, p) \in Seq(Package) /\ Range(Append(q, p)) = Range(q) \cup {p}
<1>1. /\ Append(q, p) \in Seq(Package) /\ Len(Append(q, p)) = Len(q) + 1 /\ Len(q) \in Nat
      /\ \A i \in 1 .. Len(q) : Append(q, p)[i] = q[i]
      /\ Append(q, p)[Len(q) + 1] = p
  BY AppendProperties, LenProperties
<1>2. DOMAIN q = 1 .. Len(q) /\ DOMAIN Append(q, p) = 1 .. Len(q) + 1
  BY <1>1, LenProperties
<1>3. 1 .. Len(q) + 1 = 1 .. Len(q) \cup {Len(q) + 1}
  BY <1>1
<1> QED
  BY <1>1, <1>2, <1>3 DEF Range

\* What TypeOK says of each variable.
LEMMA Types ==
    TypeOK <=>
        /\ setting \in Setting /\ exists \in [Environment -> BOOLEAN]
        /\ guard \in [Environment -> SUBSET Package]
        /\ reassert \in [Environment -> SUBSET Package]
        /\ recorded \in [Environment -> SUBSET Package]
        /\ intact \in [Environment -> SUBSET Package]
        /\ initialized \in BOOLEAN /\ provisioned \in BOOLEAN
        /\ deps \in [Session -> Seq(Package)] /\ installed \in [Session -> SUBSET Package]
        /\ dirty \in [Session -> BOOLEAN]
        /\ reading \in [Environment -> SUBSET Task] /\ writing \in [Environment -> SUBSET Task]
        /\ pc \in [Task -> Places] /\ phase \in [Task -> {"once", "prepare", "run", "deps"}]
        /\ todo \in [Task -> Seq(Package)]
        /\ force \in [Task -> BOOLEAN] /\ write \in [Task -> BOOLEAN]
        /\ lockOn \in [Task -> Environment] /\ runsIn \in [Task -> Environment]
        /\ renders \in [Task -> 0 .. Renders] /\ crashes \in 0 .. setting.maxCrashes
BY DEF TypeOK

\* The sandbox and its tasks start out well typed.
LEMMA InitTypes == Init => TypeOK
<1> SUFFICES ASSUME Init PROVE TypeOK
  OBVIOUS
<1>1. /\ Clobbers \in [Package -> SUBSET Package] /\ Brings \in [Package -> SUBSET Package]
      /\ SettingOK(setting) /\ Renders \in Nat
  BY SandboxAssumption DEF Init
<1>2. \A P \in SUBSET Package : /\ Dependents(P, Clobbers) \in SUBSET Package
                                /\ Dependents(P, Brings) \in SUBSET Package
  BY <1>1 DEF Dependents
<1>3. /\ reassert \in [Environment -> SUBSET Package]
      /\ recorded \in [Environment -> SUBSET Package]
      /\ intact \in [Environment -> SUBSET Package]
  BY <1>2 DEF Init
<1>4. <<>> \in Seq(Package)
  OBVIOUS
<1>5. guard \in [Environment -> SUBSET Package] /\ setting \in Setting
  BY DEF Init
<1>6. /\ exists \in [Environment -> BOOLEAN] /\ initialized \in BOOLEAN
      /\ deps \in [Session -> Seq(Package)] /\ installed \in [Session -> SUBSET Package]
      /\ dirty \in [Session -> BOOLEAN] /\ provisioned \in BOOLEAN
  BY <1>4 DEF Init, Environment
<1>7. /\ reading \in [Environment -> SUBSET Task] /\ writing \in [Environment -> SUBSET Task]
      /\ pc \in [Task -> Places] /\ phase \in [Task -> {"once", "prepare", "run", "deps"}]
      /\ todo \in [Task -> Seq(Package)]
      /\ force \in [Task -> BOOLEAN] /\ write \in [Task -> BOOLEAN]
      /\ lockOn \in [Task -> Environment] /\ runsIn \in [Task -> Environment]
  BY <1>4 DEF Init, Places, Environment
<1>8. renders \in [Task -> 0 .. Renders] /\ crashes \in 0 .. setting.maxCrashes
  BY <1>1 DEF Init, SettingOK
<1> QED
  BY <1>3, <1>5, <1>6, <1>7, <1>8, Types

\* What a task is told to do is one of the settings, and its session is one.
LEMMA SettingTypes ==
    ASSUME TypeOK, NEW t \in Task
    PROVE  /\ SettingOK(setting) /\ setting.needs[t] \in Seq(Package)
           /\ setting.sessionOf[t] \in Session \cup {NoSession}
           /\ t \in setting.runsInSession => setting.sessionOf[t] \in Session
           /\ At(t) \in Environment /\ RunsOutOf(t) \in Environment
           /\ Base \in Environment /\ Venv \in Environment /\ Base # Venv
BY SandboxAssumption
DEF TypeOK, SettingOK, At, RunsOutOf, Environment, Base, Venv

\* What pip puts and breaks are packages.
LEMMA PipTypes ==
    ASSUME TypeOK, NEW p \in Package, NEW e \in Environment, NEW f \in BOOLEAN
    PROVE  /\ Puts(p, e, f) \in SUBSET Package /\ Breaks(p, e, f) \in SUBSET Package
           /\ Clobbers[p] \in SUBSET Package
BY SandboxAssumption, Types DEF Puts, Breaks

\* Every step keeps the state well typed.
LEMMA StepTypes == TypeOK /\ ControlOK /\ [Next]_vars => TypeOK'
<1> SUFFICES ASSUME TypeOK, ControlOK, [Next]_vars PROVE TypeOK'
  OBVIOUS
<1> USE DEF Go, Places, Changing
<1> DEFINE T == /\ setting \in Setting /\ exists \in [Environment -> BOOLEAN]
                /\ guard \in [Environment -> SUBSET Package]
                /\ reassert \in [Environment -> SUBSET Package]
                /\ recorded \in [Environment -> SUBSET Package]
                /\ intact \in [Environment -> SUBSET Package]
           M == /\ initialized \in BOOLEAN /\ provisioned \in BOOLEAN
                /\ deps \in [Session -> Seq(Package)] /\ installed \in [Session -> SUBSET Package]
                /\ dirty \in [Session -> BOOLEAN]
           L == /\ reading \in [Environment -> SUBSET Task]
                /\ writing \in [Environment -> SUBSET Task]
           C == /\ pc \in [Task -> Places]
                /\ phase \in [Task -> {"once", "prepare", "run", "deps"}]
           Q == todo \in [Task -> Seq(Package)]
           D == /\ force \in [Task -> BOOLEAN] /\ write \in [Task -> BOOLEAN]
                /\ lockOn \in [Task -> Environment] /\ runsIn \in [Task -> Environment]
           R == renders \in [Task -> 0 .. Renders] /\ crashes \in 0 .. setting.maxCrashes
<1>0. T /\ M /\ L /\ C /\ Q /\ D /\ R
  BY Types
<1>t. T
  BY <1>0
<1>m. M
  BY <1>0
<1>l. L
  BY <1>0
<1>c. C
  BY <1>0
<1>q. Q
  BY <1>0
<1>d. D
  BY <1>0
<1>r. R
  BY <1>0
<1>1. SUFFICES T' /\ M' /\ L' /\ C' /\ Q' /\ D' /\ R'
  BY DEF TypeOK
<1>2. CASE UNCHANGED vars \/ Terminated
  BY <1>0, <1>2 DEF vars, Terminated, disk, memory, locks, control, counts
<1>3. CASE Crash
  <2>1. T' /\ D' /\ L'
    BY <1>0, <1>3 DEF Crash, disk
  <2>2. M' /\ C' /\ Q'
    BY <1>0, <1>3, SettingTypes, EmptySeq DEF Crash, Base, Environment
  <2>3. R'
    BY <1>0, <1>3, SandboxAssumption DEF Crash, SettingOK
  <2> QED
    BY <2>1, <2>2, <2>3
<1>4. ASSUME NEW t \in Task, Begin(t) \/ Step(t) PROVE T' /\ M' /\ L' /\ C' /\ Q' /\ D' /\ R'
  <2> DEFINE p == Head(todo[t])
             e == At(t)
             s == setting.sessionOf[t]
  <2>0. /\ setting.needs[t] \in Seq(Package) /\ s \in Session \cup {NoSession}
        /\ (t \in setting.runsInSession => s \in Session) /\ e \in Environment
        /\ RunsOutOf(t) \in Environment /\ Base \in Environment /\ Venv \in Environment
        /\ Preinstall \in Seq(Package) /\ <<>> \in Seq(Package)
    BY SettingTypes, SandboxAssumption, EmptySeq
  <2>1. todo[t] # <<>> => p \in Package /\ Tail(todo[t]) \in Seq(Package)
    BY <1>0, TailTypes
  <2>2. CASE Begin(t)
    <3>1. T' /\ M' /\ L'
      BY <2>2, <1>t, <1>m, <1>l DEF Begin, disk, memory, locks
    <3>2. C'
      BY <2>2, <1>c DEF Begin, StartPreparing
    <3>3. Q'
      BY <2>2, <1>q, <2>0 DEF Begin, StartPreparing
    <3>4. D'
      BY <2>2, <1>d, <2>0 DEF Begin
    <3>5. R'
      BY <2>2, <1>r, SandboxAssumption DEF Begin
    <3> QED
      BY <3>1, <3>2, <3>3, <3>4, <3>5
  <2>3. CASE EnterOnce(t) \/ FinishOnce(t)
    <3>1. T' /\ M'
      BY <2>3, <1>t, <1>m, <2>0 DEF EnterOnce, FinishOnce, disk, memory, counts
    <3>2. L'
      BY <2>3, <1>l, <2>0 DEF EnterOnce, FinishOnce, Acquire, ReleaseLock
    <3>3. C'
      BY <2>3, <1>c DEF EnterOnce, FinishOnce, StartPreparing
    <3>4. Q'
      BY <2>3, <1>q, <2>0 DEF EnterOnce, FinishOnce, StartPreparing
    <3>5. D' /\ R'
      BY <2>3, <1>d, <1>r DEF EnterOnce, FinishOnce, counts
    <3> QED
      BY <3>1, <3>2, <3>3, <3>4, <3>5
  <2>4. CASE Declare(t)
    <3>1. p \in Package /\ Tail(todo[t]) \in Seq(Package) /\ s \in Session
      BY <2>0, <2>1, <2>4 DEF Declare
    <3>2. M'
      BY <2>4, <1>m, <3>1, AppendTypes DEF Declare
    <3>3. Q'
      BY <2>4, <1>q, <3>1 DEF Declare
    <3>4. T' /\ L' /\ C' /\ D' /\ R'
      BY <2>4, <1>t, <1>l, <1>c, <1>d, <1>r DEF Declare, disk, locks, counts
    <3> QED
      BY <3>2, <3>3, <3>4
  <2>5. CASE ReadReassert(t) \/ Look(t)
    <3>1. Tail(todo[t]) \in Seq(Package)
      BY <2>1, <2>5 DEF ReadReassert, Look, ControlOK, InOrder
    <3>2. T' /\ M' /\ L' /\ R'
      BY <2>5, <1>t, <1>m, <1>l, <1>r DEF ReadReassert, Look, disk, memory, locks, counts
    <3>3. C'
      BY <2>5, <1>c DEF ReadReassert, Look
    <3>4. Q'
      BY <2>5, <1>q, <3>1 DEF ReadReassert, Look
    <3>5. D'
      <4>1. CASE ReadReassert(t)
        <5> DEFINE b == p \in reassert[e]
        <5>1. b \in BOOLEAN /\ force' = [force EXCEPT ![t] = b]
          BY <4>1 DEF ReadReassert
        <5> HIDE DEF b
        <5> QED
          BY <4>1, <5>1, <1>d DEF ReadReassert
      <4>2. CASE Look(t)
        BY <4>2, <1>d, <2>0 DEF Look
      <4> QED
        BY <2>5, <4>1, <4>2
    <3> QED
      BY <3>2, <3>3, <3>4, <3>5
  <2>6. CASE EnterInstall(t) \/ Recheck(t)
    <3>1. Recheck(t) => Tail(todo[t]) \in Seq(Package)
      BY <2>1 DEF Recheck, ControlOK, InOrder
    <3>2. T' /\ M' /\ D' /\ R'
      BY <2>6, <1>t, <1>m, <1>d, <1>r DEF EnterInstall, Recheck, disk, memory, counts
    <3>3. C'
      BY <2>6, <1>c DEF EnterInstall, Recheck
    <3>4. Q'
      BY <2>6, <1>q, <3>1 DEF EnterInstall, Recheck
    <3>5. L'
      BY <2>6, <1>l, <2>0 DEF EnterInstall, Recheck, Acquire, ReleaseLock, locks
    <3> QED
      BY <3>2, <3>3, <3>4, <3>5
  <2>7. CASE PipStarts(t) \/ PipEnds(t) \/ PipFails(t)
    <3>1. PipStarts(t) \/ PipEnds(t) => p \in Package
      BY <2>1 DEF PipStarts, PipEnds, ControlOK, InOrder
    <3>2. p \in Package => /\ Puts(p, e, force[t]) \in SUBSET Package
                           /\ Breaks(p, e, force[t]) \in SUBSET Package
      BY <1>d, <2>0, PipTypes
    <3>3. T'
      BY <2>7, <1>t, <2>0, <3>1, <3>2 DEF PipStarts, PipEnds, PipFails, disk, counts
    <3>4. M' /\ L' /\ Q' /\ D' /\ R'
      BY <2>7, <1>m, <1>l, <1>q, <1>d, <1>r DEF PipStarts, PipEnds, PipFails, memory, locks, counts
    <3>5. C'
      BY <2>7, <1>c DEF PipStarts, PipEnds, PipFails
    <3> QED
      BY <3>3, <3>4, <3>5
  <2>8. CASE TouchGuard(t) \/ ClearReassert(t) \/ DropGuards(t) \/ DemandReassert(t)
    <3>1. p \in Package /\ Clobbers[p] \in SUBSET Package /\ Tail(todo[t]) \in Seq(Package)
      BY <2>1, <2>8, SandboxAssumption
      DEF TouchGuard, ClearReassert, DropGuards, DemandReassert, ControlOK, InOrder
    <3>2. T'
      BY <2>8, <1>t, <2>0, <3>1 DEF TouchGuard, ClearReassert, DropGuards, DemandReassert, counts
    <3>3. C'
      BY <2>8, <1>c DEF TouchGuard, ClearReassert, DropGuards, DemandReassert, PackageDone
    <3>4. Q'
      BY <2>8, <1>q, <3>1 DEF TouchGuard, ClearReassert, DropGuards, DemandReassert, PackageDone
    <3>5. L'
      BY <2>8, <1>l DEF TouchGuard, ClearReassert, DropGuards, DemandReassert, PackageDone, ReleaseLock, locks
    <3>6. M' /\ D' /\ R'
      BY <2>8, <1>m, <1>d, <1>r DEF TouchGuard, ClearReassert, DropGuards, DemandReassert, memory, counts
    <3> QED
      BY <3>2, <3>3, <3>4, <3>5, <3>6
  <2>9. CASE AskToRun(t) \/ EnterRun(t)
    <3>1. NeedsInstall(t) \in BOOLEAN /\ (NeedsInstall(t) => deps[s] \in Seq(Package))
      BY <1>m, <2>0 DEF NeedsInstall
    <3>2. T' /\ M' /\ R'
      BY <2>9, <1>t, <1>m, <1>r, <2>0 DEF AskToRun, EnterRun, disk, memory, counts
    <3>3. C'
      BY <2>9, <1>c DEF AskToRun, EnterRun
    <3>4. Q'
      BY <2>9, <1>q, <3>1 DEF AskToRun, EnterRun
    <3>5. L'
      <4>1. CASE AskToRun(t)
        BY <4>1, <1>l DEF AskToRun, locks
      <4>2. CASE EnterRun(t)
        <5>1. Acquire(t, lockOn[t], write[t])
          BY <4>2 DEF EnterRun
        <5> QED
          BY <5>1, <1>l DEF Acquire
      <4> QED
        BY <2>9, <4>1, <4>2
    <3>6. D'
      BY <2>9, <1>d, <2>0, <3>1 DEF AskToRun, EnterRun
    <3> QED
      BY <3>2, <3>3, <3>4, <3>5, <3>6
  <2>10. CASE DepsInstalled(t) \/ RunEnds(t)
    <3>1. s \in Session => Range(deps[s]) \subseteq Package
      BY <1>m, LenProperties DEF Range
    <3>2. M'
      BY <2>10, <1>m, <3>1, ZenonT(60) DEF DepsInstalled, RunEnds, memory
    <3>3. T' /\ Q' /\ R'
      BY <2>10, <1>t, <1>q, <1>r DEF DepsInstalled, RunEnds, disk, counts
    <3>4. C'
      BY <2>10, <1>c DEF DepsInstalled, RunEnds
    <3>5. D'
      BY <2>10, <1>d, <2>0 DEF DepsInstalled, RunEnds
    <3>6. L'
      BY <2>10, <1>l DEF DepsInstalled, RunEnds, ReleaseLock, locks
    <3> QED
      BY <3>2, <3>3, <3>4, <3>5, <3>6
  <2> QED
    BY <1>4, <2>2, <2>3, <2>4, <2>5, <2>6, <2>7, <2>8, <2>9, <2>10 DEF Step
<1> QED
  BY <1>2, <1>3, <1>4 DEF Next

-----------------------------------------------------------------------------
(* Who installs has the environment to itself.                             *)

\* A task moves by itself.
LEMMA OthersStay ==
    ASSUME TypeOK, NEW t \in Task, Begin(t) \/ Step(t), NEW u \in Task, u # t
    PROVE  /\ pc'[u] = pc[u] /\ phase'[u] = phase[u] /\ todo'[u] = todo[u]
           /\ force'[u] = force[u] /\ lockOn'[u] = lockOn[u] /\ write'[u] = write[u]
           /\ runsIn'[u] = runsIn[u]
<1>1. /\ pc \in [Task -> Places] /\ phase \in [Task -> {"once", "prepare", "run", "deps"}]
      /\ todo \in [Task -> Seq(Package)] /\ force \in [Task -> BOOLEAN]
      /\ lockOn \in [Task -> Environment] /\ write \in [Task -> BOOLEAN]
      /\ runsIn \in [Task -> Environment]
  BY Types
<1> USE DEF Go
<1>2. CASE Begin(t)
  BY <1>1, <1>2 DEF Begin, StartPreparing
<1>3. CASE EnterOnce(t) \/ FinishOnce(t)
  BY <1>1, <1>3 DEF EnterOnce, FinishOnce, StartPreparing
<1>4. CASE Declare(t) \/ ReadReassert(t) \/ Look(t)
  BY <1>1, <1>4 DEF Declare, ReadReassert, Look
<1>5. CASE EnterInstall(t) \/ Recheck(t)
  BY <1>1, <1>5 DEF EnterInstall, Recheck
<1>6. CASE PipStarts(t) \/ PipEnds(t) \/ PipFails(t)
  BY <1>1, <1>6 DEF PipStarts, PipEnds, PipFails
<1>7. CASE TouchGuard(t) \/ ClearReassert(t) \/ DropGuards(t) \/ DemandReassert(t)
  BY <1>1, <1>7 DEF TouchGuard, ClearReassert, DropGuards, DemandReassert, PackageDone
<1>8. CASE AskToRun(t) \/ EnterRun(t) \/ DepsInstalled(t) \/ RunEnds(t)
  BY <1>1, <1>8 DEF AskToRun, EnterRun, DepsInstalled, RunEnds
<1> QED
  BY <1>2, <1>3, <1>4, <1>5, <1>6, <1>7, <1>8 DEF Step

\* What there is to do does not change.
LEMMA SettingStays == [Next]_vars => setting' = setting
<1>1. ASSUME NEW t \in Task, Begin(t) \/ Step(t) PROVE setting' = setting
  <2>1. CASE Begin(t) \/ EnterOnce(t) \/ FinishOnce(t) \/ Declare(t) \/ ReadReassert(t) \/ Look(t)
    BY <2>1 DEF Begin, EnterOnce, FinishOnce, Declare, ReadReassert, Look, counts
  <2>2. CASE EnterInstall(t) \/ Recheck(t) \/ PipStarts(t) \/ PipEnds(t) \/ PipFails(t)
    BY <2>2 DEF EnterInstall, Recheck, PipStarts, PipEnds, PipFails, counts
  <2>3. CASE TouchGuard(t) \/ ClearReassert(t) \/ DropGuards(t) \/ DemandReassert(t)
    BY <2>3 DEF TouchGuard, ClearReassert, DropGuards, DemandReassert, counts
  <2>4. CASE AskToRun(t) \/ EnterRun(t) \/ DepsInstalled(t) \/ RunEnds(t)
    BY <2>4 DEF AskToRun, EnterRun, DepsInstalled, RunEnds, counts
  <2> QED
    BY <1>1, <2>1, <2>2, <2>3, <2>4 DEF Step
<1> QED
  BY <1>1 DEF Next, vars, counts, Crash, Terminated

\* Every step leaves its task in order.
LEMMA StepControl == TypeOK /\ ControlOK /\ [Next]_vars => ControlOK'
<1> SUFFICES ASSUME TypeOK, ControlOK, [Next]_vars, NEW u \in Task PROVE InOrder(u)'
  BY DEF ControlOK
<1> USE DEF Go, Changing
<1>1. setting' = setting
  BY SettingStays
<1>2. InOrder(u)
  BY DEF ControlOK
<1>3. CASE UNCHANGED vars \/ Terminated
  BY <1>2, <1>3 DEF InOrder, Within, vars, Terminated, disk, memory, locks, control, counts
<1>4. CASE Crash
  BY <1>4 DEF Crash, InOrder, Within
<1>5. ASSUME NEW t \in Task, Begin(t) \/ Step(t), u # t PROVE InOrder(u)'
  BY <1>1, <1>2, <1>5, OthersStay DEF InOrder, Within
<1>6. ASSUME Begin(u) \/ Step(u) PROVE InOrder(u)'
  <2>1. /\ pc \in [Task -> Places] /\ phase \in [Task -> {"once", "prepare", "run", "deps"}]
        /\ todo \in [Task -> Seq(Package)] /\ lockOn \in [Task -> Environment]
        /\ write \in [Task -> BOOLEAN]
    BY Types
  <2> USE DEF InOrder, Within
  <2>2. CASE Begin(u)
    BY <1>1, <1>2, <2>1, <2>2 DEF Begin, StartPreparing
  <2>3. CASE EnterOnce(u) \/ FinishOnce(u)
    BY <1>1, <1>2, <2>1, <2>3 DEF EnterOnce, FinishOnce, StartPreparing
  <2>4. CASE Declare(u)
    BY <1>1, <1>2, <2>1, <2>4 DEF Declare
  <2>5. CASE ReadReassert(u)
    BY <1>1, <1>2, <2>1, <2>5 DEF ReadReassert
  <2>6. CASE Look(u)
    BY <1>1, <1>2, <2>1, <2>6 DEF Look
  <2>7. CASE EnterInstall(u)
    BY <1>1, <1>2, <2>1, <2>7 DEF EnterInstall
  <2>12. CASE Recheck(u)
    <3>1. pc[u] = "recheck" /\ phase' = phase /\ lockOn' = lockOn /\ write' = write
      BY <2>12 DEF Recheck
    <3>2. \/ pc' = [pc EXCEPT ![u] = "ensure"]
          \/ pc' = [pc EXCEPT ![u] = "pip"] /\ todo' = todo
      BY <2>12 DEF Recheck
    <3> QED
      BY <1>1, <1>2, <2>1, <3>1, <3>2
  <2>8. CASE PipStarts(u) \/ PipEnds(u) \/ PipFails(u)
    BY <1>1, <1>2, <2>1, <2>8 DEF PipStarts, PipEnds, PipFails
  <2>9. CASE TouchGuard(u) \/ ClearReassert(u) \/ DropGuards(u) \/ DemandReassert(u)
    BY <1>1, <1>2, <2>1, <2>9
    DEF TouchGuard, ClearReassert, DropGuards, DemandReassert, PackageDone
  <2>10. CASE AskToRun(u) \/ EnterRun(u)
    BY <1>1, <1>2, <2>1, <2>10 DEF AskToRun, EnterRun
  <2>11. CASE DepsInstalled(u) \/ RunEnds(u)
    BY <1>1, <1>2, <2>1, <2>11 DEF DepsInstalled, RunEnds
  <2> QED
    BY <1>6, <2>2, <2>3, <2>4, <2>5, <2>6, <2>7, <2>8, <2>9, <2>10, <2>11, <2>12 DEF Step
<1> QED
  BY <1>3, <1>4, <1>5, <1>6 DEF Next

\* Every reachable state of the sandbox is well typed.
THEOREM TypeCorrect == Spec => []TypeOK
<1>1. Init => ControlOK
  BY DEF Init, ControlOK, InOrder, Within, Changing
<1> QED
  BY InitTypes, StepTypes, StepControl, <1>1, PTL DEF Spec

\* The tasks that are inside stay the same ones, with the same locks.
LEMMA LocksStay ==
    ASSUME LocksOK, reading' = reading, writing' = writing,
           \A u \in Task : /\ Within(u)' <=> Within(u)
                           /\ Within(u) => write'[u] = write[u] /\ lockOn'[u] = lockOn[u]
    PROVE  LocksOK'
<1> SUFFICES ASSUME NEW e \in Environment
             PROVE  /\ writing[e] = {t \in Task : Within(t)' /\ write'[t] /\ lockOn'[t] = e}
                    /\ reading[e] = {t \in Task : Within(t)' /\ ~write'[t] /\ lockOn'[t] = e}
  BY DEF LocksOK
<1>1. /\ writing[e] = {t \in Task : Within(t) /\ write[t] /\ lockOn[t] = e}
      /\ reading[e] = {t \in Task : Within(t) /\ ~write[t] /\ lockOn[t] = e}
  BY DEF LocksOK
<1> HIDE DEF Within
<1> QED
  BY <1>1

\* A task gets the lock that it asked for (sync_lock).
LEMMA LockTaken ==
    ASSUME TypeOK, LocksOK, NEW t \in Task, ~Within(t), Within(t)',
           Acquire(t, lockOn[t], write[t]), write' = write, lockOn' = lockOn,
           \A u \in Task \ {t} : Within(u)' <=> Within(u)
    PROVE  LocksOK'
<1> SUFFICES ASSUME NEW e \in Environment
             PROVE  /\ writing'[e] = {u \in Task : Within(u)' /\ write[u] /\ lockOn[u] = e}
                    /\ reading'[e] = {u \in Task : Within(u)' /\ ~write[u] /\ lockOn[u] = e}
                    /\ \A u \in writing'[e] : writing'[e] = {u} /\ reading'[e] = {}
  BY DEF LocksOK
<1>1. /\ writing[e] = {u \in Task : Within(u) /\ write[u] /\ lockOn[u] = e}
      /\ reading[e] = {u \in Task : Within(u) /\ ~write[u] /\ lockOn[u] = e}
      /\ \A u \in writing[e] : writing[e] = {u} /\ reading[e] = {}
  BY DEF LocksOK
<1>2. /\ reading \in [Environment -> SUBSET Task] /\ writing \in [Environment -> SUBSET Task]
      /\ lockOn[t] \in Environment /\ write[t] \in BOOLEAN
  BY Types
<1>3. CASE lockOn[t] # e
  <2>1. writing'[e] = writing[e] /\ reading'[e] = reading[e]
    BY <1>2, <1>3 DEF Acquire
  <2> QED
    BY <1>1, <1>3, <2>1
<1>4. CASE lockOn[t] = e /\ write[t]
  <2>1. writing'[e] = {t} /\ reading'[e] = {} /\ writing[e] = {} /\ reading[e] = {}
    BY <1>2, <1>4 DEF Acquire
  <2> QED
    BY <1>1, <1>4, <2>1
<1>5. CASE lockOn[t] = e /\ ~write[t]
  <2>1. writing'[e] = {} /\ reading'[e] = reading[e] \cup {t} /\ writing[e] = {}
    BY <1>2, <1>5 DEF Acquire
  <2> QED
    BY <1>1, <1>5, <2>1
<1> QED
  BY <1>3, <1>4, <1>5

\* A task gives its lock back (sync_lock).
LEMMA LockLeft ==
    ASSUME TypeOK, LocksOK, NEW t \in Task, ~Within(t)', ReleaseLock(t),
           \A u \in Task \ {t} : /\ Within(u)' <=> Within(u)
                                 /\ write'[u] = write[u] /\ lockOn'[u] = lockOn[u]
    PROVE  LocksOK'
<1> SUFFICES ASSUME NEW e \in Environment
             PROVE  /\ writing'[e] = {u \in Task : Within(u)' /\ write'[u] /\ lockOn'[u] = e}
                    /\ reading'[e] = {u \in Task : Within(u)' /\ ~write'[u] /\ lockOn'[u] = e}
                    /\ \A u \in writing'[e] : writing'[e] = {u} /\ reading'[e] = {}
  BY DEF LocksOK
<1>1. /\ writing[e] = {u \in Task : Within(u) /\ write[u] /\ lockOn[u] = e}
      /\ reading[e] = {u \in Task : Within(u) /\ ~write[u] /\ lockOn[u] = e}
      /\ \A u \in writing[e] : writing[e] = {u} /\ reading[e] = {}
  BY DEF LocksOK
<1>2. writing'[e] = writing[e] \ {t} /\ reading'[e] = reading[e] \ {t}
  BY DEF ReleaseLock
<1> QED
  BY <1>1, <1>2

\* Every step keeps the locks with the tasks that are inside.
LEMMA StepLocks == TypeOK /\ ControlOK /\ LocksOK /\ [Next]_vars => LocksOK'
<1> SUFFICES ASSUME TypeOK, ControlOK, LocksOK, [Next]_vars PROVE LocksOK'
  OBVIOUS
<1>1. CASE UNCHANGED vars \/ Terminated
  BY <1>1 DEF LocksOK, Within, vars, Terminated, locks, control
<1>2. CASE Crash
  BY <1>2 DEF Crash, LocksOK, Within, Changing, Environment
<1>3. ASSUME NEW t \in Task, Begin(t) \/ Step(t) PROVE LocksOK'
  <2>1. \A u \in Task \ {t} : /\ Within(u)' <=> Within(u)
                              /\ write'[u] = write[u] /\ lockOn'[u] = lockOn[u]
    BY <1>3, OthersStay DEF Within
  <2>2. /\ pc \in [Task -> Places] /\ phase \in [Task -> {"once", "prepare", "run", "deps"}]
        /\ InOrder(t)
    BY Types DEF ControlOK
  <2> DEFINE Stays == /\ reading' = reading /\ writing' = writing
                      /\ Within(t)' <=> Within(t)
                      /\ Within(t) => write'[t] = write[t] /\ lockOn'[t] = lockOn[t]
             Taken == /\ ~Within(t) /\ Within(t)' /\ Acquire(t, lockOn[t], write[t])
                      /\ write' = write /\ lockOn' = lockOn
             Left == ~Within(t)' /\ ReleaseLock(t)
  <2>3. Stays => LocksOK'
    BY <2>1, LocksStay
  <2>4. Taken => LocksOK'
    BY <2>1, LockTaken
  <2>5. Left => LocksOK'
    BY <2>1, LockLeft
  <2> USE DEF Go, Within, Changing
  <2>6. CASE Begin(t) \/ Declare(t) \/ ReadReassert(t) \/ AskToRun(t)
    <3>1. Stays
      BY <2>2, <2>6 DEF Begin, StartPreparing, Declare, ReadReassert, AskToRun, locks
    <3> QED
      BY <2>3, <3>1
  <2>7. CASE Look(t)
    <3>1. Stays
      BY <2>2, <2>7 DEF Look, InOrder, locks
    <3> QED
      BY <2>3, <3>1
  <2>8. CASE EnterOnce(t) \/ EnterInstall(t)
    <3>1. lockOn[t] = Base /\ write[t] = TRUE
      BY <2>2, <2>8, Types DEF EnterOnce, EnterInstall, InOrder
    <3>2. Acquire(t, lockOn[t], write[t])
      BY <2>8, <3>1 DEF EnterOnce, EnterInstall
    <3>3. Taken
      BY <2>2, <2>8, <3>2 DEF EnterOnce, EnterInstall
    <3> QED
      BY <2>4, <3>3
  <2>9. CASE EnterRun(t)
    <3>1. Acquire(t, lockOn[t], write[t])
      BY <2>9 DEF EnterRun
    <3>2. Taken
      BY <2>2, <2>9, <3>1 DEF EnterRun
    <3> QED
      BY <2>4, <3>2
  <2>10. CASE FinishOnce(t) \/ RunEnds(t)
    <3>1. Left
      BY <2>2, <2>10 DEF FinishOnce, StartPreparing, RunEnds
    <3> QED
      BY <2>5, <3>1
  <2>11. CASE Recheck(t)
    <3>1. Stays \/ Left
      BY <2>2, <2>11 DEF Recheck, InOrder, locks
    <3> QED
      BY <2>3, <2>5, <3>1
  <2>12. CASE PipStarts(t) \/ PipEnds(t) \/ PipFails(t) \/ TouchGuard(t) \/ DropGuards(t)
    <3>1. Stays
      BY <2>2, <2>12 DEF PipStarts, PipEnds, PipFails, TouchGuard, DropGuards, locks
    <3> QED
      BY <2>3, <3>1
  <2>13. CASE ClearReassert(t) \/ DemandReassert(t)
    <3>1. Stays \/ Left
      BY <2>2, <2>13 DEF ClearReassert, DemandReassert, PackageDone, InOrder, locks
    <3> QED
      BY <2>3, <2>5, <3>1
  <2>14. CASE DepsInstalled(t)
    <3>1. Stays
      BY <2>2, <2>14 DEF DepsInstalled, locks
    <3> QED
      BY <2>3, <3>1
  <2> QED
    BY <1>3, <2>6, <2>7, <2>8, <2>9, <2>10, <2>11, <2>12, <2>13, <2>14 DEF Step
<1> QED
  BY <1>1, <1>2, <1>3 DEF Next

\* A task leaves the sessions of others alone.
LEMMA SessionsStay ==
    ASSUME TypeOK, NEW t \in Task, Begin(t) \/ Step(t), NEW s \in Session,
           s # setting.sessionOf[t]
    PROVE  deps'[s] = deps[s] /\ installed'[s] = installed[s] /\ dirty'[s] = dirty[s]
<1>1. /\ deps \in [Session -> Seq(Package)] /\ installed \in [Session -> SUBSET Package]
      /\ dirty \in [Session -> BOOLEAN]
  BY Types
<1>2. CASE Declare(t)
  BY <1>1, <1>2 DEF Declare
<1>3. CASE DepsInstalled(t)
  BY <1>1, <1>3 DEF DepsInstalled
<1>4. CASE ~Declare(t) /\ ~DepsInstalled(t)
  <2>1. deps' = deps /\ installed' = installed /\ dirty' = dirty
    BY <1>4 DEF Step, memory, Begin, EnterOnce, FinishOnce, ReadReassert, Look,
       EnterInstall, Recheck, PipStarts, PipEnds, PipFails, TouchGuard, ClearReassert,
       DropGuards, DemandReassert, AskToRun, EnterRun, RunEnds
  <2> QED
    BY <2>1
<1> QED
  BY <1>2, <1>3, <1>4

\* So what a task has still to install, and what it runs out of, is its own affair.
LEMMA OwnAnswers ==
    ASSUME OwnSessions, TypeOK, NEW t \in Task, Begin(t) \/ Step(t), NEW u \in Task, u # t
    PROVE  NeedsInstall(u)' = NeedsInstall(u) /\ RunsOutOf(u)' = RunsOutOf(u)
<1>1. setting' = setting
  BY SettingStays DEF Next
<1>2. CASE u \notin setting.runsInSession
  BY <1>1, <1>2 DEF NeedsInstall, RunsOutOf
<1>3. CASE u \in setting.runsInSession
  <2> DEFINE s == setting.sessionOf[u]
  <2>1. setting \in Setting /\ SettingOK(setting)
    BY SandboxAssumption, Types
  <2>2. s \in Session /\ s # setting.sessionOf[t]
    BY <1>3, <2>1 DEF SettingOK, OwnSessions
  <2>3. deps'[s] = deps[s] /\ installed'[s] = installed[s] /\ dirty'[s] = dirty[s]
    BY <2>2, SessionsStay
  <2> QED
    BY <1>1, <1>3, <2>3 DEF NeedsInstall, RunsOutOf
<1> QED
  BY <1>2, <1>3

\* A task gets the lock for what it finds there: nobody else changes its session while
\* it waits.
LEMMA StepSessions ==
    ASSUME OwnSessions, TypeOK, ControlOK, SessionsOK, [Next]_vars PROVE SessionsOK'
<1> SUFFICES ASSUME NEW u \in Task PROVE AsAsked(u)'
  BY DEF SessionsOK
<1>1. setting' = setting
  BY SettingStays
<1>2. AsAsked(u) /\ InOrder(u)
  BY DEF SessionsOK, ControlOK
<1>3. CASE UNCHANGED vars \/ Terminated
  <2>1. NeedsInstall(u)' = NeedsInstall(u) /\ RunsOutOf(u)' = RunsOutOf(u)
    BY <1>1, <1>3 DEF NeedsInstall, RunsOutOf, vars, Terminated, memory
  <2>2. UNCHANGED <<pc, phase, lockOn, write, runsIn>>
    BY <1>3 DEF vars, Terminated, control
  <2> QED
    BY <1>2, <2>1, <2>2 DEF AsAsked
<1>4. CASE Crash
  BY <1>4 DEF Crash, AsAsked
<1>5. ASSUME NEW t \in Task, Begin(t) \/ Step(t), u # t PROVE AsAsked(u)'
  BY <1>1, <1>2, <1>5, OthersStay, OwnAnswers DEF AsAsked
<1>6. ASSUME Begin(u) \/ Step(u) PROVE AsAsked(u)'
  <2>1. /\ pc \in [Task -> Places] /\ phase \in [Task -> {"once", "prepare", "run", "deps"}]
        /\ lockOn \in [Task -> Environment] /\ write \in [Task -> BOOLEAN]
        /\ runsIn \in [Task -> Environment]
    BY Types
  <2> DEFINE Asks == NeedsInstall(u)' = NeedsInstall(u) /\ RunsOutOf(u)' = RunsOutOf(u)
  <2>2. dirty' = dirty /\ deps' = deps /\ installed' = installed => Asks
    BY <1>1 DEF NeedsInstall, RunsOutOf
  <2> USE DEF Go
  <2>3. CASE Begin(u) \/ Declare(u) \/ FinishOnce(u)
    BY <2>1, <2>3 DEF Begin, StartPreparing, Declare, FinishOnce, AsAsked
  <2>4. CASE AskToRun(u)
    <3>1. Asks
      BY <2>2, <2>4 DEF AskToRun, memory
    <3>2. lockOn'[u] = RunsOutOf(u) /\ write'[u] = NeedsInstall(u)
      BY <2>1, <2>4 DEF AskToRun
    <3>3. pc'[u] = "wait" /\ phase'[u] = "run"
      BY <2>1, <2>4 DEF AskToRun
    <3> QED
      BY <3>1, <3>2, <3>3 DEF AsAsked
  <2>5. CASE EnterRun(u)
    <3>1. Asks
      BY <2>2, <2>5 DEF EnterRun, memory
    <3>2. lockOn'[u] = RunsOutOf(u) /\ write'[u] = NeedsInstall(u)
      BY <1>2, <2>5 DEF EnterRun, AsAsked
    <3>3. CASE NeedsInstall(u)
      <4>1. RunsOutOf(u) = Venv
        BY <3>3 DEF NeedsInstall, RunsOutOf
      <4>2. pc'[u] = "ensure" /\ phase'[u] = "deps"
        BY <2>1, <2>5, <3>3 DEF EnterRun
      <4> QED
        BY <3>1, <3>2, <3>3, <4>1, <4>2 DEF AsAsked
    <3>4. CASE ~NeedsInstall(u)
      <4>1. pc'[u] = "running" /\ phase'[u] = "run" /\ runsIn'[u] = RunsOutOf(u)
        BY <2>1, <2>5, <3>4 DEF EnterRun
      <4> QED
        BY <3>1, <3>2, <4>1 DEF AsAsked
    <3> QED
      BY <3>3, <3>4
  <2>6. CASE DepsInstalled(u)
    <3>1. RunsOutOf(u)' = RunsOutOf(u)
      BY <1>1, <2>6 DEF DepsInstalled, RunsOutOf
    <3>2. pc[u] = "ensure" /\ phase[u] = "deps" /\ lockOn' = lockOn
      BY <2>6 DEF DepsInstalled
    <3>3. pc'[u] = "running" /\ phase'[u] = "run" /\ runsIn'[u] = Venv
      BY <2>1, <2>6 DEF DepsInstalled
    <3> QED
      BY <1>2, <3>1, <3>2, <3>3 DEF AsAsked
  <2>7. CASE Look(u)
    <3>1. Asks
      BY <2>2, <2>7 DEF Look, memory
    <3>2. phase' = phase /\ pc[u] = "look"
      BY <2>7 DEF Look
    <3>3. CASE phase[u] = "deps"
      <4>1. lockOn' = lockOn /\ write' = write
        BY <2>7, <3>3 DEF Look
      <4>2. pc'[u] # "wait" /\ pc'[u] # "running"
        BY <2>1, <2>7, <3>3 DEF Look
      <4> QED
        BY <1>2, <3>1, <3>2, <3>3, <4>1, <4>2 DEF AsAsked
    <3>4. CASE phase[u] # "deps"
      <4>1. pc'[u] # "running" /\ phase[u] # "run"
        BY <1>2, <2>1, <2>7, <3>2 DEF Look, InOrder
      <4> QED
        BY <3>2, <3>4, <4>1 DEF AsAsked
    <3> QED
      BY <3>3, <3>4
  <2>8. CASE \/ EnterOnce(u) \/ ReadReassert(u) \/ EnterInstall(u) \/ Recheck(u)
             \/ PipStarts(u) \/ PipEnds(u) \/ PipFails(u) \/ TouchGuard(u)
             \/ ClearReassert(u) \/ DropGuards(u) \/ DemandReassert(u) \/ RunEnds(u)
    <3>1. Asks
      BY <2>2, <2>8 DEF memory, EnterOnce, ReadReassert, EnterInstall, Recheck, PipStarts,
         PipEnds, PipFails, TouchGuard, ClearReassert, DropGuards, DemandReassert, RunEnds
    <3>2. phase' = phase /\ lockOn' = lockOn /\ write' = write /\ pc[u] # "idle"
      BY <2>8 DEF EnterOnce, ReadReassert, EnterInstall, Recheck, PipStarts,
         PipEnds, PipFails, TouchGuard, ClearReassert, DropGuards, DemandReassert, RunEnds
    <3>3. pc'[u] # "wait" /\ pc'[u] # "running"
      BY <2>1, <2>8 DEF EnterOnce, ReadReassert, EnterInstall, Recheck, PipStarts,
         PipEnds, PipFails, TouchGuard, ClearReassert, DropGuards, DemandReassert, RunEnds,
         PackageDone
    <3> QED
      BY <1>2, <3>1, <3>2, <3>3 DEF AsAsked
  <2> QED
    BY <1>6, <2>3, <2>4, <2>5, <2>6, <2>7, <2>8 DEF Step
<1> QED
  BY <1>3, <1>4, <1>5, <1>6 DEF Next

\* A task that changes an environment has the lock over it, and has it for writing.
LEMMA ChangersAreAlone ==
    ASSUME AloneInv, NEW t \in Task, NEW e \in Environment, At(t) = e,
           \/ pc[t] \in Changing
           \/ pc[t] \in {"ensure", "look"} /\ phase[t] \in {"once", "deps"}
    PROVE  /\ t \in writing[e] /\ writing[e] = {t} /\ reading[e] = {}
           /\ \A u \in Task : Within(u) /\ lockOn[u] = e => u = t
<1>1. InOrder(t) /\ AsAsked(t) /\ phase[t] \in {"once", "prepare", "run", "deps"}
  BY Types DEF AloneInv, ControlOK, SessionsOK
<1>2. Within(t) /\ write[t] /\ lockOn[t] = e
  BY <1>1 DEF InOrder, AsAsked, Within, Changing, At
<1>3. /\ writing[e] = {u \in Task : Within(u) /\ write[u] /\ lockOn[u] = e}
      /\ reading[e] = {u \in Task : Within(u) /\ ~write[u] /\ lockOn[u] = e}
      /\ \A u \in writing[e] : writing[e] = {u} /\ reading[e] = {}
  BY DEF AloneInv, LocksOK
<1> QED
  BY <1>2, <1>3

\* AloneInv holds of every reachable state.
LEMMA AlwaysAlone == ASSUME OwnSessions PROVE Spec => []AloneInv
<1>1. Init => AloneInv
  <2>1. Init => ControlOK /\ LocksOK /\ SessionsOK
    BY DEF Init, ControlOK, InOrder, LocksOK, Within, Changing, SessionsOK, AsAsked,
       Environment
  <2> QED
    BY <2>1, InitTypes DEF AloneInv
<1>2. AloneInv /\ [Next]_vars => AloneInv'
  BY StepTypes, StepControl, StepLocks, StepSessions DEF AloneInv
<1> QED
  BY <1>1, <1>2, PTL DEF Spec

\* Who installs is alone in the environment (session_needs_install, sync_lock), whatever
\* the tasks need and whatever fails, as long as no two tasks share a session.
THEOREM InstallsAreAlone ==
    ASSUME OwnSessions PROVE Spec => []InstallsHoldTheEnvironment
<1>1. AloneInv => InstallsHoldTheEnvironment
  <2> SUFFICES ASSUME AloneInv, NEW e \in Environment, NEW t \in Installing(e)
               PROVE  /\ writing[e] = {t} /\ Installing(e) = {t}
                      /\ \A u \in Task : pc[u] = "running" => u = t \/ runsIn[u] # e
    BY DEF InstallsHoldTheEnvironment
  <2>1. writing[e] = {t} /\ \A u \in Task : Within(u) /\ lockOn[u] = e => u = t
    BY ChangersAreAlone DEF Installing, Changing
  <2>2. ASSUME NEW u \in Installing(e) PROVE u = t
    <3>1. writing[e] = {u}
      BY ChangersAreAlone DEF Installing, Changing
    <3> QED
      BY <2>1, <3>1
  <2>3. \A u \in Task : pc[u] = "running" => Within(u) /\ lockOn[u] = runsIn[u]
    BY DEF AloneInv, SessionsOK, AsAsked, Within
  <2> QED
    BY <2>1, <2>2, <2>3
<1> QED
  BY <1>1, AlwaysAlone, PTL

-----------------------------------------------------------------------------
(* What is installed was missing.                                          *)

\* A task changes only the environment that its packages go to, and only where it
\* installs.
LEMMA DiskStays ==
    ASSUME TypeOK, NEW t \in Task, Begin(t) \/ Step(t), NEW e \in Environment,
           At(t) # e \/ pc[t] \notin Changing
    PROVE  /\ guard'[e] = guard[e] /\ reassert'[e] = reassert[e]
           /\ recorded'[e] = recorded[e] /\ intact'[e] = intact[e]
<1>1. /\ guard \in [Environment -> SUBSET Package] /\ reassert \in [Environment -> SUBSET Package]
      /\ recorded \in [Environment -> SUBSET Package] /\ intact \in [Environment -> SUBSET Package]
  BY Types
<1>2. CASE PipStarts(t) \/ PipEnds(t)
  BY <1>1, <1>2 DEF PipStarts, PipEnds, Changing
<1>3. CASE TouchGuard(t) \/ ClearReassert(t) \/ DropGuards(t) \/ DemandReassert(t)
  BY <1>1, <1>3 DEF TouchGuard, ClearReassert, DropGuards, DemandReassert, Changing
<1>4. CASE ~(\/ PipStarts(t) \/ PipEnds(t) \/ TouchGuard(t) \/ ClearReassert(t)
             \/ DropGuards(t) \/ DemandReassert(t))
  <2>1. UNCHANGED <<guard, reassert, recorded, intact>>
    BY <1>4 DEF Step, disk, Begin, EnterOnce, FinishOnce, Declare, ReadReassert, Look,
       EnterInstall, Recheck, PipFails, AskToRun, EnterRun, DepsInstalled, RunEnds
  <2> QED
    BY <2>1
<1> QED
  BY <1>2, <1>3, <1>4

\* The environment of a task that is at work in it is left alone by the others.
LEMMA LeftAlone ==
    ASSUME AloneInv, NEW t \in Task, Begin(t) \/ Step(t), NEW u \in Task, u # t,
           \/ pc[u] \in Changing
           \/ pc[u] \in {"ensure", "look"} /\ phase[u] \in {"once", "deps"}
    PROVE  LET e == At(u) IN
           /\ guard'[e] = guard[e] /\ reassert'[e] = reassert[e]
           /\ recorded'[e] = recorded[e] /\ intact'[e] = intact[e]
<1>1. At(u) \in Environment
  BY DEF At, Environment
<1>2. At(t) # At(u) \/ pc[t] \notin Changing
  <2> SUFFICES ASSUME At(t) = At(u), pc[t] \in Changing PROVE FALSE
    OBVIOUS
  <2>1. writing[At(u)] = {t} /\ writing[At(u)] = {u}
    BY <1>1, ChangersAreAlone
  <2> QED
    BY <2>1
<1> QED
  BY <1>1, <1>2, DiskStays DEF AloneInv

\* What was read of an environment is still so when the install starts.
LEMMA StepForce == AloneInv /\ ForceOK /\ [Next]_vars => ForceOK'
<1> DEFINE Read(t) ==
        phase[t] \in {"once", "deps"} =>
            /\ pc[t] \in {"look", "pip"} => (force[t] <=> Head(todo[t]) \in reassert[At(t)])
            /\ pc[t] = "pip" => force[t] \/ Head(todo[t]) \notin guard[At(t)]
<1> SUFFICES ASSUME AloneInv, ForceOK, [Next]_vars, NEW u \in Task PROVE Read(u)'
  BY DEF ForceOK
<1>1. Read(u) /\ InOrder(u) /\ TypeOK
  BY DEF ForceOK, AloneInv, ControlOK
<1>2. CASE UNCHANGED vars \/ Terminated
  BY <1>1, <1>2 DEF vars, Terminated, disk, control, At
<1>3. CASE Crash
  BY <1>3 DEF Crash
<1>4. ASSUME NEW t \in Task, Begin(t) \/ Step(t), u # t PROVE Read(u)'
  <2>1. /\ pc'[u] = pc[u] /\ phase'[u] = phase[u] /\ todo'[u] = todo[u]
        /\ force'[u] = force[u] /\ At(u)' = At(u)
    BY <1>1, <1>4, OthersStay DEF At
  <2>2. pc[u] \in {"look", "pip"} /\ phase[u] \in {"once", "deps"} =>
            guard'[At(u)] = guard[At(u)] /\ reassert'[At(u)] = reassert[At(u)]
    BY <1>4, LeftAlone DEF Changing
  <2> QED
    BY <1>1, <2>1, <2>2
<1>5. ASSUME Begin(u) \/ Step(u) PROVE Read(u)'
  <2>1. /\ pc \in [Task -> Places] /\ phase \in [Task -> {"once", "prepare", "run", "deps"}]
        /\ force \in [Task -> BOOLEAN]
    BY <1>1, Types
  <2> USE DEF Go
  <2>2. CASE ReadReassert(u)
    <3> DEFINE b == Head(todo[u]) \in reassert[At(u)]
    <3>1. b \in BOOLEAN /\ force' = [force EXCEPT ![u] = b]
      BY <2>2 DEF ReadReassert
    <3> HIDE DEF b
    <3>2. force'[u] = b
      BY <2>1, <3>1
    <3>3. /\ pc'[u] = "look" /\ todo' = todo /\ At(u)' = At(u) /\ reassert' = reassert
      BY <2>1, <2>2 DEF ReadReassert, At, disk
    <3> QED
      BY <3>2, <3>3 DEF b
  <2>3. CASE Look(u)
    <3>1. /\ At(u)' = At(u) /\ reassert' = reassert /\ guard' = guard /\ force' = force
          /\ phase' = phase /\ pc[u] = "look"
      BY <2>3 DEF Look, At, disk
    <3>2. \/ pc'[u] \notin {"look", "pip"}
          \/ pc'[u] = "pip" /\ ~Holds(u, Head(todo[u])) /\ todo' = todo
      BY <2>1, <2>3 DEF Look
    <3> QED
      BY <1>1, <3>1, <3>2 DEF Holds
  <2>4. CASE Recheck(u)
    BY <1>1, <2>1, <2>4 DEF Recheck, InOrder
  <2>5. CASE ~ReadReassert(u) /\ ~Look(u) /\ ~Recheck(u)
    <3>1. CASE Begin(u) \/ FinishOnce(u)
      BY <2>1, <3>1 DEF Begin, FinishOnce, StartPreparing
    <3>2. CASE EnterOnce(u) \/ Declare(u) \/ EnterInstall(u) \/ AskToRun(u) \/ EnterRun(u)
               \/ DepsInstalled(u) \/ RunEnds(u)
      BY <2>1, <3>2 DEF EnterOnce, Declare, EnterInstall, AskToRun, EnterRun, DepsInstalled,
         RunEnds
    <3>3. CASE PipStarts(u) \/ PipEnds(u) \/ PipFails(u)
      BY <2>1, <3>3 DEF PipStarts, PipEnds, PipFails
    <3>4. CASE TouchGuard(u) \/ ClearReassert(u) \/ DropGuards(u) \/ DemandReassert(u)
      BY <2>1, <3>4 DEF TouchGuard, ClearReassert, DropGuards, DemandReassert, PackageDone
    <3> QED
      BY <1>5, <2>5, <3>1, <3>2, <3>3, <3>4 DEF Step
  <2> QED
    BY <2>2, <2>3, <2>4, <2>5
<1> QED
  BY <1>2, <1>3, <1>4, <1>5 DEF Next

\* Of the needs of a session, pip only runs for what is missing or overwritten
\* (record_install, session_needs_install).
THEOREM NoIdleInstalls ==
    ASSUME OwnSessions PROVE Spec => InstallsOnlyWhatIsMissing
<1> DEFINE Missing == \A t \in Task : LET p == Head(todo[t]) e == At(t) IN
        setting.sessionOf[t] # NoSession /\ pc[t] = "pip" /\ pc'[t] # "pip" =>
            p \notin guard[e] \/ p \in reassert[e]
<1>1. Init => ForceOK
  BY DEF Init, ForceOK
<1>2. AloneInv /\ ForceOK => Missing
  <2> SUFFICES ASSUME AloneInv, ForceOK, NEW t \in Task, setting.sessionOf[t] # NoSession,
                      pc[t] = "pip"
               PROVE  Head(todo[t]) \notin guard[At(t)] \/ Head(todo[t]) \in reassert[At(t)]
    OBVIOUS
  <2>1. phase[t] \in {"once", "deps"}
    <3>1. phase[t] \in {"once", "prepare", "run", "deps"} /\ InOrder(t)
      BY Types DEF AloneInv, ControlOK
    <3> QED
      BY <3>1 DEF InOrder, Changing
  <2> QED
    BY <2>1 DEF ForceOK
<1>3. AloneInv /\ ForceOK => [Missing]_vars
  BY <1>2
<1> QED
  BY <1>1, <1>3, StepForce, AlwaysAlone, PTL DEF Spec, InstallsOnlyWhatIsMissing

-----------------------------------------------------------------------------
(* What the guards say is true.                                            *)

\* A task that installs for itself forces nothing: a package of its own is never marked.
Unforced(t) ==
    ~setting.pipMayFail /\ pc[t] # "idle" /\ phase[t] = "prepare" =>
        /\ Range(todo[t]) \subseteq Range(setting.needs[t])
        /\ pc[t] \in Changing \cup {"look", "wait", "recheck"} => ~force[t]

\* Reassert markers are only made of what is overwritten.
UnforcedOK == /\ \A e \in Environment : reassert[e] \subseteq Overwritten
              /\ \A t \in Task : Unforced(t)

\* What is overwritten is forced back only by those that said that they need it.
LEMMA StepUnforced ==
    ASSUME \A s \in Setting : Careful(s), TypeOK, ControlOK, UnforcedOK, [Next]_vars
    PROVE  UnforcedOK'
<1> USE DEF Go
<1>1. setting' = setting /\ setting \in Setting /\ SettingOK(setting)
  BY SettingStays, Types, SandboxAssumption
<1>2. \A e \in Environment : reassert'[e] \subseteq Overwritten
  <2>1. CASE UNCHANGED vars \/ Terminated \/ Crash
    BY <2>1 DEF UnforcedOK, vars, Terminated, Crash, disk
  <2>2. ASSUME NEW t \in Task, Begin(t) \/ Step(t), NEW e \in Environment
        PROVE  reassert'[e] \subseteq Overwritten
    <3>1. reassert[e] \subseteq Overwritten /\ reassert \in [Environment -> SUBSET Package]
      BY Types DEF UnforcedOK
    <3>2. CASE ClearReassert(t)
      BY <3>1, <3>2 DEF ClearReassert
    <3>3. CASE DemandReassert(t)
      <4>1. Head(todo[t]) \in Package
        BY <3>3, Types, TailTypes DEF ControlOK, InOrder, DemandReassert, Changing
      <4>2. Clobbers[Head(todo[t])] \subseteq Overwritten
        BY <4>1 DEF Overwritten
      <4> QED
        BY <3>1, <3>3, <4>2 DEF DemandReassert
    <3>4. CASE ~ClearReassert(t) /\ ~DemandReassert(t)
      <4>1. reassert' = reassert
        BY <2>2, <3>4 DEF Step, disk, Begin, EnterOnce, FinishOnce, Declare, ReadReassert,
           Look, EnterInstall, Recheck, PipStarts, PipEnds, PipFails, TouchGuard, DropGuards,
           AskToRun, EnterRun, DepsInstalled, RunEnds
      <4> QED
        BY <3>1, <4>1
    <3> QED
      BY <3>2, <3>3, <3>4
  <2> QED
    BY <2>1, <2>2 DEF Next
<1>3. ASSUME NEW u \in Task PROVE Unforced(u)'
  <2>1. Unforced(u) /\ InOrder(u)
    BY DEF UnforcedOK, ControlOK
  <2>2. CASE UNCHANGED vars \/ Terminated
    BY <1>1, <2>1, <2>2 DEF Unforced, vars, Terminated, control
  <2>3. CASE Crash
    BY <2>3 DEF Crash, Unforced
  <2>4. ASSUME NEW t \in Task, Begin(t) \/ Step(t), u # t PROVE Unforced(u)'
    BY <1>1, <2>1, <2>4, OthersStay DEF Unforced
  <2>5. ASSUME Begin(u) \/ Step(u) PROVE Unforced(u)'
    <3>1. /\ pc \in [Task -> Places] /\ phase \in [Task -> {"once", "prepare", "run", "deps"}]
          /\ todo \in [Task -> Seq(Package)] /\ force \in [Task -> BOOLEAN]
      BY Types
    <3>2. todo[u] # <<>> =>
              /\ Head(todo[u]) \in Range(todo[u])
              /\ Range(Tail(todo[u])) \subseteq Range(todo[u])
      BY <3>1, TailTypes
    <3> USE DEF Unforced, Changing
    <3>3. CASE Begin(u) \/ FinishOnce(u)
      BY <1>1, <3>1, <3>3 DEF Begin, FinishOnce, StartPreparing
    <3>4. CASE EnterOnce(u) \/ AskToRun(u) \/ EnterRun(u) \/ DepsInstalled(u)
      BY <1>1, <2>1, <3>1, <3>4 DEF EnterOnce, AskToRun, EnterRun, DepsInstalled
    <3>5. CASE Declare(u)
      <4>1. pc' = pc /\ phase' = phase /\ pc[u] = "ensure" /\ todo[u] # <<>>
        BY <3>5 DEF Declare
      <4>2. todo'[u] = Tail(todo[u])
        BY <3>1, <3>5 DEF Declare
      <4> QED
        BY <1>1, <2>1, <3>2, <4>1, <4>2
    <3>6. CASE ReadReassert(u)
      <4> DEFINE b == Head(todo[u]) \in reassert[At(u)]
      <4>1. b \in BOOLEAN /\ force' = [force EXCEPT ![u] = b]
        BY <3>6 DEF ReadReassert
      <4>2. ~setting.pipMayFail /\ phase[u] = "prepare" => ~b
        <5> SUFFICES ASSUME ~setting.pipMayFail, phase[u] = "prepare" PROVE ~b
          OBVIOUS
        <5>1. Careful(setting) /\ setting.sessionOf[u] = NoSession /\ pc[u] = "ensure"
          BY <1>1, <3>6 DEF ReadReassert
        <5>2. Head(todo[u]) \in Range(setting.needs[u])
          BY <2>1, <3>2, <3>6, <5>1 DEF ReadReassert
        <5>3. reassert[At(u)] \subseteq Overwritten
          BY DEF UnforcedOK, At, Environment
        <5> QED
          BY <5>1, <5>2, <5>3 DEF Careful
      <4> HIDE DEF b
      <4>3. force'[u] = b
        BY <3>1, <4>1
      <4>4. phase' = phase /\ todo' = todo /\ pc[u] = "ensure"
        BY <3>6 DEF ReadReassert
      <4> QED
        BY <1>1, <2>1, <4>2, <4>3, <4>4
    <3>7. CASE Look(u) \/ EnterInstall(u) \/ Recheck(u)
      <4>1. /\ phase' = phase /\ force' = force /\ pc[u] \in {"look", "wait", "recheck"}
            /\ todo[u] # <<>>
        BY <2>1, <3>7 DEF Look, EnterInstall, Recheck, InOrder
      <4>2. todo'[u] = todo[u] \/ todo'[u] = Tail(todo[u])
        BY <3>1, <3>7 DEF Look, EnterInstall, Recheck
      <4> QED
        BY <1>1, <2>1, <3>2, <4>1, <4>2
    <3>8. CASE PipStarts(u) \/ PipEnds(u) \/ PipFails(u) \/ TouchGuard(u)
               \/ ClearReassert(u) \/ DropGuards(u) \/ DemandReassert(u) \/ RunEnds(u)
      <4>1. /\ phase' = phase /\ force' = force /\ pc[u] \in Changing \cup {"running"}
        BY <3>8 DEF PipStarts, PipEnds, PipFails, TouchGuard, ClearReassert, DropGuards,
           DemandReassert, RunEnds
      <4>2. todo'[u] = todo[u] \/ (todo'[u] = Tail(todo[u]) /\ pc[u] \in Changing)
        BY <3>1, <3>8 DEF PipStarts, PipEnds, PipFails, TouchGuard, ClearReassert, DropGuards,
           DemandReassert, PackageDone, RunEnds
      <4>3. pc[u] = "running" => phase[u] = "run"
        BY <2>1 DEF InOrder
      <4>4. pc[u] \in Changing => todo[u] # <<>>
        BY <2>1 DEF InOrder
      <4> QED
        BY <1>1, <2>1, <3>2, <4>1, <4>2, <4>3, <4>4
    <3> QED
      BY <2>5, <3>3, <3>4, <3>5, <3>6, <3>7, <3>8 DEF Step
  <2> QED
    BY <2>2, <2>3, <2>4, <2>5 DEF Next
<1> QED
  BY <1>2, <1>3 DEF UnforcedOK

\* Where nobody installs, what pip takes for installed is whole unless it is marked.
Whole(e) ==
    /\ guard[e] \subseteq recorded[e]
    /\ Installing(e) = {} => recorded[e] \ reassert[e] \subseteq intact[e]

\* How far an install has come: while pip writes, what it writes is not whole; after
\* it, the package is, and what it overwrote is not.
HalfDone(t) ==
    LET p == Head(todo[t]) e == At(t) IN
    /\ pc[t] = "pipping" =>
          /\ recorded[e] \ (reassert[e] \cup Puts(p, e, force[t])
                               \cup Breaks(p, e, force[t])) \subseteq intact[e]
          /\ p \in Puts(p, e, force[t]) \/ p \in recorded[e] \cap intact[e]
    /\ pc[t] \in {"touch", "clear", "drop", "demand"} =>
          /\ recorded[e] \ (reassert[e] \cup Clobbers[p]) \subseteq intact[e]
          /\ p \in recorded[e] \cap intact[e]

\* Every environment and every install is as it should be, while pip is reliable.
TruthOK == Reliable => /\ \A e \in Environment : Whole(e)
                       /\ \A t \in Task : HalfDone(t)

\* The invariant behind GuardsAreTrue.
TruthInv == AloneInv /\ ForceOK /\ UnforcedOK /\ TruthOK

\* Once something has failed, it has.
LEMMA ReliableBefore == TypeOK /\ [Next]_vars /\ Reliable' => Reliable
<1> SUFFICES ASSUME TypeOK, [Next]_vars, Reliable' PROVE Reliable
  OBVIOUS
<1>1. setting' = setting
  BY SettingStays
<1>2. crashes' = crashes \/ crashes' = crashes + 1
  <2>1. ASSUME NEW t \in Task, Begin(t) \/ Step(t) PROVE crashes' = crashes
    <3>1. CASE Begin(t) \/ EnterOnce(t) \/ FinishOnce(t) \/ Declare(t) \/ ReadReassert(t)
      BY <3>1 DEF Begin, EnterOnce, FinishOnce, Declare, ReadReassert, counts
    <3>2. CASE Look(t) \/ EnterInstall(t) \/ Recheck(t) \/ PipStarts(t) \/ PipEnds(t) \/ PipFails(t)
      BY <3>2 DEF Look, EnterInstall, Recheck, PipStarts, PipEnds, PipFails, counts
    <3>3. CASE TouchGuard(t) \/ ClearReassert(t) \/ DropGuards(t) \/ DemandReassert(t)
      BY <3>3 DEF TouchGuard, ClearReassert, DropGuards, DemandReassert, counts
    <3>4. CASE AskToRun(t) \/ EnterRun(t) \/ DepsInstalled(t) \/ RunEnds(t)
      BY <3>4 DEF AskToRun, EnterRun, DepsInstalled, RunEnds, counts
    <3> QED
      BY <2>1, <3>1, <3>2, <3>3, <3>4 DEF Step
  <2> QED
    BY <2>1 DEF Next, vars, counts, Crash, Terminated
<1>3. setting \in Setting /\ SettingOK(setting) /\ crashes \in 0 .. setting.maxCrashes
  BY Types, SandboxAssumption
<1>4. crashes \in Nat
  BY <1>3 DEF SettingOK
<1> QED
  BY <1>1, <1>2, <1>4 DEF Reliable

\* A task that installs was in front of pip or further before the step, in the same
\* environment and for the same package.
LEMMA InstallGoesOn ==
    ASSUME TypeOK, NEW t \in Task, Begin(t) \/ Step(t),
           pc'[t] \in {"pipping", "touch", "clear", "drop", "demand"}
    PROVE  /\ pc[t] \in {"pip", "pipping", "touch", "clear", "drop"}
           /\ phase' = phase /\ todo' = todo /\ force' = force
<1>1. pc \in [Task -> Places]
  BY Types
<1> USE DEF Go
<1>2. CASE Begin(t) \/ FinishOnce(t)
  BY <1>1, <1>2 DEF Begin, FinishOnce, StartPreparing
<1>3. CASE EnterOnce(t) \/ Declare(t) \/ ReadReassert(t) \/ Look(t) \/ EnterInstall(t)
           \/ Recheck(t) \/ AskToRun(t) \/ EnterRun(t) \/ DepsInstalled(t) \/ RunEnds(t)
  BY <1>1, <1>3 DEF EnterOnce, Declare, ReadReassert, Look, EnterInstall, Recheck, AskToRun,
     EnterRun, DepsInstalled, RunEnds
<1>4. CASE PipStarts(t) \/ PipEnds(t) \/ PipFails(t) \/ TouchGuard(t) \/ DropGuards(t)
  BY <1>1, <1>4 DEF PipStarts, PipEnds, PipFails, TouchGuard, DropGuards
<1>5. CASE ClearReassert(t) \/ DemandReassert(t)
  BY <1>1, <1>5 DEF ClearReassert, DemandReassert, PackageDone
<1> QED
  BY <1>2, <1>3, <1>4, <1>5 DEF Step

\* In front of pip, what is recorded is whole where it is not to be forced, and the
\* package at hand is marked only if it is forced.
LEMMA BeforePip ==
    ASSUME TruthInv, Reliable, \A s \in Setting : Careful(s), NEW t \in Task, pc[t] = "pip"
    PROVE  LET p == Head(todo[t]) e == At(t) IN
           /\ recorded[e] \ reassert[e] \subseteq intact[e]
           /\ force[t] \/ p \notin reassert[e]
<1> DEFINE p == Head(todo[t])
           e == At(t)
<1>1. e \in Environment
  BY DEF At, Environment
<1>2. Installing(e) = {}
  <2> SUFFICES ASSUME NEW u \in Installing(e) PROVE FALSE
    OBVIOUS
  <2>1. writing[e] = {t} /\ writing[e] = {u} /\ u # t
    BY <1>1, ChangersAreAlone DEF TruthInv, Installing, Changing
  <2> QED
    BY <2>1
<1>3. recorded[e] \ reassert[e] \subseteq intact[e]
  BY <1>1, <1>2 DEF TruthInv, TruthOK, Whole
<1>4. InOrder(t) /\ phase[t] \in {"once", "prepare", "run", "deps"} /\ todo[t] \in Seq(Package)
  BY Types DEF TruthInv, AloneInv, ControlOK
<1>5. CASE phase[t] \in {"once", "deps"}
  BY <1>3, <1>5 DEF TruthInv, ForceOK
<1>6. CASE phase[t] = "prepare"
  <2>1. todo[t] # <<>> /\ setting.sessionOf[t] = NoSession
    BY <1>4, <1>6 DEF InOrder, Changing
  <2>2. p \in Range(setting.needs[t])
    BY <1>4, <1>6, <2>1, TailTypes DEF TruthInv, UnforcedOK, Unforced, Reliable
  <2>3. Careful(setting) /\ reassert[e] \subseteq Overwritten
    BY <1>1, Types DEF TruthInv, AloneInv, UnforcedOK
  <2>4. p \notin Overwritten
    BY <2>1, <2>2, <2>3 DEF Careful, Reliable
  <2> QED
    BY <1>3, <2>3, <2>4
<1>7. phase[t] # "run"
  BY <1>4 DEF InOrder
<1> QED
  BY <1>4, <1>5, <1>6, <1>7

\* An install gets as far as HalfDone says.
LEMMA StepHalfDone ==
    ASSUME \A s \in Setting : Careful(s), TruthInv, Reliable, setting' = setting,
           NEW t \in Task, Begin(t) \/ Step(t), NEW u \in Task
    PROVE  HalfDone(u)'
<1> DEFINE p == Head(todo[u])
           e == At(u)
<1>1. TypeOK /\ HalfDone(u) /\ InOrder(u) /\ e \in Environment
  BY DEF TruthInv, AloneInv, TruthOK, ControlOK, At, Environment
<1>2. CASE u # t
  <2>1. /\ pc'[u] = pc[u] /\ todo'[u] = todo[u] /\ force'[u] = force[u] /\ At(u)' = At(u)
    BY <1>1, <1>2, OthersStay DEF At
  <2>2. CASE pc[u] \notin {"pipping", "touch", "clear", "drop", "demand"}
    BY <2>1, <2>2 DEF HalfDone
  <2>3. CASE pc[u] \in {"pipping", "touch", "clear", "drop", "demand"}
    <3>1. /\ reassert'[e] = reassert[e] /\ recorded'[e] = recorded[e] /\ intact'[e] = intact[e]
      BY <1>2, <2>3, LeftAlone DEF TruthInv, Changing
    <3>2. Puts(p, e, force[u])' = Puts(p, e, force[u])
      BY <2>1, <3>1 DEF Puts
    <3>3. Breaks(p, e, force[u])' = Breaks(p, e, force[u])
      BY <2>1, <3>2 DEF Breaks
    <3> QED
      BY <1>1, <2>1, <3>1, <3>2, <3>3 DEF HalfDone
  <2> QED
    BY <2>2, <2>3
<1>3. CASE u = t /\ pc'[u] \notin {"pipping", "touch", "clear", "drop", "demand"}
  BY <1>3 DEF HalfDone
<1>4. CASE u = t /\ pc'[u] \in {"pipping", "touch", "clear", "drop", "demand"}
  <2>1. /\ pc[u] \in {"pip", "pipping", "touch", "clear", "drop"}
        /\ phase' = phase /\ todo' = todo /\ force' = force
    BY <1>1, <1>4, InstallGoesOn
  <2>2. p' = p /\ e' = e
    BY <2>1 DEF At
  <2>3. /\ pc \in [Task -> Places] /\ intact \in [Environment -> SUBSET Package]
        /\ recorded \in [Environment -> SUBSET Package]
        /\ reassert \in [Environment -> SUBSET Package] /\ todo[u] \in Seq(Package)
    BY <1>1, Types
  <2>4. p \in Package /\ Clobbers[p] \subseteq Package
    BY <1>1, <2>1, <2>3, TailTypes, SandboxAssumption DEF InOrder, Changing
  <2> USE DEF Go
  <2>5. CASE PipStarts(u)
    <3>1. /\ pc'[u] = "pipping" /\ pc[u] = "pip" /\ recorded' = recorded
          /\ reassert' = reassert
          /\ intact'[e] = intact[e] \ (Puts(p, e, force[u]) \cup Breaks(p, e, force[u]))
      BY <1>1, <2>3, <2>5 DEF PipStarts
    <3>2. recorded[e] \ reassert[e] \subseteq intact[e] /\ (force[u] \/ p \notin reassert[e])
      BY <3>1, BeforePip
    <3>3. /\ Puts(p, e, force[u])' = Puts(p, e, force[u])
          /\ Breaks(p, e, force[u])' = Breaks(p, e, force[u])
      BY <2>1, <2>2, <3>1 DEF Puts, Breaks
    <3>4. p \in Puts(p, e, force[u]) \/ p \in recorded[e] \cap intact'[e]
      BY <2>4, <3>1, <3>2 DEF Puts, Breaks
    <3> QED
      BY <2>1, <2>2, <3>1, <3>2, <3>3, <3>4 DEF HalfDone
  <2>6. CASE PipEnds(u)
    <3>1. /\ pc'[u] = "touch" /\ pc[u] = "pipping" /\ reassert' = reassert
          /\ intact'[e] = intact[e] \cup Puts(p, e, force[u])
          /\ recorded'[e] = recorded[e] \cup Puts(p, e, force[u])
      BY <1>1, <2>3, <2>6 DEF PipEnds
    <3>2. Breaks(p, e, force[u]) \subseteq Clobbers[p]
      BY DEF Breaks
    <3> HIDE DEF p, e
    <3>3. p' = Head(todo[u]) /\ p = Head(todo[u]) /\ e = At(u) /\ e' = At(u)
      BY <2>1, <2>2 DEF p, e
    <3>4. /\ recorded[e] \ (reassert[e] \cup Puts(p, e, force[u])
                               \cup Breaks(p, e, force[u])) \subseteq intact[e]
          /\ p \in Puts(p, e, force[u]) \/ p \in recorded[e] \cap intact[e]
      BY <1>1, <3>1 DEF HalfDone, p, e
    <3>5. /\ recorded'[e] \ (reassert[e] \cup Clobbers[p]) \subseteq intact'[e]
          /\ p \in recorded'[e] \cap intact'[e]
      BY <3>1, <3>2, <3>4
    <3> QED
      BY <2>1, <2>2, <3>1, <3>5 DEF HalfDone, p, e
  <2>7. CASE TouchGuard(u) \/ ClearReassert(u) \/ DropGuards(u)
    <3>1. /\ recorded' = recorded /\ intact' = intact
          /\ pc[u] \in {"touch", "clear", "drop"} /\ pc'[u] \in {"clear", "drop", "demand", "ensure"}
      BY <2>3, <2>7 DEF TouchGuard, ClearReassert, DropGuards, PackageDone
    <3>2. reassert'[e] = reassert[e] \/ reassert'[e] = reassert[e] \ {p}
      BY <1>1, <2>3, <2>7 DEF TouchGuard, ClearReassert, DropGuards
    <3> QED
      BY <1>1, <2>1, <2>2, <3>1, <3>2 DEF HalfDone
  <2>8. CASE ~(PipStarts(u) \/ PipEnds(u) \/ TouchGuard(u) \/ ClearReassert(u) \/ DropGuards(u))
    <3>1. ~PipFails(u) /\ ~DemandReassert(u)
      BY <1>4, <2>1 DEF PipFails, DemandReassert, Reliable
    <3>2. Begin(u) \/ EnterOnce(u) \/ FinishOnce(u) \/ Declare(u) \/ ReadReassert(u)
              \/ Look(u) \/ EnterInstall(u) \/ Recheck(u) \/ AskToRun(u) \/ EnterRun(u)
              \/ DepsInstalled(u) \/ RunEnds(u)
      BY <1>4, <2>8, <3>1 DEF Step
    <3> QED
      BY <2>1, <3>2 DEF Begin, EnterOnce, FinishOnce, Declare, ReadReassert, Look,
         EnterInstall, Recheck, AskToRun, EnterRun, DepsInstalled, RunEnds
  <2> QED
    BY <2>5, <2>6, <2>7, <2>8
<1> QED
  BY <1>2, <1>3, <1>4

\* What is recorded stays whole but for what is marked.
LEMMA StepWhole ==
    ASSUME TruthInv, Reliable, setting' = setting, NEW t \in Task, Begin(t) \/ Step(t),
           NEW e \in Environment
    PROVE  Whole(e)'
<1> DEFINE p == Head(todo[t])
<1>1. TypeOK /\ AloneInv /\ Whole(e) /\ HalfDone(t) /\ InOrder(t)
  BY DEF TruthInv, AloneInv, TruthOK, ControlOK
<1>2. \A u \in Task \ {t} : u \in Installing(e) => u \in Installing(e)'
  BY <1>1, OthersStay DEF Installing, At
<1>3. CASE At(t) # e \/ pc[t] \notin Changing
  <2>1. /\ guard'[e] = guard[e] /\ reassert'[e] = reassert[e]
        /\ recorded'[e] = recorded[e] /\ intact'[e] = intact[e]
    BY <1>1, <1>3, DiskStays
  <2>2. t \notin Installing(e)
    BY <1>3 DEF Installing, Changing
  <2>3. Installing(e)' = {} => Installing(e) = {}
    <3> SUFFICES ASSUME Installing(e)' = {}, NEW u \in Installing(e) PROVE FALSE
      OBVIOUS
    <3>1. u \in Task \ {t}
      BY <2>2 DEF Installing
    <3> HIDE DEF p
    <3> QED
      BY <1>2, <3>1
  <2> QED
    BY <1>1, <2>1, <2>3 DEF Whole
<1>4. CASE At(t) = e /\ pc[t] \in Changing
  <2>1. /\ pc \in [Task -> Places] /\ intact \in [Environment -> SUBSET Package]
        /\ recorded \in [Environment -> SUBSET Package]
        /\ reassert \in [Environment -> SUBSET Package]
        /\ guard \in [Environment -> SUBSET Package]
    BY <1>1, Types
  <2>2. /\ phase' = phase => e = At(t)'
        /\ phase' = phase /\ pc'[t] \in {"pipping", "touch", "clear", "drop", "demand"} =>
              Installing(e)' # {}
    BY <1>4 DEF At, Installing
  <2>3. pc[t] \in {"touch", "clear", "drop", "demand"} =>
              /\ recorded[e] \ (reassert[e] \cup Clobbers[p]) \subseteq intact[e]
              /\ p \in recorded[e] \cap intact[e]
    BY <1>1, <1>4 DEF HalfDone
  <2> USE DEF Go
  <2>4. CASE PipStarts(t)
    <3>1. /\ guard' = guard /\ recorded' = recorded /\ phase' = phase /\ pc'[t] = "pipping"
      BY <2>1, <2>4 DEF PipStarts
    <3> QED
      BY <1>1, <2>2, <3>1 DEF Whole
  <2>5. CASE PipEnds(t)
    <3>1. /\ guard' = guard /\ phase' = phase /\ pc'[t] = "touch"
          /\ recorded[e] \subseteq recorded'[e]
      BY <1>4, <2>1, <2>5 DEF PipEnds
    <3> QED
      BY <1>1, <2>2, <3>1 DEF Whole
  <2>6. CASE TouchGuard(t)
    <3>1. /\ guard'[e] = guard[e] \cup {p} /\ phase' = phase /\ pc'[t] = "clear"
          /\ recorded' = recorded /\ pc[t] = "touch"
      BY <1>4, <2>1, <2>6 DEF TouchGuard
    <3> QED
      BY <1>1, <2>2, <2>3, <3>1 DEF Whole
  <2>7. CASE ClearReassert(t)
    <3>1. /\ guard' = guard /\ recorded' = recorded /\ intact' = intact /\ pc[t] = "clear"
          /\ reassert'[e] = reassert[e] \ {p} /\ phase' = phase
      BY <1>4, <2>1, <2>7 DEF ClearReassert
    <3>2. Clobbers[p] = {} \/ pc'[t] = "drop"
      BY <2>1, <2>7 DEF ClearReassert
    <3>3. pc'[t] = "drop" \/ recorded'[e] \ reassert'[e] \subseteq intact'[e]
      BY <2>3, <3>1, <3>2
    <3> QED
      BY <1>1, <2>2, <3>1, <3>3 DEF Whole
  <2>8. CASE DropGuards(t)
    <3>1. /\ guard'[e] \subseteq guard[e] /\ recorded' = recorded /\ phase' = phase
          /\ pc'[t] = "demand"
      BY <1>4, <2>1, <2>8 DEF DropGuards
    <3> QED
      BY <1>1, <2>2, <3>1 DEF Whole
  <2>9. CASE DemandReassert(t)
    <3>1. /\ guard' = guard /\ recorded' = recorded /\ intact' = intact /\ pc[t] = "demand"
          /\ reassert'[e] = reassert[e] \cup Clobbers[p]
      BY <1>4, <2>1, <2>9 DEF DemandReassert
    <3> QED
      BY <1>1, <2>3, <3>1 DEF Whole
  <2>10. CASE ~(\/ PipStarts(t) \/ PipEnds(t) \/ TouchGuard(t) \/ ClearReassert(t)
                \/ DropGuards(t) \/ DemandReassert(t))
    <3>1. ~PipFails(t)
      BY DEF PipFails, Reliable
    <3>2. Begin(t) \/ EnterOnce(t) \/ FinishOnce(t) \/ Declare(t) \/ ReadReassert(t)
              \/ Look(t) \/ EnterInstall(t) \/ Recheck(t) \/ AskToRun(t) \/ EnterRun(t)
              \/ DepsInstalled(t) \/ RunEnds(t)
      BY <2>10, <3>1 DEF Step
    <3> QED
      BY <1>4, <3>2 DEF Begin, EnterOnce, FinishOnce, Declare, ReadReassert, Look,
         EnterInstall, Recheck, AskToRun, EnterRun, DepsInstalled, RunEnds, Changing
  <2> QED
    BY <2>4, <2>5, <2>6, <2>7, <2>8, <2>9, <2>10
<1> QED
  BY <1>3, <1>4

\* What is true of the disk stays true.
LEMMA StepTruth ==
    ASSUME OwnSessions, \A s \in Setting : Careful(s), TruthInv, [Next]_vars
    PROVE  TruthInv'
<1>1. AloneInv' /\ ForceOK' /\ UnforcedOK'
  BY StepTypes, StepControl, StepLocks, StepSessions, StepForce, StepUnforced
  DEF TruthInv, AloneInv
<1>2. TruthOK'
  <2> SUFFICES ASSUME Reliable'
               PROVE  (\A e \in Environment : Whole(e)') /\ (\A t \in Task : HalfDone(t)')
    BY DEF TruthOK
  <2>1. Reliable /\ setting' = setting
    BY ReliableBefore, SettingStays DEF TruthInv, AloneInv
  <2>2. (\A e \in Environment : Whole(e)) /\ (\A t \in Task : HalfDone(t))
    BY <2>1 DEF TruthInv, TruthOK
  <2>3. CASE UNCHANGED vars \/ Terminated
    <3>1. UNCHANGED <<disk, control>>
      BY <2>3 DEF vars, Terminated
    <3>2. \A t \in Task : HalfDone(t)'
      <4> SUFFICES ASSUME NEW t \in Task PROVE HalfDone(t)'
        OBVIOUS
      <4>1. /\ UNCHANGED <<pc, phase, todo, force, reassert, recorded, intact>>
            /\ At(t)' = At(t)
        BY <3>1 DEF disk, control, At
      <4>2. \A q, f : Puts(q, At(t), f)' = Puts(q, At(t), f)
        BY <4>1 DEF Puts
      <4> QED
        BY <2>2, <4>1, <4>2 DEF HalfDone, Breaks
    <3>3. \A e \in Environment : Whole(e)'
      BY <2>2, <3>1 DEF Whole, Installing, At, disk, control
    <3> QED
      BY <3>2, <3>3
  <2>4. ~Crash
    BY <2>1 DEF Crash, Reliable
  <2>5. ASSUME NEW t \in Task, Begin(t) \/ Step(t)
        PROVE  (\A e \in Environment : Whole(e)') /\ (\A u \in Task : HalfDone(u)')
    BY <2>1, <2>5, StepHalfDone, StepWhole
  <2> QED
    BY <2>3, <2>4, <2>5 DEF Next
<1> QED
  BY <1>1, <1>2 DEF TruthInv

\* The sandbox that a PartCAD finds is one that its markers tell the truth about.
LEMMA InitTruth == ASSUME OwnSessions PROVE Init => TruthInv
<1> SUFFICES ASSUME Init PROVE TruthInv
  OBVIOUS
<1>1. TypeOK /\ ControlOK /\ LocksOK /\ SessionsOK
  BY InitTypes DEF Init, ControlOK, InOrder, LocksOK, Within, Changing, SessionsOK, AsAsked,
     Environment
<1>2. ForceOK /\ \A t \in Task : Unforced(t)
  BY DEF Init, ForceOK, Unforced
<1>3. ASSUME NEW e \in Environment
      PROVE  reassert[e] \subseteq Overwritten /\ Whole(e)
  BY <1>3 DEF Init, Overwritten, Dependents, Whole
<1>4. \A t \in Task : HalfDone(t)
  BY DEF Init, HalfDone
<1> QED
  BY <1>1, <1>2, <1>3, <1>4 DEF TruthInv, AloneInv, UnforcedOK, TruthOK

\* TruthInv holds of every reachable state.
LEMMA AlwaysTrue ==
    ASSUME OwnSessions, \A s \in Setting : Careful(s) PROVE Spec => []TruthInv
BY InitTruth, StepTruth, PTL DEF Spec

\* When nobody installs, a guard that no marker contradicts is true (installed_onced,
\* GUARD_INVALIDATED_BY), in whatever state the earlier PartCAD left the sandbox.
THEOREM GuardsAreTrue ==
    ASSUME OwnSessions, \A s \in Setting : Careful(s) PROVE Spec => []GuardsTellTheTruth
<1>1. TruthInv => GuardsTellTheTruth
  BY DEF TruthInv, TruthOK, Whole, GuardsTellTheTruth
<1> QED
  BY <1>1, AlwaysTrue, PTL

-----------------------------------------------------------------------------
(* A wrapper runs on what its shape needs.                                 *)

\* A guard is contradicted only in the middle of an install.
Unmarked(e) ==
    \A x \in guard[e] \cap reassert[e] :
        \E t \in Task : pc[t] = "clear" /\ At(t) = e /\ x = Head(todo[t])

\* How the markers of a package and of what it overwrites follow one another.
MarksOf(t) ==
    LET p == Head(todo[t]) e == At(t) IN
    /\ pc[t] = "clear" => p \in guard[e]
    /\ pc[t] = "drop" => p \in guard[e] \ reassert[e]
    /\ pc[t] = "demand" => /\ p \in (guard[e] \ reassert[e]) \cup Clobbers[p]
                           /\ guard[e] \cap Clobbers[p] = {}

\* The markers are in order, while pip is reliable.
MarksOK == Reliable => /\ \A e \in Environment : Unmarked(e)
                       /\ \A t \in Task : MarksOf(t)

\* Guards and reassert markers are made and dropped in an order that does not let them
\* contradict each other (record_install).
LEMMA StepMarks == TruthInv /\ MarksOK /\ [Next]_vars => MarksOK'
<1> SUFFICES ASSUME TruthInv, MarksOK, [Next]_vars, Reliable'
             PROVE  (\A e \in Environment : Unmarked(e)') /\ (\A t \in Task : MarksOf(t)')
  BY DEF MarksOK
<1>1. /\ TypeOK /\ AloneInv /\ Reliable /\ \A e \in Environment : Unmarked(e)
      /\ \A t \in Task : MarksOf(t) /\ InOrder(t)
  BY ReliableBefore DEF TruthInv, AloneInv, MarksOK, ControlOK
<1>2. CASE UNCHANGED vars \/ Terminated
  BY <1>1, <1>2 DEF Unmarked, MarksOf, At, vars, Terminated, disk, control
<1>3. ~Crash
  BY <1>1, Types DEF Crash, Reliable
<1>4. ASSUME NEW t \in Task, Begin(t) \/ Step(t), NEW e \in Environment
      PROVE  Unmarked(e)'
  <2>1. \A u \in Task \ {t} : /\ pc'[u] = pc[u] /\ todo'[u] = todo[u] /\ At(u)' = At(u)
    BY <1>1, <1>4, OthersStay DEF At
  <2>2. CASE At(t) # e \/ pc[t] \notin Changing
    <3>1. guard'[e] = guard[e] /\ reassert'[e] = reassert[e]
      BY <1>1, <1>4, <2>2, DiskStays
    <3> SUFFICES ASSUME NEW x \in guard[e] \cap reassert[e]
                 PROVE  \E u \in Task : pc'[u] = "clear" /\ At(u)' = e /\ x = Head(todo'[u])
      BY <3>1 DEF Unmarked
    <3>2. PICK u \in Task : pc[u] = "clear" /\ At(u) = e /\ x = Head(todo[u])
      BY <1>1 DEF Unmarked
    <3>3. u # t
      BY <2>2, <3>2 DEF Changing
    <3> QED
      BY <2>1, <3>2, <3>3
  <2>3. CASE At(t) = e /\ pc[t] \in Changing
    <3> DEFINE p == Head(todo[t])
    <3>1. /\ pc \in [Task -> Places] /\ guard \in [Environment -> SUBSET Package]
          /\ reassert \in [Environment -> SUBSET Package]
      BY <1>1, Types
    <3>2. \A x \in guard[e] \cap reassert[e] : pc[t] = "clear" /\ x = p
      <4> SUFFICES ASSUME NEW x \in guard[e] \cap reassert[e] PROVE pc[t] = "clear" /\ x = p
        OBVIOUS
      <4>1. PICK u \in Task : pc[u] = "clear" /\ At(u) = e /\ x = Head(todo[u])
        BY <1>1 DEF Unmarked
      <4>2. writing[e] = {u} /\ writing[e] = {t}
        BY <1>1, <2>3, <4>1, ChangersAreAlone DEF Changing
      <4> QED
        BY <4>1, <4>2
    <3> USE DEF Go
    <3>3. CASE TouchGuard(t)
      <4>1. /\ guard'[e] = guard[e] \cup {p} /\ reassert' = reassert /\ pc[t] = "touch"
            /\ pc'[t] = "clear" /\ todo' = todo /\ phase' = phase
        BY <2>3, <3>1, <3>3 DEF TouchGuard
      <4>2. At(t)' = e
        BY <2>3, <4>1 DEF At
      <4> QED
        BY <3>2, <4>1, <4>2 DEF Unmarked
    <3>4. CASE ClearReassert(t)
      <4>1. guard' = guard /\ reassert'[e] = reassert[e] \ {p}
        BY <2>3, <3>1, <3>4 DEF ClearReassert
      <4> QED
        BY <3>2, <4>1 DEF Unmarked
    <3>5. CASE DropGuards(t)
      <4>1. guard'[e] \subseteq guard[e] /\ reassert' = reassert /\ pc[t] = "drop"
        BY <2>3, <3>1, <3>5 DEF DropGuards
      <4> QED
        BY <3>2, <4>1 DEF Unmarked
    <3>6. CASE DemandReassert(t)
      <4>1. /\ guard' = guard /\ reassert'[e] = reassert[e] \cup Clobbers[p]
            /\ pc[t] = "demand"
        BY <2>3, <3>1, <3>6 DEF DemandReassert
      <4>2. guard[e] \cap Clobbers[p] = {}
        BY <1>1, <2>3, <4>1 DEF MarksOf
      <4> QED
        BY <3>2, <4>1, <4>2 DEF Unmarked
    <3>7. CASE PipStarts(t) \/ PipEnds(t) \/ PipFails(t)
      <4>1. guard' = guard /\ reassert' = reassert /\ pc[t] # "clear"
        BY <3>7 DEF PipStarts, PipEnds, PipFails, disk
      <4> QED
        BY <3>2, <4>1 DEF Unmarked
    <3>8. ~(\/ Begin(t) \/ EnterOnce(t) \/ FinishOnce(t) \/ Declare(t) \/ ReadReassert(t)
            \/ Look(t) \/ EnterInstall(t) \/ Recheck(t) \/ AskToRun(t) \/ EnterRun(t)
            \/ DepsInstalled(t) \/ RunEnds(t))
      BY <2>3 DEF Begin, EnterOnce, FinishOnce, Declare, ReadReassert, Look, EnterInstall,
         Recheck, AskToRun, EnterRun, DepsInstalled, RunEnds, Changing
    <3> QED
      BY <1>4, <3>3, <3>4, <3>5, <3>6, <3>7, <3>8 DEF Step
  <2> QED
    BY <2>2, <2>3
<1>5. ASSUME NEW t \in Task, Begin(t) \/ Step(t), NEW u \in Task PROVE MarksOf(u)'
  <2>1. CASE u # t
    <3>1. pc'[u] = pc[u] /\ todo'[u] = todo[u] /\ At(u)' = At(u)
      BY <1>1, <1>5, <2>1, OthersStay DEF At
    <3>2. pc[u] \in Changing =>
              guard'[At(u)] = guard[At(u)] /\ reassert'[At(u)] = reassert[At(u)]
      BY <1>1, <1>5, <2>1, LeftAlone
    <3> QED
      BY <1>1, <3>1, <3>2 DEF MarksOf, Changing
  <2>2. CASE u = t
    <3> DEFINE p == Head(todo[t])
               e == At(t)
    <3>1. CASE pc'[t] \notin {"clear", "drop", "demand"}
      BY <2>2, <3>1 DEF MarksOf
    <3>2. CASE pc'[t] \in {"clear", "drop", "demand"}
      <4>1. pc[t] \in {"pip", "pipping", "touch", "clear", "drop"} /\ phase' = phase /\ todo' = todo
        BY <1>1, <1>5, <3>2, InstallGoesOn
      <4>2. p' = p /\ e' = e /\ e \in Environment
        BY <4>1 DEF At, Environment
      <4>3. /\ pc \in [Task -> Places] /\ guard \in [Environment -> SUBSET Package]
            /\ reassert \in [Environment -> SUBSET Package]
        BY <1>1, Types
      <4> USE DEF Go
      <4>4. CASE TouchGuard(t)
        BY <2>2, <4>2, <4>3, <4>4 DEF TouchGuard, MarksOf
      <4>5. CASE ClearReassert(t)
        <5>1. /\ guard' = guard /\ reassert'[e] = reassert[e] \ {p} /\ pc[t] = "clear"
          BY <4>2, <4>3, <4>5 DEF ClearReassert
        <5>2. pc'[t] = "drop"
          BY <3>2, <4>3, <4>5 DEF ClearReassert, PackageDone
        <5> QED
          BY <1>1, <2>2, <4>2, <5>1, <5>2 DEF MarksOf
      <4>6. CASE DropGuards(t)
        <5>1. /\ guard'[e] = guard[e] \ Clobbers[p] /\ reassert' = reassert /\ pc[t] = "drop"
              /\ pc'[t] = "demand"
          BY <4>2, <4>3, <4>6 DEF DropGuards
        <5>2. p \in guard[e] \ reassert[e]
          BY <1>1, <5>1 DEF MarksOf
        <5> QED
          BY <2>2, <4>2, <5>1, <5>2 DEF MarksOf
      <4>7. CASE ~(TouchGuard(t) \/ ClearReassert(t) \/ DropGuards(t))
        <5>1. CASE PipStarts(t) \/ PipEnds(t) \/ PipFails(t) \/ DemandReassert(t)
          BY <3>2, <4>3, <5>1 DEF PipStarts, PipEnds, PipFails, DemandReassert, PackageDone
        <5>2. ~(\/ Begin(t) \/ EnterOnce(t) \/ FinishOnce(t) \/ Declare(t) \/ ReadReassert(t)
                \/ Look(t) \/ EnterInstall(t) \/ Recheck(t) \/ AskToRun(t) \/ EnterRun(t)
                \/ DepsInstalled(t) \/ RunEnds(t))
          BY <4>1 DEF Begin, EnterOnce, FinishOnce, Declare, ReadReassert, Look, EnterInstall,
             Recheck, AskToRun, EnterRun, DepsInstalled, RunEnds
        <5> QED
          BY <1>5, <4>7, <5>1, <5>2 DEF Step
      <4> QED
        BY <4>4, <4>5, <4>6, <4>7
    <3> QED
      BY <3>1, <3>2
  <2> QED
    BY <2>1, <2>2
<1> QED
  BY <1>2, <1>3, <1>4, <1>5 DEF Next

\* What a task has not declared yet.
Undeclared(t) == IF pc[t] # "idle" /\ phase[t] = "prepare" THEN todo[t] ELSE <<>>

\* A session has declared, or is about to, all that its task needs, in an order in
\* which the v-env can be filled.
DeclaredBy(t) ==
    LET s == setting.sessionOf[t] IN
    /\ Mended(deps[s] \o Undeclared(t))
    /\ pc[t] # "idle" /\ phase[t] # "once" =>
          Range(setting.needs[t]) \subseteq Range(deps[s]) \cup Range(Undeclared(t))
    /\ pc[t] # "idle" /\ phase[t] = "deps" => Mended(todo[t])

\* Every session has what its task declares, unless pip may fail.
DeclaredOK == ~setting.pipMayFail => \A t \in Task : DeclaredBy(t)

\* What is left of a mended list is mended, and holds what its first package overwrote.
LEMMA MendedTail ==
    ASSUME NEW q \in Seq(Package), q # <<>>, Mended(q)
    PROVE  Mended(Tail(q)) /\ Clobbers[Head(q)] \subseteq Range(Tail(q))
<1> DEFINE n == Len(q)
<1>1. n \in Nat \ {0}
  BY EmptySeq, LenProperties
<1>2. /\ Tail(q) \in Seq(Package) /\ Len(Tail(q)) = n - 1 /\ Head(q) = q[1]
      /\ \A i \in 1 .. n - 1 : Tail(q)[i] = q[i + 1]
  BY <1>1, HeadTailProperties, LenProperties
<1>3. DOMAIN Tail(q) = 1 .. n - 1
  BY <1>2, LenProperties
<1> HIDE DEF n
<1>4. ASSUME NEW i \in 1 .. n, NEW c \in Clobbers[q[i]]
      PROVE  \E j \in i .. n - 1 : Tail(q)[j] = c
  <2>1. PICK j \in i + 1 .. n : q[j] = c
    BY <1>4 DEF Mended, n
  <2>2. j - 1 \in i .. n - 1 /\ j - 1 \in 1 .. n - 1 /\ (j - 1) + 1 = j
    BY <1>1, <2>1
  <2> QED
    BY <1>2, <2>1, <2>2
<1>5. Clobbers[Head(q)] \subseteq Range(Tail(q))
  <2> SUFFICES ASSUME NEW c \in Clobbers[q[1]] PROVE c \in Range(Tail(q))
    BY <1>2
  <2>1. 1 \in 1 .. n
    BY <1>1
  <2>2. PICK j \in 1 .. n - 1 : Tail(q)[j] = c
    BY <1>4, <2>1
  <2> QED
    BY <1>3, <2>2 DEF Range
<1>6. Mended(Tail(q))
  <2> DEFINE r == Tail(q)
  <2>1. Len(r) = n - 1 /\ \A i \in 1 .. n - 1 : r[i] = q[i + 1]
    BY <1>2
  <2>2. \A i \in 1 .. n : \A c \in Clobbers[q[i]] : \E j \in i .. n - 1 : r[j] = c
    BY <1>4
  <2> HIDE DEF r
  <2>3. ASSUME NEW i \in 1 .. n - 1, NEW c \in Clobbers[r[i]]
        PROVE  \E j \in i + 1 .. n - 1 : r[j] = c
    <3>1. i + 1 \in 1 .. n /\ c \in Clobbers[q[i + 1]]
      BY <1>1, <2>1, <2>3
    <3> QED
      BY <2>2, <3>1
  <2>4. Mended(r)
    BY <2>1, <2>3 DEF Mended
  <2> QED
    BY <2>4 DEF r
<1> QED
  BY <1>5, <1>6

\* Two mended lists behind one another are mended.
LEMMA MendedBehind ==
    ASSUME NEW q \in Seq(Package), NEW r \in Seq(Package), Mended(q), Mended(r)
    PROVE  Mended(q \o r)
<1> DEFINE m == Len(q)
           n == Len(r)
<1>1. m \in Nat /\ n \in Nat /\ Len(q \o r) = m + n
  BY ConcatProperties, LenProperties
<1>2. \A i \in 1 .. m + n : (q \o r)[i] = IF i <= m THEN q[i] ELSE r[i - m]
  BY <1>1, ConcatProperties
<1> SUFFICES ASSUME NEW i \in 1 .. m + n, NEW c \in Clobbers[(q \o r)[i]]
             PROVE  \E j \in i + 1 .. m + n : (q \o r)[j] = c
  BY <1>1 DEF Mended
<1>3. CASE i <= m
  <2>1. i \in 1 .. m /\ c \in Clobbers[q[i]]
    BY <1>1, <1>2, <1>3
  <2>2. PICK j \in i + 1 .. m : q[j] = c
    BY <2>1 DEF Mended
  <2>3. j \in i + 1 .. m + n /\ j \in 1 .. m + n /\ j <= m
    BY <1>1, <2>1, <2>2
  <2> QED
    BY <1>2, <2>2, <2>3
<1>4. CASE i > m
  <2>1. i - m \in 1 .. n /\ c \in Clobbers[r[i - m]]
    BY <1>1, <1>2, <1>4
  <2>2. PICK j \in (i - m) + 1 .. n : r[j] = c
    BY <2>1 DEF Mended
  <2>3. /\ m + j \in i + 1 .. m + n /\ m + j \in 1 .. m + n /\ ~(m + j <= m)
        /\ (m + j) - m = j
    BY <1>1, <1>4, <2>1, <2>2
  <2> QED
    BY <1>2, <2>2, <2>3
<1> QED
  BY <1>1, <1>3, <1>4

\* What is declared moves from one list to the end of the other.
LEMMA DeclaredMoves ==
    ASSUME NEW d \in Seq(Package), NEW q \in Seq(Package), q # <<>>
    PROVE  Append(d, Head(q)) \o Tail(q) = d \o q
<1> DEFINE m == Len(d)
           n == Len(q)
           a == Append(d, Head(q))
<1>1. m \in Nat /\ n \in Nat \ {0} /\ Head(q) \in Package /\ Tail(q) \in Seq(Package)
  BY EmptySeq, LenProperties, TailTypes
<1>2. Len(Tail(q)) = n - 1 /\ Head(q) = q[1] /\ \A i \in 1 .. n - 1 : Tail(q)[i] = q[i + 1]
  BY <1>1, HeadTailProperties
<1>3. /\ a \in Seq(Package) /\ Len(a) = m + 1 /\ \A i \in 1 .. m : a[i] = d[i]
      /\ a[m + 1] = Head(q)
  BY <1>1, AppendProperties
<1>4. /\ a \o Tail(q) \in Seq(Package) /\ d \o q \in Seq(Package)
      /\ Len(a \o Tail(q)) = (m + 1) + (n - 1) /\ Len(d \o q) = m + n
      /\ \A i \in 1 .. (m + 1) + (n - 1) :
             (a \o Tail(q))[i] = IF i <= m + 1 THEN a[i] ELSE Tail(q)[i - (m + 1)]
      /\ \A i \in 1 .. m + n : (d \o q)[i] = IF i <= m THEN d[i] ELSE q[i - m]
  BY <1>1, <1>2, <1>3, ConcatProperties
<1> HIDE DEF m, n, a
<1>5. ASSUME NEW i \in 1 .. m + n PROVE (a \o Tail(q))[i] = (d \o q)[i]
  <2>1. i \in 1 .. (m + 1) + (n - 1)
    BY <1>1
  <2>2. CASE i <= m
    <3>1. i \in 1 .. m /\ i <= m + 1
      BY <1>1, <2>2
    <3>2. (a \o Tail(q))[i] = a[i] /\ (d \o q)[i] = d[i]
      BY <1>4, <2>1, <2>2, <3>1
    <3> QED
      BY <1>3, <3>1, <3>2
  <2>3. CASE i = m + 1
    <3>1. (a \o Tail(q))[i] = q[1]
      BY <1>1, <1>2, <1>3, <1>4, <2>1, <2>3
    <3>2. i - m = 1 /\ ~(i <= m)
      BY <1>1, <2>3
    <3> QED
      BY <1>4, <3>1, <3>2
  <2>4. CASE i > m + 1
    <3>1. /\ i - (m + 1) \in 1 .. n - 1 /\ (i - (m + 1)) + 1 = i - m /\ ~(i <= m)
          /\ ~(i <= m + 1)
      BY <1>1, <2>4
    <3> QED
      BY <1>2, <1>4, <2>1, <3>1
  <2>5. i <= m \/ i = m + 1 \/ i > m + 1
    BY <1>1
  <2> QED
    BY <2>2, <2>3, <2>4, <2>5
<1>6. Len(a \o Tail(q)) = m + n
  BY <1>1, <1>4
<1> QED
  BY <1>4, <1>5, <1>6, SeqEqual DEF a

\* Nothing is behind or before an empty list.
LEMMA BehindNothing == ASSUME NEW q \in Seq(Package) PROVE q \o <<>> = q /\ Range(<<>>) = {}
BY ConcatEmptySeq DEF Range

\* Nothing is declared, and no render goes on, before the runtime is provisioned; and
\* once it is, nobody installs into it as a part of provisioning it.
ProvisionedOK ==
    /\ \A t \in Task : pc[t] # "idle" /\ phase[t] # "once" => provisioned
    /\ \A s \in Session : deps[s] # <<>> => provisioned
    /\ provisioned =>
          /\ initialized
          /\ \A t \in Task : phase[t] = "once" /\ pc[t] \notin {"idle", "wait"} => todo[t] = <<>>

\* The runtime is provisioned once (once).
LEMMA StepProvisioned == AloneInv /\ ProvisionedOK /\ [Next]_vars => ProvisionedOK'
<1> SUFFICES ASSUME AloneInv, ProvisionedOK, [Next]_vars PROVE ProvisionedOK'
  OBVIOUS
<1>1. TypeOK /\ ControlOK
  BY DEF AloneInv
<1>2. CASE UNCHANGED vars \/ Terminated
  BY <1>2 DEF ProvisionedOK, vars, Terminated, memory, control
<1>3. CASE Crash
  BY <1>3 DEF Crash, ProvisionedOK
<1>4. ASSUME NEW t \in Task, Begin(t) \/ Step(t) PROVE ProvisionedOK'
  <2>1. /\ pc \in [Task -> Places] /\ phase \in [Task -> {"once", "prepare", "run", "deps"}]
        /\ todo \in [Task -> Seq(Package)] /\ deps \in [Session -> Seq(Package)] /\ InOrder(t)
    BY <1>1, Types DEF ControlOK
  <2>2. \A u \in Task \ {t} : pc'[u] = pc[u] /\ phase'[u] = phase[u] /\ todo'[u] = todo[u]
    BY <1>1, <1>4, OthersStay
  <2> DEFINE Own == \/ pc'[t] = "idle"
                    \/ phase'[t] = "once" /\ ~provisioned
                    \/ phase'[t] = "once" /\ (pc'[t] = "wait" \/ todo'[t] = <<>>)
                    \/ phase'[t] # "once" /\ provisioned
  <2>3. provisioned' = provisioned /\ initialized' = initialized /\ deps' = deps /\ Own
            => ProvisionedOK'
    BY <2>2 DEF ProvisionedOK
  <2> USE DEF Go
  <2>4. CASE FinishOnce(t)
    <3>1. /\ provisioned' /\ initialized' /\ phase'[t] = "prepare" /\ deps' = deps
          /\ pc[t] = "ensure" /\ phase[t] = "once"
      BY <2>1, <2>4 DEF FinishOnce, StartPreparing
    <3>2. \A u \in Task : Within(u) /\ lockOn[u] = Base => u = t
      BY <3>1, ChangersAreAlone DEF At, Environment
    <3>3. \A u \in Task \ {t} : phase[u] = "once" => pc[u] \in {"idle", "wait"}
      <4> SUFFICES ASSUME NEW u \in Task \ {t}, phase[u] = "once", pc[u] \notin {"idle", "wait"}
                   PROVE  FALSE
        OBVIOUS
      <4>1. pc[u] \in Places /\ InOrder(u)
        BY <2>1, <1>1 DEF ControlOK
      <4>2. Within(u)
        BY <4>1 DEF Within, Changing, Places
      <4>3. lockOn[u] = Base
        BY <4>1, <4>2 DEF InOrder
      <4> QED
        BY <3>2, <4>2, <4>3
    <3> QED
      BY <2>2, <3>1, <3>3 DEF ProvisionedOK
  <2>5. CASE Declare(t)
    <3>1. /\ provisioned' = provisioned /\ initialized' = initialized /\ phase' = phase
          /\ pc' = pc /\ pc[t] = "ensure" /\ phase[t] = "prepare"
      BY <2>5 DEF Declare
    <3>2. provisioned
      BY <3>1 DEF ProvisionedOK
    <3> QED
      BY <2>2, <3>1, <3>2 DEF ProvisionedOK
  <2>6. CASE Begin(t)
    BY <2>1, <2>3, <2>6 DEF Begin, StartPreparing, memory
  <2>7. CASE EnterOnce(t)
    <3>1. todo'[t] = <<>> \/ ~initialized
      BY <2>1, <2>7 DEF EnterOnce
    <3>2. Own
      BY <2>1, <2>7, <3>1 DEF EnterOnce, ProvisionedOK
    <3> QED
      BY <2>3, <2>7, <3>2 DEF EnterOnce, memory
  <2>8. CASE ReadReassert(t) \/ EnterInstall(t)
    BY <2>1, <2>3, <2>8 DEF ReadReassert, EnterInstall, memory, ProvisionedOK
  <2>9. CASE Look(t) \/ Recheck(t)
    <3>1. todo[t] # <<>> /\ pc[t] \in {"look", "recheck"} /\ phase' = phase
      BY <2>1, <2>9 DEF InOrder, Look, Recheck
    <3>2. phase[t] = "once" => ~provisioned
      BY <3>1 DEF ProvisionedOK
    <3>3. Own
      BY <2>1, <3>1, <3>2 DEF ProvisionedOK
    <3> QED
      BY <2>3, <2>9, <3>3 DEF Look, Recheck, memory
  <2>10. CASE \/ PipStarts(t) \/ PipEnds(t) \/ PipFails(t) \/ TouchGuard(t)
              \/ ClearReassert(t) \/ DropGuards(t) \/ DemandReassert(t)
    <3>1. pc[t] \in Changing /\ phase' = phase
      BY <2>10 DEF PipStarts, PipEnds, PipFails, TouchGuard, ClearReassert, DropGuards,
         DemandReassert, Changing
    <3>2. todo[t] # <<>>
      BY <2>1, <3>1 DEF InOrder
    <3>3. phase[t] = "once" => ~provisioned
      BY <3>1, <3>2 DEF ProvisionedOK, Changing
    <3>4. Own
      BY <2>1, <3>1, <3>3 DEF ProvisionedOK, Changing
    <3> QED
      BY <2>3, <2>10, <3>4 DEF memory, PipStarts, PipEnds, PipFails, TouchGuard,
         ClearReassert, DropGuards, DemandReassert
  <2>11. CASE AskToRun(t) \/ EnterRun(t) \/ RunEnds(t)
    <3>1. Own
      BY <2>1, <2>11 DEF AskToRun, EnterRun, RunEnds, ProvisionedOK
    <3> QED
      BY <2>3, <2>11, <3>1 DEF AskToRun, EnterRun, RunEnds, memory
  <2>12. CASE DepsInstalled(t)
    <3>1. Own
      BY <2>1, <2>12 DEF DepsInstalled, ProvisionedOK
    <3> QED
      BY <2>3, <2>12, <3>1 DEF DepsInstalled
  <2> QED
    BY <1>4, <2>4, <2>5, <2>6, <2>7, <2>8, <2>9, <2>10, <2>11, <2>12 DEF Step
<1> QED
  BY <1>2, <1>3, <1>4 DEF Next

\* A session goes on from one list of needs to the next.
LEMMA StepDeclared ==
    ASSUME OwnSessions, \A s \in Setting : Declared(s), TypeOK, ControlOK, DeclaredOK,
           [Next]_vars
    PROVE  DeclaredOK'
<1>1. setting' = setting /\ setting \in Setting /\ SettingOK(setting) /\ Declared(setting)
  BY SettingStays, Types, SandboxAssumption
<1> SUFFICES ASSUME ~setting.pipMayFail, NEW u \in Task PROVE DeclaredBy(u)'
  BY <1>1 DEF DeclaredOK
<1> DEFINE s == setting.sessionOf[u]
<1>2. /\ s \in Session /\ s # NoSession /\ u \in setting.runsInSession
      /\ setting.needs[u] \in Seq(Package) /\ Mended(setting.needs[u])
  BY <1>1, SandboxAssumption DEF SettingOK, Declared
<1>3. DeclaredBy(u) /\ InOrder(u)
  BY DEF DeclaredOK, ControlOK
<1>4. CASE UNCHANGED vars \/ Terminated
  <2>1. UNCHANGED <<pc, phase, todo, deps>>
    BY <1>4 DEF vars, Terminated, memory, control
  <2>2. Undeclared(u)' = Undeclared(u)
    BY <2>1 DEF Undeclared
  <2> QED
    BY <1>1, <1>3, <2>1, <2>2 DEF DeclaredBy
<1>5. CASE Crash
  <2>1. deps'[s] = <<>> /\ pc'[u] = "idle"
    BY <1>2, <1>5 DEF Crash
  <2>2. Undeclared(u)' = <<>>
    BY <2>1 DEF Undeclared
  <2>3. Mended(<<>> \o <<>>)
    <3>1. <<>> \o <<>> = <<>>
      BY BehindNothing, EmptySeq
    <3> QED
      BY <3>1 DEF Mended
  <2> QED
    BY <1>1, <2>1, <2>2, <2>3 DEF DeclaredBy
<1>6. ASSUME NEW t \in Task, Begin(t) \/ Step(t), u # t PROVE DeclaredBy(u)'
  <2>1. pc'[u] = pc[u] /\ phase'[u] = phase[u] /\ todo'[u] = todo[u]
    BY <1>6, OthersStay
  <2>2. deps'[s] = deps[s]
    BY <1>1, <1>2, <1>6, SessionsStay DEF OwnSessions
  <2>3. Undeclared(u)' = Undeclared(u)
    BY <2>1 DEF Undeclared
  <2> QED
    BY <1>1, <1>3, <2>1, <2>2, <2>3 DEF DeclaredBy
<1>7. ASSUME Begin(u) \/ Step(u) PROVE DeclaredBy(u)'
  <2>1. /\ pc \in [Task -> Places] /\ phase \in [Task -> {"once", "prepare", "run", "deps"}]
        /\ todo \in [Task -> Seq(Package)] /\ deps \in [Session -> Seq(Package)]
        /\ deps[s] \in Seq(Package) /\ todo[u] \in Seq(Package)
    BY <1>2, Types
  <2>2. deps[s] \o <<>> = deps[s] /\ Range(<<>>) = {}
    BY <2>1, BehindNothing
  <2>3. pc[u] \in Changing \cup {"look", "recheck"} => phase[u] \in {"once", "deps"}
    BY <1>2, <1>3, <2>1 DEF InOrder, Changing
  <2> USE DEF Go
  <2>4. CASE Begin(u) \/ FinishOnce(u)
    <3>1. Undeclared(u) = <<>> /\ deps' = deps
      BY <2>4 DEF Begin, FinishOnce, Undeclared, memory
    <3>2. Mended(deps[s])
      BY <1>3, <2>2, <3>1 DEF DeclaredBy
    <3>3. CASE phase'[u] = "once"
      <4>1. Undeclared(u)' = <<>>
        BY <3>3 DEF Undeclared
      <4> QED
        BY <1>1, <2>2, <3>1, <3>2, <3>3, <4>1 DEF DeclaredBy
    <3>4. CASE phase'[u] # "once"
      <4>1. phase'[u] = "prepare" /\ pc'[u] = "ensure" /\ todo'[u] = setting.needs[u]
        BY <2>1, <2>4, <3>4 DEF Begin, FinishOnce, StartPreparing
      <4>2. Undeclared(u)' = setting.needs[u]
        BY <4>1 DEF Undeclared
      <4>3. Mended(deps[s] \o setting.needs[u])
        BY <1>2, <2>1, <3>2, MendedBehind
      <4> QED
        BY <1>1, <3>1, <4>1, <4>2, <4>3 DEF DeclaredBy
    <3> QED
      BY <3>3, <3>4
  <2>5. CASE Declare(u)
    <3>1. /\ pc' = pc /\ phase' = phase /\ pc[u] = "ensure" /\ phase[u] = "prepare"
          /\ todo[u] # <<>> /\ todo'[u] = Tail(todo[u])
          /\ deps'[s] = Append(deps[s], Head(todo[u]))
      BY <1>2, <2>1, <2>5 DEF Declare
    <3>2. Undeclared(u) = todo[u] /\ Undeclared(u)' = Tail(todo[u])
      BY <3>1 DEF Undeclared
    <3>3. Append(deps[s], Head(todo[u])) \o Tail(todo[u]) = deps[s] \o todo[u]
      BY <2>1, <3>1, DeclaredMoves
    <3>4. /\ Range(Append(deps[s], Head(todo[u]))) = Range(deps[s]) \cup {Head(todo[u])}
          /\ Range(todo[u]) = {Head(todo[u])} \cup Range(Tail(todo[u]))
      BY <2>1, <3>1, TailTypes, AppendTypes
    <3> QED
      BY <1>1, <1>3, <3>1, <3>2, <3>3, <3>4 DEF DeclaredBy
  <2>6. CASE AskToRun(u)
    <3>1. /\ Undeclared(u) = <<>> /\ deps' = deps /\ pc'[u] = "wait" /\ phase'[u] = "run"
          /\ pc[u] = "ensure" /\ phase[u] = "prepare"
      BY <2>1, <2>6 DEF AskToRun, Undeclared, memory
    <3>2. Undeclared(u)' = <<>>
      BY <3>1 DEF Undeclared
    <3> QED
      BY <1>1, <1>3, <3>1, <3>2 DEF DeclaredBy
  <2>7. CASE EnterRun(u)
    <3>1. /\ deps' = deps /\ pc[u] = "wait" /\ phase[u] = "run" /\ pc'[u] \in {"ensure", "running"}
          /\ \/ phase'[u] = "deps" /\ todo'[u] = deps[s]
             \/ phase'[u] = "run"
      BY <2>1, <2>7 DEF EnterRun, memory
    <3>2. Undeclared(u) = <<>> /\ Undeclared(u)' = <<>>
      BY <3>1 DEF Undeclared
    <3>3. Mended(deps[s])
      BY <1>3, <2>2, <3>2 DEF DeclaredBy
    <3> QED
      BY <1>1, <1>3, <3>1, <3>2, <3>3 DEF DeclaredBy
  <2>8. CASE EnterOnce(u) \/ DepsInstalled(u) \/ RunEnds(u)
    <3>1. /\ deps' = deps /\ Undeclared(u) = <<>>
      BY <1>3, <2>8 DEF EnterOnce, DepsInstalled, RunEnds, Undeclared, memory, InOrder
    <3>2. /\ Undeclared(u)' = <<>> /\ pc[u] # "idle"
          /\ \/ pc'[u] = "idle"
             \/ phase'[u] = "once"
             \/ phase'[u] = "run" /\ phase[u] = "deps"
      BY <1>3, <2>1, <2>8 DEF EnterOnce, DepsInstalled, RunEnds, Undeclared
    <3> QED
      BY <1>1, <1>3, <3>1, <3>2 DEF DeclaredBy
  <2>9. CASE \/ ReadReassert(u) \/ Look(u) \/ EnterInstall(u) \/ Recheck(u) \/ PipStarts(u)
             \/ PipEnds(u) \/ PipFails(u) \/ TouchGuard(u) \/ ClearReassert(u)
             \/ DropGuards(u) \/ DemandReassert(u)
    <3>1. /\ deps' = deps /\ phase' = phase /\ pc[u] # "idle"
          /\ pc[u] \in Changing \cup {"look", "recheck", "ensure", "wait"}
      BY <2>9 DEF ReadReassert, Look, EnterInstall, Recheck, PipStarts, PipEnds, PipFails,
         TouchGuard, ClearReassert, DropGuards, DemandReassert, memory, Changing
    <3>2. phase[u] \in {"once", "deps"}
      <4>1. CASE ReadReassert(u)
        BY <1>2, <1>3, <2>1, <4>1 DEF ReadReassert, InOrder
      <4>2. CASE ~EnterInstall(u) /\ ~ReadReassert(u)
        <5>1. pc[u] \in Changing \cup {"look", "recheck"}
          BY <2>9, <4>2 DEF Look, Recheck, PipStarts, PipEnds, PipFails,
             TouchGuard, ClearReassert, DropGuards, DemandReassert, Changing
        <5> QED
          BY <2>3, <5>1
      <4>3. ~EnterInstall(u)
        BY <1>2, <1>3 DEF EnterInstall, InOrder
      <4> QED
        BY <4>1, <4>2, <4>3
    <3>3. Undeclared(u) = <<>> /\ Undeclared(u)' = <<>>
      BY <3>1, <3>2 DEF Undeclared
    <3>4. todo'[u] = todo[u] \/ (todo[u] # <<>> /\ todo'[u] = Tail(todo[u]))
      <4>1. CASE ReadReassert(u) \/ EnterInstall(u) \/ PipStarts(u) \/ PipEnds(u)
                 \/ PipFails(u) \/ TouchGuard(u) \/ DropGuards(u)
        BY <4>1 DEF ReadReassert, EnterInstall, PipStarts, PipEnds, PipFails, TouchGuard,
           DropGuards
      <4>2. CASE Look(u) \/ Recheck(u) \/ ClearReassert(u) \/ DemandReassert(u)
        BY <1>3, <2>1, <4>2 DEF Look, Recheck, ClearReassert, DemandReassert, PackageDone,
           InOrder, Changing
      <4> QED
        BY <2>9, <4>1, <4>2
    <3>5. Mended(todo[u]) => Mended(todo'[u])
      BY <2>1, <3>4, MendedTail
    <3> QED
      BY <1>1, <1>3, <3>1, <3>2, <3>3, <3>5 DEF DeclaredBy
  <2> QED
    BY <1>7, <2>4, <2>5, <2>6, <2>7, <2>8, <2>9 DEF Step
<1> QED
  BY <1>4, <1>5, <1>6, <1>7 DEF Next

\* The packages that an environment has for good.
There(e) == guard[e] \ reassert[e]

\* A package of the v-env that a task is putting there, or back.
BeingInstalled(p) ==
    \E u \in Task : pc[u] # "idle" /\ phase[u] = "deps" /\ p \in Range(todo[u])

\* A session that runs out of the runtime has all it declared there, and one that runs
\* out of the v-env has what it has put there, but for what is being put back.
Met(s) ==
    /\ ~dirty[s] => Range(deps[s]) \subseteq guard[Base]
    /\ \A p \in installed[s] : p \in There(Venv) \/ BeingInstalled(p)

\* A task that fills the v-env has what it has done there, and one that runs out of it
\* has put there what its session declared.
MetFor(t) ==
    LET s == setting.sessionOf[t] IN
    /\ pc[t] # "idle" /\ phase[t] = "deps" =>
           Range(deps[s]) \subseteq There(Venv) \cup Range(todo[t])
    /\ pc[t] = "running" /\ runsIn[t] = Venv => Range(deps[s]) \subseteq installed[s]

\* Every session has what it needs where it needs it, while pip is reliable.
NeedsOK == Reliable => /\ \A s \in Session : Met(s)
                       /\ \A t \in Task : MetFor(t)

\* The invariant behind NeedsAreMet.
NeedsInv == TruthInv /\ MarksOK /\ ProvisionedOK /\ DeclaredOK /\ NeedsOK

\* All that the step lemmas below start from.
LEMMA Unfolded ==
    ASSUME NeedsInv, Reliable, \A s \in Setting : Declared(s), NEW t \in Task
    PROVE  /\ TypeOK /\ AloneInv /\ TruthInv /\ InOrder(t) /\ AsAsked(t) /\ DeclaredBy(t)
           /\ MetFor(t) /\ MarksOf(t)
           /\ setting.sessionOf[t] \in Session /\ setting.sessionOf[t] # NoSession
           /\ t \in setting.runsInSession
<1>1. setting \in Setting /\ SettingOK(setting) /\ Declared(setting)
  BY Types, SandboxAssumption DEF NeedsInv, TruthInv, AloneInv
<1>2. setting.sessionOf[t] \in Session /\ t \in setting.runsInSession
  BY <1>1 DEF SettingOK, Declared, Reliable
<1> QED
  BY <1>2, SandboxAssumption
  DEF NeedsInv, TruthInv, AloneInv, ControlOK, SessionsOK, DeclaredOK, NeedsOK, MarksOK,
      Reliable

\* Where a task installs: into a runtime that is not provisioned yet, or into the v-env.
LEMMA WhereInstalled ==
    ASSUME NeedsInv, Reliable, \A s \in Setting : Declared(s), NEW t \in Task,
           pc[t] \in Changing \cup {"look", "recheck"}
    PROVE  \/ phase[t] = "once" /\ At(t) = Base /\ ~provisioned
           \/ phase[t] = "deps" /\ At(t) = Venv
<1>1. InOrder(t) /\ setting.sessionOf[t] # NoSession /\ phase[t] \in {"once", "prepare", "run", "deps"}
  BY Unfolded, Types
<1>2. phase[t] \in {"once", "deps"} /\ todo[t] # <<>>
  BY <1>1 DEF InOrder, Changing
<1>3. phase[t] = "once" => ~provisioned
  BY <1>2 DEF NeedsInv, ProvisionedOK, Changing
<1> QED
  BY <1>2, <1>3 DEF At

\* Filling the v-env loses nothing: what an install overwrites is asked for again
\* behind it, and what is ticked off is there.
LEMMA VenvKeeps ==
    ASSUME NeedsInv, Reliable, \A s \in Setting : Declared(s), NEW t \in Task,
           Begin(t) \/ Step(t), pc[t] # "idle", phase[t] = "deps"
    PROVE  /\ There(Venv) \cup Range(todo[t]) \subseteq There(Venv)' \cup Range(todo'[t])
           /\ \/ pc'[t] # "idle" /\ phase'[t] = "deps"
              \/ DepsInstalled(t) /\ todo[t] = <<>> /\ todo' = todo
<1> DEFINE p == Head(todo[t])
<1>1. /\ TypeOK /\ InOrder(t) /\ DeclaredBy(t) /\ MarksOf(t) /\ At(t) = Venv
      /\ ForceOK
  BY Unfolded DEF At, NeedsInv, TruthInv
<1>2. /\ pc \in [Task -> Places] /\ phase \in [Task -> {"once", "prepare", "run", "deps"}]
      /\ todo \in [Task -> Seq(Package)] /\ todo[t] \in Seq(Package)
      /\ guard \in [Environment -> SUBSET Package]
      /\ reassert \in [Environment -> SUBSET Package] /\ Venv \in Environment
  BY <1>1, Types DEF Environment
<1>3. todo[t] # <<>> => /\ Range(todo[t]) = {p} \cup Range(Tail(todo[t]))
                        /\ Clobbers[p] \subseteq Range(Tail(todo[t]))
  BY <1>1, <1>2, TailTypes, MendedTail DEF DeclaredBy
<1>4. pc[t] \in Changing \cup {"look"} => todo[t] # <<>>
  BY <1>1 DEF InOrder
<1> USE DEF Go
<1>5. CASE DepsInstalled(t)
  <2>1. UNCHANGED <<guard, reassert, todo>> /\ todo[t] = <<>>
    BY <1>5 DEF DepsInstalled, disk
  <2> QED
    BY <1>5, <2>1 DEF There
<1>6. CASE ReadReassert(t) \/ PipStarts(t) \/ PipEnds(t) \/ PipFails(t)
  <2>1. UNCHANGED <<guard, reassert, todo, phase>> /\ pc'[t] # "idle"
    BY <1>2, <1>6 DEF ReadReassert, PipStarts, PipEnds, PipFails, disk
  <2> QED
    BY <2>1 DEF There
<1>7. CASE Look(t)
  <2>1. UNCHANGED <<guard, reassert, phase>> /\ pc'[t] # "idle" /\ pc[t] = "look"
    BY <1>2, <1>7 DEF Look, disk
  <2>2. \/ todo' = todo
        \/ todo'[t] = Tail(todo[t]) /\ Holds(t, p)
    BY <1>2, <1>7 DEF Look
  <2>3. Holds(t, p) => p \in There(Venv)
    BY <1>1, <2>1 DEF Holds, ForceOK, There
  <2> QED
    BY <1>3, <1>4, <2>1, <2>2, <2>3 DEF There
<1>8. CASE TouchGuard(t)
  <2>1. /\ guard[Venv] \subseteq guard'[Venv] /\ UNCHANGED <<reassert, todo, phase>>
        /\ pc'[t] # "idle"
    BY <1>1, <1>2, <1>8 DEF TouchGuard
  <2> QED
    BY <2>1 DEF There
<1>9. CASE ClearReassert(t)
  <2>1. /\ reassert'[Venv] = reassert[Venv] \ {p} /\ UNCHANGED <<guard, phase>>
        /\ pc'[t] # "idle" /\ pc[t] = "clear"
        /\ todo'[t] \in {todo[t], Tail(todo[t])}
    BY <1>1, <1>2, <1>9 DEF ClearReassert, PackageDone
  <2>2. p \in guard[Venv]
    BY <1>1, <2>1 DEF MarksOf
  <2> QED
    BY <1>3, <1>4, <2>1, <2>2 DEF There, Changing
<1>10. CASE DropGuards(t)
  <2>1. /\ guard'[Venv] = guard[Venv] \ Clobbers[p] /\ UNCHANGED <<reassert, phase, todo>>
        /\ pc'[t] # "idle" /\ pc[t] = "drop"
    BY <1>1, <1>2, <1>10 DEF DropGuards
  <2> QED
    BY <1>3, <1>4, <2>1 DEF There, Changing
<1>11. CASE DemandReassert(t)
  <2>1. /\ reassert'[Venv] = reassert[Venv] \cup Clobbers[p] /\ UNCHANGED <<guard, phase>>
        /\ pc'[t] # "idle" /\ pc[t] = "demand" /\ todo'[t] = Tail(todo[t])
    BY <1>1, <1>2, <1>11 DEF DemandReassert, PackageDone
  <2>2. p \in There(Venv) \cup Clobbers[p]
    BY <1>1, <2>1 DEF MarksOf, There
  <2> QED
    BY <1>3, <1>4, <2>1, <2>2 DEF There, Changing
<1>12. ~(\/ Begin(t) \/ EnterOnce(t) \/ FinishOnce(t) \/ Declare(t) \/ EnterInstall(t)
         \/ Recheck(t) \/ AskToRun(t) \/ EnterRun(t) \/ RunEnds(t))
  BY <1>1 DEF Begin, EnterOnce, FinishOnce, Declare, EnterInstall, Recheck, AskToRun, EnterRun,
     RunEnds, InOrder
<1> QED
  BY <1>5, <1>6, <1>7, <1>8, <1>9, <1>10, <1>11, <1>12 DEF Step

\* What is in the v-env, or on its way there, does not get lost.
LEMMA NothingLost ==
    ASSUME NeedsInv, Reliable, \A s \in Setting : Declared(s), NEW t \in Task,
           Begin(t) \/ Step(t), NEW x, x \in There(Venv) \/ BeingInstalled(x)
    PROVE  x \in There(Venv)' \/ BeingInstalled(x)'
<1>1. TypeOK
  BY Unfolded
<1>2. CASE pc[t] # "idle" /\ phase[t] = "deps"
  <2>1. /\ There(Venv) \cup Range(todo[t]) \subseteq There(Venv)' \cup Range(todo'[t])
        /\ \/ pc'[t] # "idle" /\ phase'[t] = "deps"
           \/ DepsInstalled(t) /\ todo[t] = <<>> /\ todo' = todo
    BY <1>2, VenvKeeps
  <2>2. CASE x \in There(Venv) \cup Range(todo[t])
    <3>1. CASE pc'[t] # "idle" /\ phase'[t] = "deps"
      BY <2>1, <2>2, <3>1 DEF BeingInstalled
    <3>2. CASE DepsInstalled(t) /\ todo[t] = <<>> /\ todo' = todo
      <4>1. Range(todo'[t]) = {}
        BY <3>2 DEF Range
      <4> QED
        BY <2>1, <2>2, <4>1
    <3> QED
      BY <2>1, <3>1, <3>2
  <2>3. CASE x \notin There(Venv) \cup Range(todo[t])
    <3>1. PICK u \in Task : pc[u] # "idle" /\ phase[u] = "deps" /\ x \in Range(todo[u])
      BY <2>3 DEF BeingInstalled
    <3>2. u # t
      BY <2>3, <3>1
    <3>3. pc'[u] = pc[u] /\ phase'[u] = phase[u] /\ todo'[u] = todo[u]
      BY <1>1, <3>2, OthersStay
    <3> QED
      BY <3>1, <3>3 DEF BeingInstalled
  <2> QED
    BY <2>2, <2>3
<1>3. CASE ~(pc[t] # "idle" /\ phase[t] = "deps")
  <2>1. guard'[Venv] = guard[Venv] /\ reassert'[Venv] = reassert[Venv]
    <3>1. At(t) # Venv \/ pc[t] \notin Changing
      BY <1>3 DEF At, Changing, Base, Venv
    <3> QED
      BY <1>1, <3>1, DiskStays DEF Environment
  <2>2. CASE x \in There(Venv)
    BY <2>1, <2>2 DEF There
  <2>3. CASE BeingInstalled(x)
    <3>1. PICK u \in Task : pc[u] # "idle" /\ phase[u] = "deps" /\ x \in Range(todo[u])
      BY <2>3 DEF BeingInstalled
    <3>2. pc'[u] = pc[u] /\ phase'[u] = phase[u] /\ todo'[u] = todo[u]
      BY <1>1, <1>3, <3>1, OthersStay
    <3> QED
      BY <3>1, <3>2 DEF BeingInstalled
  <2> QED
    BY <2>2, <2>3
<1> QED
  BY <1>2, <1>3

\* What a session declared is where it runs.
LEMMA StepMet ==
    ASSUME OwnSessions, NeedsInv, Reliable, \A s \in Setting : Declared(s),
           setting' = setting, NEW t \in Task, Begin(t) \/ Step(t), NEW s \in Session
    PROVE  Met(s)'
<1>1. /\ TypeOK /\ MetFor(t) /\ Met(s) /\ setting.sessionOf[t] \in Session
  BY Unfolded DEF NeedsInv, NeedsOK
<1>2. /\ deps \in [Session -> Seq(Package)] /\ installed \in [Session -> SUBSET Package]
      /\ dirty \in [Session -> BOOLEAN] /\ todo \in [Task -> Seq(Package)]
  BY <1>1, Types
<1>3. ~dirty'[s] => Range(deps'[s]) \subseteq guard'[Base]
  <2>1. CASE Declare(t) /\ s = setting.sessionOf[t]
    <3> DEFINE p == Head(todo[t])
               b == dirty[s] \/ p \notin guard[Base]
    <3>1. /\ todo[t] # <<>> /\ deps' = [deps EXCEPT ![s] = Append(@, p)] /\ guard' = guard
          /\ b \in BOOLEAN /\ dirty' = [dirty EXCEPT ![s] = b]
      BY <2>1 DEF Declare, disk
    <3>2. p \in Package /\ deps'[s] = Append(deps[s], p)
      BY <1>2, <3>1, TailTypes
    <3>3. Range(deps'[s]) = Range(deps[s]) \cup {p}
      BY <1>2, <3>2, AppendTypes
    <3> HIDE DEF b
    <3>4. dirty'[s] = b
      BY <1>2, <3>1
    <3>5. ~b => ~dirty[s] /\ p \in guard[Base]
      BY DEF b
    <3> QED
      BY <1>1, <3>1, <3>3, <3>4, <3>5 DEF Met
  <2>2. CASE ~(Declare(t) /\ s = setting.sessionOf[t])
    <3>1. deps'[s] = deps[s] /\ dirty'[s] = dirty[s]
      <4>1. CASE s # setting.sessionOf[t]
        BY <1>1, <4>1, SessionsStay
      <4>2. CASE ~Declare(t)
        BY <4>2 DEF Step, memory, Begin, EnterOnce, FinishOnce, ReadReassert, Look,
           EnterInstall, Recheck, PipStarts, PipEnds, PipFails, TouchGuard, ClearReassert,
           DropGuards, DemandReassert, AskToRun, EnterRun, DepsInstalled, RunEnds
      <4> QED
        BY <2>2, <4>1, <4>2
    <3>2. CASE At(t) = Base /\ pc[t] \in Changing
      <4>1. ~provisioned
        BY <3>2, WhereInstalled DEF Base, Venv
      <4>2. deps[s] = <<>>
        BY <4>1 DEF NeedsInv, ProvisionedOK
      <4> QED
        BY <3>1, <4>2 DEF Range
    <3>3. CASE ~(At(t) = Base /\ pc[t] \in Changing)
      <4>1. guard'[Base] = guard[Base]
        BY <1>1, <3>3, DiskStays DEF Environment
      <4> QED
        BY <1>1, <3>1, <4>1 DEF Met
    <3> QED
      BY <3>2, <3>3
  <2> QED
    BY <2>1, <2>2
<1>4. ASSUME NEW x \in installed'[s] PROVE x \in There(Venv)' \/ BeingInstalled(x)'
  <2>1. x \in installed[s] \/ (DepsInstalled(t) /\ s = setting.sessionOf[t] /\ x \in Range(deps[s]))
    <3>1. CASE DepsInstalled(t)
      <4>1. installed' = [installed EXCEPT ![setting.sessionOf[t]] =
                              @ \cup Range(deps[setting.sessionOf[t]])]
        BY <3>1 DEF DepsInstalled
      <4> QED
        BY <1>2, <1>4, <3>1, <4>1
    <3>2. CASE ~DepsInstalled(t)
      <4>1. installed' = installed
        BY <3>2 DEF Step, memory, Begin, EnterOnce, FinishOnce, Declare, ReadReassert, Look,
           EnterInstall, Recheck, PipStarts, PipEnds, PipFails, TouchGuard, ClearReassert,
           DropGuards, DemandReassert, AskToRun, EnterRun, RunEnds
      <4> QED
        BY <1>4, <4>1
    <3> QED
      BY <3>1, <3>2
  <2>2. DepsInstalled(t) => pc[t] = "ensure" /\ phase[t] = "deps" /\ todo[t] = <<>>
    BY DEF DepsInstalled
  <2>3. DepsInstalled(t) /\ s = setting.sessionOf[t] => Range(deps[s]) \subseteq There(Venv)
    BY <1>1, <2>2 DEF MetFor, Range
  <2>4. x \in There(Venv) \/ BeingInstalled(x)
    BY <1>1, <2>1, <2>3 DEF Met
  <2> QED
    BY <2>4, NothingLost
<1> QED
  BY <1>3, <1>4 DEF Met

\* What a task fills the v-env with stays there until it runs.
LEMMA StepMetFor ==
    ASSUME OwnSessions, NeedsInv, Reliable, \A s \in Setting : Declared(s),
           setting' = setting, NEW t \in Task, Begin(t) \/ Step(t), NEW u \in Task
    PROVE  MetFor(u)'
<1> DEFINE s == setting.sessionOf[u]
<1>1. /\ TypeOK /\ AloneInv /\ InOrder(u) /\ AsAsked(u) /\ MetFor(u) /\ s \in Session
      /\ s # NoSession /\ u \in setting.runsInSession /\ setting \in Setting
  BY Unfolded, Types
<1>2. /\ pc \in [Task -> Places] /\ phase \in [Task -> {"once", "prepare", "run", "deps"}]
      /\ todo \in [Task -> Seq(Package)] /\ runsIn \in [Task -> Environment]
      /\ installed \in [Session -> SUBSET Package]
  BY <1>1, Types
<1>3. CASE u # t
  <2>1. /\ pc'[u] = pc[u] /\ phase'[u] = phase[u] /\ todo'[u] = todo[u]
        /\ runsIn'[u] = runsIn[u]
    BY <1>1, <1>3, OthersStay
  <2>2. deps'[s] = deps[s] /\ installed'[s] = installed[s]
    BY <1>1, <1>3, SessionsStay DEF OwnSessions
  <2>3. ASSUME pc[u] # "idle", phase[u] = "deps" PROVE There(Venv)' = There(Venv)
    <3>1. pc[u] \in Changing \cup {"ensure", "look"}
      BY <1>1, <1>2, <2>3 DEF InOrder, Places, Changing
    <3>2. At(u) = Venv
      BY <2>3 DEF At
    <3> QED
      BY <1>1, <1>3, <2>3, <3>1, <3>2, LeftAlone DEF There
  <2> QED
    BY <1>1, <2>1, <2>2, <2>3 DEF MetFor
<1>4. CASE u = t /\ pc[t] # "idle" /\ phase[t] = "deps"
  <2>1. /\ There(Venv) \cup Range(todo[t]) \subseteq There(Venv)' \cup Range(todo'[t])
        /\ \/ pc'[t] # "idle" /\ phase'[t] = "deps"
           \/ DepsInstalled(t) /\ todo[t] = <<>> /\ todo' = todo
    BY <1>4, VenvKeeps
  <2>2. CASE DepsInstalled(t)
    <3>1. /\ deps' = deps /\ installed'[s] = installed[s] \cup Range(deps[s])
          /\ phase'[t] = "run"
      BY <1>1, <1>2, <1>4, <2>2 DEF DepsInstalled
    <3> QED
      BY <1>4, <3>1 DEF MetFor
  <2>3. CASE ~DepsInstalled(t)
    <3>1. pc'[t] # "running"
      <4>1. InOrder(t)'
        BY <1>1, SettingStays, StepControl DEF Next, AloneInv, ControlOK
      <4> QED
        BY <2>1, <2>3, <4>1 DEF InOrder
    <3>2. deps' = deps
      <4>1. ~Declare(t)
        BY <1>4 DEF Declare
      <4> QED
        BY <2>3, <4>1 DEF Step, memory, Begin, EnterOnce, FinishOnce, ReadReassert, Look,
           EnterInstall, Recheck, PipStarts, PipEnds, PipFails, TouchGuard, ClearReassert,
           DropGuards, DemandReassert, AskToRun, EnterRun, RunEnds
    <3>3. Range(deps[s]) \subseteq There(Venv) \cup Range(todo[t])
      BY <1>1, <1>4 DEF MetFor
    <3>4. Range(deps'[s]) \subseteq There(Venv)' \cup Range(todo'[t])
      BY <2>1, <3>2, <3>3
    <3> QED
      BY <1>4, <3>1, <3>4 DEF MetFor
  <2> QED
    BY <2>2, <2>3
<1>5. CASE u = t /\ ~(pc[t] # "idle" /\ phase[t] = "deps")
  <2> USE DEF Go
  <2>1. CASE EnterRun(t)
    <3>1. deps' = deps /\ installed' = installed
      BY <2>1 DEF EnterRun, memory
    <3>2. CASE NeedsInstall(t)
      <4>1. pc'[t] = "ensure" /\ todo'[t] = deps[s]
        BY <1>2, <1>5, <2>1, <3>2 DEF EnterRun
      <4> QED
        BY <1>5, <3>1, <4>1 DEF MetFor
    <3>3. CASE ~NeedsInstall(t)
      <4>1. pc'[t] = "running" /\ phase' = phase /\ runsIn'[t] = RunsOutOf(t) /\ phase[t] = "run"
        BY <1>2, <2>1, <3>3 DEF EnterRun
      <4>2. RunsOutOf(t) = Venv => Range(deps[s]) \subseteq installed[s]
        BY <1>1, <1>5, <3>3 DEF RunsOutOf, NeedsInstall, Base, Venv
      <4> QED
        BY <1>5, <3>1, <4>1, <4>2 DEF MetFor
    <3> QED
      BY <3>2, <3>3
  <2>2. CASE ~EnterRun(t)
    <3>1. pc'[t] = "idle" \/ (phase'[t] # "deps" /\ pc'[t] # "running")
      <4>1. CASE Begin(t) \/ FinishOnce(t)
        BY <1>2, <4>1 DEF Begin, FinishOnce, StartPreparing
      <4>2. CASE EnterOnce(t) \/ Declare(t) \/ ReadReassert(t) \/ Look(t) \/ EnterInstall(t)
        BY <1>2, <1>5, <4>2 DEF EnterOnce, Declare, ReadReassert, Look, EnterInstall
      <4>3. CASE Recheck(t)
        BY <1>2, <1>5, <4>3 DEF Recheck
      <4>4. CASE PipStarts(t) \/ PipEnds(t) \/ PipFails(t) \/ TouchGuard(t) \/ DropGuards(t)
        BY <1>2, <1>5, <4>4 DEF PipStarts, PipEnds, PipFails, TouchGuard, DropGuards
      <4>5. CASE ClearReassert(t) \/ DemandReassert(t)
        BY <1>2, <1>5, <4>5 DEF ClearReassert, DemandReassert, PackageDone
      <4>6. CASE AskToRun(t) \/ RunEnds(t)
        BY <1>2, <4>6 DEF AskToRun, RunEnds
      <4>7. ~DepsInstalled(t)
        BY <1>5 DEF DepsInstalled
      <4> QED
        BY <2>2, <4>1, <4>2, <4>3, <4>4, <4>5, <4>6, <4>7 DEF Step
    <3> QED
      BY <1>5, <3>1 DEF MetFor
  <2> QED
    BY <2>1, <2>2
<1> QED
  BY <1>3, <1>4, <1>5

\* The invariant behind NeedsAreMet is inductive.
LEMMA StepNeeds ==
    ASSUME OwnSessions, \A s \in Setting : Careful(s), \A s \in Setting : Declared(s),
           NeedsInv, [Next]_vars
    PROVE  NeedsInv'
<1>1. TruthInv' /\ MarksOK' /\ ProvisionedOK' /\ DeclaredOK'
  BY StepTruth, StepMarks, StepProvisioned, StepDeclared DEF NeedsInv, TruthInv, AloneInv
<1>2. NeedsOK'
  <2> SUFFICES ASSUME Reliable'
               PROVE  (\A s \in Session : Met(s)') /\ (\A t \in Task : MetFor(t)')
    BY DEF NeedsOK
  <2>1. Reliable /\ setting' = setting /\ TypeOK
    BY ReliableBefore, SettingStays DEF NeedsInv, TruthInv, AloneInv
  <2>2. (\A s \in Session : Met(s)) /\ (\A t \in Task : MetFor(t))
    BY <2>1 DEF NeedsInv, NeedsOK
  <2>3. CASE UNCHANGED vars \/ Terminated
    <3>1. UNCHANGED <<disk, memory, control, setting>>
      BY <2>3 DEF vars, Terminated, counts
    <3>2. There(Venv)' = There(Venv) /\ \A x : BeingInstalled(x)' <=> BeingInstalled(x)
      BY <3>1 DEF There, BeingInstalled, disk, control
    <3>3. UNCHANGED <<dirty, deps, installed, guard, pc, phase, todo, runsIn>>
      BY <3>1 DEF disk, memory, control
    <3> QED
      BY <2>1, <2>2, <3>2, <3>3 DEF Met, MetFor
  <2>4. ~Crash
    BY <2>1, Types DEF Crash, Reliable
  <2>5. ASSUME NEW t \in Task, Begin(t) \/ Step(t)
        PROVE  (\A s \in Session : Met(s)') /\ (\A u \in Task : MetFor(u)')
    BY <2>1, <2>5, StepMet, StepMetFor
  <2> QED
    BY <2>3, <2>4, <2>5 DEF Next
<1> QED
  BY <1>1, <1>2 DEF NeedsInv

\* PartCAD starts with nothing declared.
LEMMA InitNeeds ==
    ASSUME OwnSessions, \A s \in Setting : Declared(s) PROVE Init => NeedsInv
<1> SUFFICES ASSUME Init PROVE NeedsInv
  OBVIOUS
<1>1. \A e \in Environment : guard[e] \cap reassert[e] = {}
  BY DEF Init
<1>2. MarksOK
  BY <1>1 DEF Init, MarksOK, Unmarked, MarksOf
<1>3. ProvisionedOK
  BY DEF Init, ProvisionedOK
<1>4. DeclaredOK
  <2> SUFFICES ASSUME ~setting.pipMayFail, NEW t \in Task PROVE DeclaredBy(t)
    BY DEF DeclaredOK
  <2>1. <<>> \in Seq(Package)
    BY EmptySeq
  <2>2. <<>> \o <<>> = <<>> /\ Mended(<<>>)
    BY <2>1, BehindNothing, EmptySeq DEF Mended
  <2>3. setting.sessionOf[t] \in Session
    <3>1. setting \in Setting /\ SettingOK(setting) /\ Declared(setting)
      BY SandboxAssumption DEF Init
    <3> QED
      BY <3>1 DEF SettingOK, Declared
  <2> QED
    BY <2>2, <2>3 DEF Init, DeclaredBy, Undeclared
<1>5. NeedsOK
  BY DEF Init, NeedsOK, Met, MetFor, Range
<1> QED
  BY <1>2, <1>3, <1>4, <1>5, InitTruth DEF NeedsInv

\* A wrapper runs on what its shape asked for, whole, whoever installs what into the
\* shared v-env (run_onced).
THEOREM NeedsAreMet ==
    ASSUME OwnSessions, \A s \in Setting : Careful(s), \A s \in Setting : Declared(s)
    PROVE  Spec => []RunsOnItsNeeds
<1>1. ASSUME NeedsInv PROVE RunsOnItsNeeds
  <2> SUFFICES ASSUME Reliable, NEW t \in Task, pc[t] = "running"
               PROVE  Range(setting.needs[t]) \subseteq intact[runsIn[t]]
    BY DEF RunsOnItsNeeds
  <2> DEFINE s == setting.sessionOf[t]
             e == runsIn[t]
  <2>1. /\ TypeOK /\ AloneInv /\ TruthInv /\ InOrder(t) /\ AsAsked(t) /\ DeclaredBy(t)
        /\ MetFor(t) /\ s \in Session /\ t \in setting.runsInSession
    BY <1>1, Unfolded
  <2>2. /\ e \in Environment /\ e = lockOn[t] /\ e = RunsOutOf(t) /\ phase[t] = "run"
        /\ Within(t)
    BY <2>1, Types DEF AsAsked, InOrder, Within
  <2>3. \A u \in Task : ~(/\ At(u) = e
                          /\ \/ pc[u] \in Changing
                             \/ pc[u] \in {"ensure", "look"} /\ phase[u] \in {"once", "deps"})
    <3> SUFFICES ASSUME NEW u \in Task, At(u) = e,
                        \/ pc[u] \in Changing
                        \/ pc[u] \in {"ensure", "look"} /\ phase[u] \in {"once", "deps"}
                 PROVE  FALSE
      OBVIOUS
    <3>1. t = u
      BY <2>1, <2>2, ChangersAreAlone
    <3> QED
      BY <3>1 DEF Changing
  <2>4. Range(setting.needs[t]) \subseteq Range(deps[s])
    <3>1. Undeclared(t) = <<>>
      BY <2>2 DEF Undeclared
    <3>2. Range(<<>>) = {}
      BY DEF Range
    <3> QED
      BY <2>1, <2>2, <3>1, <3>2 DEF DeclaredBy
  <2>5. There(e) \subseteq intact[e]
    <3>1. Installing(e) = {}
      BY <2>3 DEF Installing, Changing
    <3>2. Whole(e)
      BY <2>1, <2>2 DEF TruthInv, TruthOK
    <3> QED
      BY <3>1, <3>2 DEF Whole, There
  <2>6. Range(deps[s]) \subseteq There(e)
    <3>1. CASE e = Base
      <4>1. ~dirty[s]
        BY <2>1, <2>2, <3>1 DEF RunsOutOf, Base, Venv
      <4>2. Range(deps[s]) \subseteq guard[Base]
        BY <1>1, <2>1, <4>1 DEF NeedsInv, NeedsOK, Met
      <4>3. guard[Base] \cap reassert[Base] = {}
        <5>1. Unmarked(Base)
          BY <1>1 DEF NeedsInv, MarksOK, Environment
        <5> QED
          BY <2>3, <3>1, <5>1 DEF Unmarked, Changing
      <4> QED
        BY <3>1, <4>2, <4>3 DEF There
    <3>2. CASE e = Venv
      <4>1. Range(deps[s]) \subseteq installed[s]
        BY <2>1, <3>2 DEF MetFor
      <4>2. \A p \in installed[s] : p \in There(Venv) \/ BeingInstalled(p)
        BY <1>1, <2>1 DEF NeedsInv, NeedsOK, Met
      <4>3. ASSUME NEW p, BeingInstalled(p) PROVE FALSE
        <5>1. PICK u \in Task : pc[u] # "idle" /\ phase[u] = "deps"
          BY <4>3 DEF BeingInstalled
        <5>2. InOrder(u) /\ pc[u] \in Places /\ At(u) = Venv
          BY <2>1, <5>1, Types DEF AloneInv, ControlOK, At
        <5>3. pc[u] \in Changing \cup {"ensure", "look"}
          BY <5>1, <5>2 DEF InOrder, Changing, Places
        <5> QED
          BY <2>3, <3>2, <5>1, <5>2, <5>3
      <4> QED
        BY <3>2, <4>1, <4>2, <4>3
    <3> QED
      BY <2>2, <3>1, <3>2 DEF Environment
  <2> QED
    BY <2>4, <2>5, <2>6
<1>2. NeedsInv => RunsOnItsNeeds
  BY <1>1
<1> QED
  BY <1>2, InitNeeds, StepNeeds, PTL DEF Spec

-----------------------------------------------------------------------------
(* The locks are used as RWLock promises them.                             *)

\* A step of a task is at most one step of the lock over an environment.
LEMMA LockMoves ==
    ASSUME TypeOK, ControlOK, LocksOK, [Next]_vars, NEW e \in Environment
    PROVE  \/ reading'[e] = reading[e] /\ writing'[e] = writing[e]
           \/ \E t \in Task : /\ t \notin reading[e] \cup writing[e] /\ writing[e] = {}
                              /\ reading'[e] = reading[e] \cup {t} /\ writing'[e] = writing[e]
           \/ \E t \in Task : /\ writing[e] = {} /\ reading[e] = {}
                              /\ writing'[e] = {t} /\ reading'[e] = reading[e]
           \/ \E t \in reading[e] \cup writing[e] :
                  reading'[e] = reading[e] \ {t} /\ writing'[e] = writing[e] \ {t}
           \/ reading'[e] = {} /\ writing'[e] = {}
<1>1. reading \in [Environment -> SUBSET Task] /\ writing \in [Environment -> SUBSET Task]
  BY Types
<1>2. CASE UNCHANGED vars \/ Terminated
  BY <1>2 DEF vars, Terminated, locks
<1>3. CASE Crash
  BY <1>3 DEF Crash
<1>4. ASSUME NEW t \in Task, Begin(t) \/ Step(t)
      PROVE  \/ reading'[e] = reading[e] /\ writing'[e] = writing[e]
             \/ /\ t \notin reading[e] \cup writing[e] /\ writing[e] = {}
                /\ reading'[e] = reading[e] \cup {t} /\ writing'[e] = writing[e]
             \/ /\ writing[e] = {} /\ reading[e] = {}
                /\ writing'[e] = {t} /\ reading'[e] = reading[e]
             \/ reading'[e] = reading[e] \ {t} /\ writing'[e] = writing[e] \ {t}
  <2>1. CASE ReleaseLock(t)
    BY <2>1 DEF ReleaseLock
  <2>2. ASSUME NEW d \in Environment, NEW w \in BOOLEAN, Acquire(t, d, w),
               t \notin reading[d]
        PROVE  \/ reading'[e] = reading[e] /\ writing'[e] = writing[e]
               \/ /\ t \notin reading[e] \cup writing[e] /\ writing[e] = {}
                  /\ reading'[e] = reading[e] \cup {t} /\ writing'[e] = writing[e]
               \/ /\ writing[e] = {} /\ reading[e] = {}
                  /\ writing'[e] = {t} /\ reading'[e] = reading[e]
    BY <1>1, <2>2 DEF Acquire
  <2>3. CASE EnterOnce(t) \/ EnterInstall(t) \/ EnterRun(t)
    <3>1. Base \in Environment /\ lockOn[t] \in Environment /\ write[t] \in BOOLEAN
      BY Types DEF Environment
    <3>2. \A d \in Environment : t \notin reading[d]
      BY <2>3 DEF LocksOK, Within, Changing, EnterOnce, EnterInstall, EnterRun
    <3>3. Acquire(t, Base, TRUE) \/ Acquire(t, lockOn[t], write[t])
      BY <2>3 DEF EnterOnce, EnterInstall, EnterRun
    <3> QED
      BY <2>2, <3>1, <3>2, <3>3
  <2>4. CASE FinishOnce(t) \/ RunEnds(t)
    BY <2>1, <2>4 DEF FinishOnce, RunEnds
  <2>5. CASE Recheck(t) \/ ClearReassert(t) \/ DemandReassert(t)
    BY <2>1, <2>5 DEF Recheck, ClearReassert, DemandReassert, PackageDone, locks
  <2>6. CASE ~(\/ EnterOnce(t) \/ EnterInstall(t) \/ EnterRun(t) \/ FinishOnce(t)
               \/ RunEnds(t) \/ Recheck(t) \/ ClearReassert(t) \/ DemandReassert(t))
    BY <1>4, <2>6 DEF Step, locks, Begin, Declare, ReadReassert, Look, PipStarts, PipEnds,
       PipFails, TouchGuard, DropGuards, AskToRun, DepsInstalled
  <2> QED
    BY <2>3, <2>4, <2>5, <2>6
<1>5. ASSUME NEW t \in Task, t \notin reading[e] \cup writing[e]
      PROVE  reading[e] \ {t} = reading[e] /\ writing[e] \ {t} = writing[e]
  BY <1>5
<1> QED
  BY <1>2, <1>3, <1>4, <1>5 DEF Next

\* What the tasks do with the lock over each environment is what RWLock lets them do,
\* kills included, whatever they need and whatever fails (sync_lock).
THEOREM LocksAreUsedAsPromised == Spec => UsesTheLocks
<1> DEFINE Held == TypeOK /\ ControlOK /\ LocksOK
<1>1. Init => Held
  BY InitTypes DEF Init, ControlOK, InOrder, LocksOK, Within, Changing, Environment
<1>2. Held /\ [Next]_vars => Held'
  BY StepTypes, StepControl, StepLocks
<1>3. Init => RuntimeLock!RWInit /\ VenvLock!RWInit
  BY DEF Init, RuntimeLock!RWInit, VenvLock!RWInit, Environment
<1>4. Held /\ [Next]_vars => [RuntimeLock!RWNext]_(RuntimeLock!rwVars)
  <2> SUFFICES ASSUME Held, [Next]_vars PROVE [RuntimeLock!RWNext]_(RuntimeLock!rwVars)
    OBVIOUS
  <2>1. Base \in Environment /\ reading[Base] \subseteq Task /\ writing[Base] \subseteq Task
    BY Types DEF Environment
  <2>2. RuntimeLock!Of("PartCAD") = Task
    BY DEF RuntimeLock!Of
  <2>3. \A t \in Task : [u \in Task |-> "PartCAD"][t] = "PartCAD"
    OBVIOUS
  <2> QED
    BY <2>1, <2>2, <2>3, LockMoves
    DEF RuntimeLock!RWNext, RuntimeLock!rwVars, RuntimeLock!EnterReading,
        RuntimeLock!EnterWriting, RuntimeLock!Leave, RuntimeLock!Die
<1>5. Held /\ [Next]_vars => [VenvLock!RWNext]_(VenvLock!rwVars)
  <2> SUFFICES ASSUME Held, [Next]_vars PROVE [VenvLock!RWNext]_(VenvLock!rwVars)
    OBVIOUS
  <2>1. Venv \in Environment /\ reading[Venv] \subseteq Task /\ writing[Venv] \subseteq Task
    BY Types DEF Environment
  <2>2. VenvLock!Of("PartCAD") = Task
    BY DEF VenvLock!Of
  <2>3. \A t \in Task : [u \in Task |-> "PartCAD"][t] = "PartCAD"
    OBVIOUS
  <2> QED
    BY <2>1, <2>2, <2>3, LockMoves
    DEF VenvLock!RWNext, VenvLock!rwVars, VenvLock!EnterReading,
        VenvLock!EnterWriting, VenvLock!Leave, VenvLock!Die
<1> QED
  BY <1>1, <1>2, <1>3, <1>4, <1>5, PTL
  DEF Spec, UsesTheLocks, RuntimeLock!RWSpec, VenvLock!RWSpec
=============================================================================
