------------------------ MODULE WorkspaceDaemon_proof ------------------------
(***************************************************************************)
(* Proofs about WorkspaceDaemon, for any number of commands, stoppers and  *)
(* kills, and whatever probes time out.  Nobody but the holder of the      *)
(* flock binds the socket, and it does so after a probe of whoever was     *)
(* behind it.  So a daemon loses its address only if it did not answer     *)
(* that probe, or to a daemon that did not and then stopped.  That there   *)
(* are such daemons is what the code does (OneDaemonPerWorkspace is        *)
(* false); that nothing else divides the commands is what is proved.       *)
(***************************************************************************)
EXTENDS WorkspaceDaemon, TLAPS

\* A daemon that would be found behind the socket, if the socket were its own.
Holds(d) == /\ life[d] \in {"listening", "starting", "serving", "leaving", "exiting"}
            /\ stopping[d] \in Named

\* Whoever is between the lock file and the socket holds the flock, and its daemon does not
\* listen yet.
LaunchersTakeTurns ==
    \A c \in Command :
        /\ pc[c] \in {"probe", "probing", "unlink", "bind", "listen"} => flock = c
        /\ pc[c] \in {"idle", "probe", "probing", "unlink", "bind"} => life[c] = "unborn"
        /\ pc[c] = "listen" => life[c] = "bound"

\* Daemons are told to stop once they serve, and leave once they were told.
StopsInOrder ==
    \A d \in Daemon :
        /\ stopping[d] # "no" => life[d] \in {"serving", "leaving", "exiting", "gone"}
        /\ life[d] \in {"leaving", "exiting"} => stopping[d] \notin {"no", "asked"}

\* Whoever is not behind the socket was taken for dead, or robbed by one that was.
HoldersAreFound == \A d \in Daemon \ unheard : Holds(d) => socket = d \/ SomebodyCameBack

\* The socket stays where the launcher found it, unless it is unlinked; and nobody is to be
\* found behind it any more once the launcher has decided to replace it.
ProbesStayTrue ==
    \A c \in Command :
        /\ pc[c] = "probing" => peer[c] \in Daemon /\ socket \in {peer[c], Nobody}
        /\ pc[c] \in {"unlink", "bind", "listen"} =>
              \A d \in Daemon \ unheard : Holds(d) => SomebodyCameBack

\* As PidFileNamesTheDaemon, from the moment that the pid is written.
PidsAreKept ==
    \A d \in Daemon \ unheard : life[d] \in {"starting", "serving"} /\ stopping[d] = "no" =>
        \/ pidFile = d
        \/ SomebodyCameBack
        \/ pidFile \in unheard
        \/ pidFile = Nobody /\ (\E e \in Daemon : HasCleanedUp(e))

IInv == /\ TypeOK
        /\ LaunchersTakeTurns
        /\ StopsInOrder
        /\ HoldersAreFound
        /\ ProbesStayTrue
        /\ PidsAreKept

-----------------------------------------------------------------------------
(* Types.                                                                  *)

\* Nobody is not a daemon.
LEMMA Names == Nobody \notin Daemon /\ Command \subseteq Client /\ Stopper \subseteq Client
BY DaemonAssumption DEF Daemon, Client

\* The initial state is well typed.
LEMMA InitTypeOK == Init => TypeOK
BY DaemonAssumption DEF Init, TypeOK, Ended, Named

\* A step of a command keeps the types.
LEMMA AskTypeOK == ASSUME TypeOK, NEW c \in Command, Ask(c) PROVE TypeOK'
<1> USE Names DEF TypeOK, Go, Meet, files, daemons, past, Daemon
<1>1. CASE Lock(c)
    BY <1>1 DEF Lock
<1>2. CASE Probe(c)
    BY <1>2 DEF Probe, Listens
<1>3. CASE ProbeAnswered(c)
    BY <1>3 DEF ProbeAnswered
<1>4. CASE ProbeUnanswered(c)
    BY <1>4 DEF ProbeUnanswered
<1>5. CASE Unlink(c)
    BY <1>5 DEF Unlink
<1>5a. CASE Bind(c)
    BY <1>5a DEF Bind
<1>5b. CASE Listen(c)
    BY <1>5b DEF Listen, Ended
<1>6. CASE Connect(c)
    BY <1>6 DEF Connect, Listens, Ended
<1>7. CASE Dispatch(c)
    BY <1>7 DEF Dispatch
<1>8. CASE Return(c)
    BY <1>8 DEF Return, Ended
<1>9. CASE Cut(c)
    BY <1>9 DEF Cut, Ended
<1> QED
    BY <1>1, <1>2, <1>3, <1>4, <1>5, <1>5a, <1>5b, <1>6, <1>7, <1>8, <1>9 DEF Ask

\* A step of a stopper keeps the types.
LEMMA StopTypeOK ==
    ASSUME TypeOK, NEW s \in Stopper, Stop(s) \/ \E d \in Daemon : Signal(s, d)
    PROVE  TypeOK'
<1> USE Names DEF TypeOK, Go, Meet, files, daemons, past, Ended
<1>1. CASE StopProbe(s)
    BY <1>1 DEF StopProbe, Listens
<1>2. CASE StopProbed(s)
    BY <1>2 DEF StopProbed
<1>3. CASE AskToStop(s)
    BY <1>3 DEF AskToStop, Listens, Named
<1>4. CASE ReadPid(s)
    BY <1>4 DEF ReadPid
<1>5. CASE SeesItGone(s)
    BY <1>5 DEF SeesItGone
<1>6. CASE StopsWaiting(s)
    BY <1>6 DEF StopsWaiting
<1>7. ASSUME NEW d \in Daemon, Signal(s, d)
      PROVE  TypeOK'
    BY <1>7 DEF Signal, Named
<1> QED
    BY <1>1, <1>2, <1>3, <1>4, <1>5, <1>6, <1>7 DEF Stop

\* A step of a daemon keeps the types, and so does its being killed.
LEMMA DaemonTypeOK ==
    ASSUME TypeOK, NEW d \in Daemon, StopThread(d) \/ Process(d) \/ Kill(d)
    PROVE  TypeOK'
<1> USE DEF TypeOK, files, clients, past
<1>1. CASE StopThread(d)
    BY <1>1 DEF StopThread, StopSets, StopUnlinks, StopCloses, StopCleansUp, Named
<1>2. CASE Process(d)
    BY <1>2 DEF Process, WritePid, Serve, LeaveLoop, CleanUp, Exit
<1>3. CASE Kill(d)
    BY <1>3, DaemonAssumption DEF Kill
<1> QED
    BY <1>1, <1>2, <1>3

\* Every state is well typed, whoever does not answer, stops or kills.
THEOREM TypeCorrect == Spec => []TypeOK
<1>1. TypeOK /\ [Next]_vars => TypeOK'
    <2> SUFFICES ASSUME TypeOK, [Next]_vars
                 PROVE  TypeOK'
        OBVIOUS
    <2>1. CASE UNCHANGED vars
        BY <2>1 DEF TypeOK, vars, files, daemons, clients, past
    <2>2. CASE Terminated
        BY <2>1, <2>2 DEF Terminated
    <2> QED
        BY <2>1, <2>2, AskTypeOK, StopTypeOK, DaemonTypeOK DEF Next
<1> QED
    BY <1>1, InitTypeOK, PTL DEF Spec

-----------------------------------------------------------------------------
(* The rendezvous.                                                         *)

\* Before anything happens no daemon exists.
LEMMA InitIInv == Init => IInv
<1> SUFFICES ASSUME Init
             PROVE  IInv
    OBVIOUS
<1> QED
    BY InitTypeOK, Names DEF Init, IInv, LaunchersTakeTurns, StopsInOrder, HoldersAreFound,
       ProbesStayTrue, PidsAreKept, Holds, Daemon

\* What a step of a command does to the rendezvous.
LEMMA AskIInv ==
    ASSUME IInv, NEW c \in Command, Ask(c)
    PROVE  IInv'
<1> USE Names DEF IInv, TypeOK, LaunchersTakeTurns, StopsInOrder, HoldersAreFound,
        ProbesStayTrue, PidsAreKept, Holds, Daemon, Go, Meet, files, daemons, past
<1>0. TypeOK'
    BY AskTypeOK
<1>1. CASE Lock(c)
    BY <1>0, <1>1, DaemonAssumption DEF Lock, SomebodyCameBack, HasCleanedUp
<1>2. CASE Probe(c)
    <2>1. CASE Listens(socket)
        BY <1>0, <1>2, <2>1 DEF Probe, Listens, SomebodyCameBack, HasCleanedUp
    <2>2. CASE ~Listens(socket)
        <3>1. \A d \in Daemon \ unheard : Holds(d) => SomebodyCameBack
            BY <2>2 DEF Listens
        <3> QED
            BY <1>0, <1>2, <2>2, <3>1 DEF Probe, SomebodyCameBack, HasCleanedUp
    <2> QED
        BY <2>1, <2>2
<1>3. CASE ProbeAnswered(c)
    BY <1>0, <1>3 DEF ProbeAnswered, SomebodyCameBack, HasCleanedUp
<1>4. CASE ProbeUnanswered(c)
    BY <1>0, <1>4 DEF ProbeUnanswered, SomebodyCameBack, HasCleanedUp
<1>5. CASE Unlink(c)
    BY <1>0, <1>5 DEF Unlink, SomebodyCameBack, HasCleanedUp
<1>6. CASE Bind(c)
    BY <1>0, <1>6 DEF Bind, SomebodyCameBack, HasCleanedUp
<1>7. CASE Listen(c)
    BY <1>0, <1>7 DEF Listen, SomebodyCameBack, HasCleanedUp
<1>8. CASE Connect(c)
    BY <1>0, <1>8 DEF Connect, SomebodyCameBack, HasCleanedUp
<1>9. CASE Dispatch(c)
    BY <1>0, <1>9 DEF Dispatch, SomebodyCameBack, HasCleanedUp
<1>10. CASE Return(c)
    BY <1>0, <1>10 DEF Return, SomebodyCameBack, HasCleanedUp
<1>11. CASE Cut(c)
    BY <1>0, <1>11 DEF Cut, SomebodyCameBack, HasCleanedUp
<1> QED
    BY <1>1, <1>2, <1>3, <1>4, <1>5, <1>6, <1>7, <1>8, <1>9, <1>10, <1>11 DEF Ask

\* A stopper does nothing to it but tell a daemon that serves to stop.
LEMMA StopIInv ==
    ASSUME IInv, NEW s \in Stopper, Stop(s) \/ \E d \in Daemon : Signal(s, d)
    PROVE  IInv'
<1> USE Names DEF IInv, TypeOK, Go, Meet, files, daemons, past
<1>0. TypeOK'
    BY StopTypeOK
<1>1. /\ UNCHANGED <<files, flock, life, dispatching, past>>
      /\ \A c \in Command : pc'[c] = pc[c] /\ peer'[c] = peer[c]
      /\ \/ UNCHANGED stopping
         \/ \E d \in Daemon : /\ life[d] = "serving" /\ stopping[d] \in {"no", "asked"}
                             /\ stopping' = [stopping EXCEPT ![d] = "asked"]
    <2>1. \A c \in Command : c # s
        BY DaemonAssumption
    <2> QED
        BY <2>1 DEF Stop, StopProbe, StopProbed, AskToStop, ReadPid, SeesItGone, StopsWaiting,
           Signal, Listens
<1>2. (\A d \in Daemon : HasCleanedUp(d) => HasCleanedUp(d)') /\ SomebodyCameBack' = SomebodyCameBack
    BY <1>1 DEF HasCleanedUp, SomebodyCameBack, Named
<1>3. \A d \in Daemon : Holds(d)' = Holds(d)
    BY <1>1 DEF Holds, Named
<1>4. (LaunchersTakeTurns /\ StopsInOrder)'
    BY <1>1 DEF LaunchersTakeTurns, StopsInOrder, Daemon
<1>5. (HoldersAreFound /\ ProbesStayTrue)'
    BY <1>1, <1>2, <1>3 DEF HoldersAreFound, ProbesStayTrue
<1>6. PidsAreKept'
    BY <1>1, <1>2 DEF PidsAreKept
<1> QED
    BY <1>0, <1>4, <1>5, <1>6

\* What a daemon does to the rendezvous.
LEMMA DaemonIInv ==
    ASSUME IInv, NEW d \in Daemon, StopThread(d) \/ Process(d) \/ Kill(d)
    PROVE  IInv'
<1> USE Names DEF IInv, TypeOK, LaunchersTakeTurns, StopsInOrder, HoldersAreFound,
        ProbesStayTrue, PidsAreKept, Holds, Daemon, files, clients, past
<1>0. TypeOK'
    BY DaemonTypeOK
<1>1. CASE StopSets(d)
    BY <1>0, <1>1 DEF StopSets, SomebodyCameBack, HasCleanedUp, Named
<1>2. CASE StopUnlinks(d)
    BY <1>0, <1>2 DEF StopUnlinks, SomebodyCameBack, HasCleanedUp, Named
<1>3. CASE StopCloses(d)
    BY <1>0, <1>3 DEF StopCloses, SomebodyCameBack, HasCleanedUp, Named
<1>4. CASE StopCleansUp(d)
    BY <1>0, <1>4 DEF StopCleansUp, SomebodyCameBack, HasCleanedUp, Named
<1>5. CASE WritePid(d)
    BY <1>0, <1>5 DEF WritePid, SomebodyCameBack, HasCleanedUp, Named
<1>6. CASE Serve(d)
    BY <1>0, <1>6 DEF Serve, SomebodyCameBack, HasCleanedUp
<1>7. CASE LeaveLoop(d)
    BY <1>0, <1>7 DEF LeaveLoop, SomebodyCameBack, HasCleanedUp
<1>8. CASE CleanUp(d)
    BY <1>0, <1>8 DEF CleanUp, SomebodyCameBack, HasCleanedUp
<1>9. CASE Exit(d)
    BY <1>0, <1>9 DEF Exit, SomebodyCameBack, HasCleanedUp
<1>10. CASE Kill(d)
    BY <1>0, <1>10 DEF Kill, SomebodyCameBack, HasCleanedUp
<1> QED
    BY <1>1, <1>2, <1>3, <1>4, <1>5, <1>6, <1>7, <1>8, <1>9, <1>10 DEF StopThread, Process

\* The inductive invariant of the rendezvous.
THEOREM Rendezvous == Spec => []IInv
<1>1. IInv /\ [Next]_vars => IInv'
    <2> SUFFICES ASSUME IInv, [Next]_vars
                 PROVE  IInv'
        OBVIOUS
    <2>1. CASE UNCHANGED vars
        BY <2>1 DEF IInv, TypeOK, LaunchersTakeTurns, StopsInOrder, HoldersAreFound,
           ProbesStayTrue, PidsAreKept, Holds, SomebodyCameBack, HasCleanedUp,
           vars, files, daemons, clients, past
    <2>2. CASE Terminated
        BY <2>1, <2>2 DEF Terminated
    <2> QED
        BY <2>1, <2>2, AskIInv, StopIInv, DaemonIInv DEF Next
<1> QED
    BY <1>1, InitIInv, PTL DEF Spec

\* A daemon that lives keeps its address, whoever launches, connects, stops and kills, unless
\* it did not answer a probe in time or one that did not came back (ensure_daemon).
THEOREM AddressIsKept == Spec => []DaemonKeepsItsAddress
<1>1. IInv => DaemonKeepsItsAddress
    BY DEF IInv, HoldersAreFound, Holds, DaemonKeepsItsAddress, Live, Named
<1> QED
    BY <1>1, Rendezvous, PTL

\* How much of "There is one per workspace" (docs/source/cli.rst) is true: of two daemons
\* that live, one was taken for dead, or there was one that was and that came back.
OneDaemonIsHeard ==
    \A d, e \in Daemon \ unheard : Live(d) /\ Live(e) => d = e \/ SomebodyCameBack

\* A workspace has one daemon that answers its launchers (ensure_daemon).
THEOREM OneDaemon == Spec => []OneDaemonIsHeard
<1>1. DaemonKeepsItsAddress => OneDaemonIsHeard
    BY DEF DaemonKeepsItsAddress, OneDaemonIsHeard
<1> QED
    BY <1>1, AddressIsKept, PTL

\* And whoever reads the pid file while a daemon serves finds that daemon in it, with the
\* exceptions that the property names (_write_pid, _cleanup).
THEOREM PidIsKept == Spec => []PidFileNamesTheDaemon
<1>1. IInv => PidFileNamesTheDaemon
    BY DEF IInv, PidsAreKept, PidFileNamesTheDaemon
<1> QED
    BY <1>1, Rendezvous, PTL

-----------------------------------------------------------------------------
(* One daemon for all commands.                                            *)

Undisturbed == kills = 0 /\ \A d \in Daemon : stopping[d] = "no"

Past == {"connect", "calling", "served", "done"}

\* As long as nobody was killed or told to stop, daemons that listen go on; so whoever is
\* connected to one is served, and whoever has got past its launcher finds one behind the
\* socket unless a launcher has taken one for dead.
NobodyIsLetDown ==
    Undisturbed =>
        /\ \A d \in Daemon : life[d] \notin {"leaving", "exiting", "gone"}
        /\ \A c \in Command :
              /\ pc[c] = "listen" => socket = c
              /\ pc[c] \in {"calling", "served", "done"} => peer[c] \in Daemon /\ Holds(peer[c])
              /\ pc[c] \in Past /\ unheard = {} => socket \in Daemon /\ Holds(socket)
              /\ pc[c] \in Ended \ {"away"} => pc[c] = "done" \/ (pc[c] = "alone" /\ unheard # {})

\* As long as nobody is disturbed, who holds the socket's address is behind it, or was taken
\* for dead.
LEMMA HoldersBehindSocket ==
    ASSUME IInv, Undisturbed, NEW d \in Daemon \ unheard, Holds(d)
    PROVE  socket = d /\ ~SomebodyCameBack
BY DEF IInv, TypeOK, HoldersAreFound, Undisturbed, SomebodyCameBack, Named

\* A step of a command lets nobody down.
LEMMA AskIsServed ==
    ASSUME IInv, NobodyIsLetDown, NEW c \in Command, Ask(c)
    PROVE  NobodyIsLetDown'
<1> SUFFICES ASSUME Undisturbed'
             PROVE  NobodyIsLetDown'
    BY DEF NobodyIsLetDown
<1>0. Undisturbed /\ TypeOK'
    <2>1. stopping' = stopping /\ kills' = kills
        BY DEF Ask, Lock, Probe, ProbeAnswered, ProbeUnanswered, Unlink, Bind, Listen,
           Connect, Dispatch, Return, Cut, daemons, past
    <2> QED
        BY <2>1, AskTypeOK DEF IInv, Undisturbed
<1> USE <1>0, Names DEF IInv, TypeOK, LaunchersTakeTurns, ProbesStayTrue, NobodyIsLetDown,
        Daemon, Past, Go, Meet, files, daemons, past, Ended
<1>1. CASE Lock(c)
    BY <1>1 DEF Lock, Holds
<1>2. CASE Probe(c)
    BY <1>2 DEF Probe, Holds
<1>3. CASE ProbeAnswered(c)
    <2>1. peer[c] \in Daemon /\ Holds(peer[c])
        BY <1>3 DEF ProbeAnswered, Answers, Holds, Undisturbed, Named
    <2>2. unheard = {} => socket \in Daemon /\ Holds(socket)
        BY <2>1, HoldersBehindSocket
    <2> QED
        BY <1>3, <2>1, <2>2 DEF ProbeAnswered, Holds
<1>4. CASE ProbeUnanswered(c)
    BY <1>4 DEF ProbeUnanswered, Holds
<1>5. CASE Unlink(c)
    <2>1. unheard = {} => \A d \in Daemon : ~Holds(d)
        BY <1>5, HoldersBehindSocket DEF Unlink
    <2> QED
        BY <1>5, <2>1 DEF Unlink, Holds
<1>6. CASE Bind(c)
    <2>1. unheard = {} => \A d \in Daemon : ~Holds(d)
        BY <1>6, HoldersBehindSocket DEF Bind
    <2> QED
        BY <1>6, <2>1 DEF Bind, Holds
<1>7. CASE Listen(c)
    <2>1. socket = c /\ stopping[c] \in Named
        BY <1>7 DEF Listen, Undisturbed, Named
    <2> QED
        BY <1>7, <2>1 DEF Listen, Holds
<1>8. CASE Connect(c)
    <2>1. CASE Listens(socket)
        <3>1. socket \in Daemon /\ Holds(socket)
            BY <2>1 DEF Listens, Holds, Undisturbed, Named
        <3> QED
            BY <1>8, <2>1, <3>1 DEF Connect, Holds
    <2>2. CASE ~Listens(socket)
        <3>1. unheard # {}
            BY <1>8, <2>2 DEF Connect, Listens, Holds
        <3> QED
            BY <1>8, <2>2, <3>1 DEF Connect, Holds
    <2> QED
        BY <2>1, <2>2
<1>9. CASE Dispatch(c)
    BY <1>9 DEF Dispatch, Holds
<1>10. CASE Return(c)
    BY <1>10 DEF Return, Holds
<1>11. ~Cut(c)
    BY DEF Cut, Undisturbed
<1> QED
    BY <1>1, <1>2, <1>3, <1>4, <1>5, <1>6, <1>7, <1>8, <1>9, <1>10, <1>11 DEF Ask

\* A stopper that nobody has listened to has changed nothing.
LEMMA StopIsServed ==
    ASSUME IInv, NobodyIsLetDown, NEW s \in Stopper, Stop(s) \/ \E d \in Daemon : Signal(s, d)
    PROVE  NobodyIsLetDown'
<1> SUFFICES ASSUME Undisturbed'
             PROVE  NobodyIsLetDown'
    BY DEF NobodyIsLetDown
<1> USE Names DEF IInv, TypeOK, Go, Meet, files, daemons, past
<1>1. \A c \in Command : c # s
    BY DaemonAssumption
<1>2. /\ UNCHANGED <<files, flock, life, stopping, dispatching, past>>
      /\ \A c \in Command : pc'[c] = pc[c] /\ peer'[c] = peer[c]
    BY <1>1 DEF Stop, StopProbe, StopProbed, AskToStop, ReadPid, SeesItGone, StopsWaiting,
       Signal, Listens, Undisturbed
<1> QED
    BY <1>2 DEF NobodyIsLetDown, Undisturbed, Holds

\* A daemon that is neither stopped nor killed goes on serving.
LEMMA DaemonServes ==
    ASSUME IInv, NobodyIsLetDown, NEW d \in Daemon, StopThread(d) \/ Process(d) \/ Kill(d)
    PROVE  NobodyIsLetDown'
<1> SUFFICES ASSUME Undisturbed'
             PROVE  NobodyIsLetDown'
    BY DEF NobodyIsLetDown
<1>1. ~Kill(d)
    BY DaemonAssumption DEF Kill, Undisturbed, IInv, TypeOK
<1>2. ~StopThread(d)
    BY DEF StopThread, StopSets, StopUnlinks, StopCloses, StopCleansUp, Undisturbed, IInv, TypeOK
<1>3. Undisturbed
    BY <1>1, <1>2 DEF Process, WritePid, Serve, LeaveLoop, CleanUp, Exit, Undisturbed, past
<1>4. WritePid(d) \/ Serve(d)
    BY <1>1, <1>2, <1>3 DEF Process, LeaveLoop, CleanUp, Exit, Undisturbed, NobodyIsLetDown
<1> QED
    BY <1>3, <1>4, Names DEF WritePid, Serve, NobodyIsLetDown, Holds, IInv, TypeOK, clients,
       files, past, Daemon

\* Unless a daemon was killed or told to stop, every command that has ended was served, and
\* all of them by one daemon, but for what a probe that timed out does (ensure_daemon,
\* connect).
THEOREM OneDaemonServesAll == Spec => []CommandsShareTheDaemon
<1>1. Init => NobodyIsLetDown
    BY DaemonAssumption DEF Init, NobodyIsLetDown, Daemon, Client, Ended, Past
<1>2. IInv /\ NobodyIsLetDown /\ [Next]_vars => NobodyIsLetDown'
    <2> SUFFICES ASSUME IInv, NobodyIsLetDown, [Next]_vars
                 PROVE  NobodyIsLetDown'
        OBVIOUS
    <2>1. CASE UNCHANGED vars
        BY <2>1 DEF NobodyIsLetDown, Undisturbed, Holds, vars, files, daemons, clients, past
    <2>2. CASE Terminated
        BY <2>1, <2>2 DEF Terminated
    <2> QED
        BY <2>1, <2>2, AskIsServed, StopIsServed, DaemonServes DEF Next
<1>3. IInv /\ NobodyIsLetDown => CommandsShareTheDaemon
    <2> SUFFICES ASSUME IInv, NobodyIsLetDown, Undisturbed
                 PROVE  CommandsShareTheDaemon
        BY DEF CommandsShareTheDaemon, Undisturbed
    <2> QED
        BY HoldersBehindSocket DEF NobodyIsLetDown, CommandsShareTheDaemon
<1> QED
    BY <1>1, <1>2, <1>3, Rendezvous, PTL DEF Spec
=============================================================================
