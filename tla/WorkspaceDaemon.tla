--------------------------- MODULE WorkspaceDaemon ---------------------------
(***************************************************************************)
(* The daemon that serves a workspace, and how it is found, started and    *)
(* stopped.  Everybody meets at two files of the workspace's directory:    *)
(* the socket, which leads to whatever listens behind it, and the pid.     *)
(*                                                                         *)
(* A command has a launcher take the flock, probe the socket and, when     *)
(* nothing answers in a second, put a new daemon behind it (ensure_daemon). *)
(* It then connects to the socket and makes its request, which is          *)
(* dispatched under the daemon's one dispatch lock, as the probe is.  A    *)
(* new daemon listens long before it accepts anything: it builds its       *)
(* session first.  A stopper asks the daemon to stop and waits until it is *)
(* gone (stop_daemon).                                                     *)
(*                                                                         *)
(* A command is made once, so the daemon it starts is named after it.      *)
(***************************************************************************)
EXTENDS Naturals

CONSTANTS
    Command,
    Stopper,
    Crowd,      \* who of them may come at once
    MaxKills,   \* how many daemons may be killed
    Nobody      \* neither a command nor a stopper

ASSUME DaemonAssumption ==
    /\ Crowd \subseteq SUBSET (Command \cup Stopper) /\ MaxKills \in Nat
    /\ Nobody \notin Command \cup Stopper
    /\ Command \cap Stopper = {}

Daemon == Command
Client == Command \cup Stopper

VARIABLES
    socket,       \* the daemon that the socket file was bound by
    pidFile,      \* the daemon named by the pid file
    flock,        \* the command whose launcher holds the lock file
    life,         \* of each daemon: its process
    stopping,     \* how far its stop() is
    dispatching,  \* the command whose request holds its dispatch lock
    pc,           \* of each client
    peer,         \* the daemon that the client is connected to
    seen,         \* the pid that a stopper waits for
    unheard,      \* remembers the daemons that a launcher has taken for dead
    kills

files == <<socket, pidFile>>
daemons == <<life, stopping, dispatching>>
clients == <<pc, peer, seen>>
past == <<unheard, kills>>
vars == <<files, flock, daemons, clients, past>>

Init ==
    /\ socket = Nobody /\ pidFile = Nobody /\ flock = Nobody
    /\ life = [d \in Daemon |-> "unborn"]
    /\ stopping = [d \in Daemon |-> "no"]
    /\ dispatching = [d \in Daemon |-> Nobody]
    /\ \E crowd \in Crowd : pc = [c \in Client |-> IF c \in crowd THEN "idle" ELSE "away"]
    /\ peer = [c \in Client |-> Nobody]
    /\ seen = [s \in Stopper |-> Nobody]
    /\ unheard = {} /\ kills = 0

Go(c, place) == pc' = [pc EXCEPT ![c] = place]
Meet(c, d) == peer' = [peer EXCEPT ![c] = d]

\* stop() has not got to the daemon's socket file: whoever looks for it finds it by name.
Named == {"no", "asked", "set"}

ListensOnceServing(d) ==  \* a socket that is bound long before anybody listens
    d # Nobody /\ life[d] = "serving" /\ stopping[d] \in Named \cup {"unlinked"}

\* A connection to the socket gets through: to the backlog at least.
Listens(d) == /\ d # Nobody
              /\ life[d] \in {"listening", "starting", "serving", "leaving", "exiting"}
              /\ stopping[d] \in Named \cup {"unlinked"}

\* is_alive(): a connection that the daemon has read a request from is answered once
\* nobody else's request is dispatched.
Answers(d) == life[d] = "serving" /\ dispatching[d] = Nobody

\* The second (LIVENESS_TIMEOUT) is over before a daemon that builds its session accepts the
\* connection, or before it has dispatched another one's request; and one that is stopping
\* closes a connection that it accepts, and all of them when it goes.
DoesNotAnswer(d) ==
    \/ life[d] \in {"listening", "starting", "gone"}
    \/ stopping[d] \notin {"no", "asked"}
    \/ dispatching[d] # Nobody

-----------------------------------------------------------------------------
(* A command: the launcher, then the client.                               *)

LockShared(c) ==         \* LOCK_SH
    /\ pc[c] = "idle"
    /\ flock' = c
    /\ Go(c, "probe")
    /\ UNCHANGED <<files, daemons, peer, seen, past>>

Lock(c) ==
    /\ pc[c] = "idle"
    /\ flock = Nobody
    /\ flock' = c
    /\ Go(c, "probe")
    /\ UNCHANGED <<files, daemons, peer, seen, past>>

Probe(c) ==
    /\ pc[c] = "probe"
    /\ IF Listens(socket)
       THEN Meet(c, socket) /\ Go(c, "probing")
       ELSE Go(c, "unlink") /\ UNCHANGED peer
    /\ UNCHANGED <<files, flock, daemons, seen, past>>

ProbeAnswered(c) ==
    /\ pc[c] = "probing" /\ Answers(peer[c])
    /\ flock' = Nobody
    /\ Meet(c, Nobody) /\ Go(c, "connect")
    /\ UNCHANGED <<files, daemons, seen, past>>

\* Whoever it is, and if it is still there, somebody else is about to take its place.
ProbeUnanswered(c) ==
    /\ pc[c] = "probing" /\ DoesNotAnswer(peer[c])
    /\ unheard' = unheard \cup
          {d \in Daemon : d = peer[c] /\ life[d] # "gone" /\ stopping[d] \in Named}
    /\ Meet(c, Nobody) /\ Go(c, "unlink")
    /\ UNCHANGED <<files, flock, daemons, seen, kills>>

\* The file that is there, if any, is unlinked ...
Unlink(c) ==
    /\ pc[c] = "unlink"
    /\ socket' = Nobody
    /\ Go(c, "bind")
    /\ UNCHANGED <<pidFile, flock, daemons, peer, seen, past>>

Bind(c) ==
    /\ pc[c] = "bind"
    /\ socket' = c
    /\ life' = [life EXCEPT ![c] = "bound"]
    /\ Go(c, "listen")
    /\ UNCHANGED <<pidFile, flock, stopping, dispatching, peer, seen, past>>

\* ... and the new one is made private (chmod), which fails if it has been unlinked, and
\* listened to.
Listen(c) ==
    /\ pc[c] = "listen"
    /\ IF socket = c
       THEN life' = [life EXCEPT ![c] = "listening"] /\ Go(c, "connect")
       ELSE life' = [life EXCEPT ![c] = "gone"] /\ Go(c, "alone")
    /\ flock' = Nobody
    /\ UNCHANGED <<files, stopping, dispatching, peer, seen, past>>

\* The client connects by the file's name, to whoever is behind it by then.  When
\* nobody is, it runs a service of its own.
Connect(c) ==
    /\ pc[c] = "connect"
    /\ IF Listens(socket)
       THEN Meet(c, socket) /\ Go(c, "calling")
       ELSE Go(c, "alone") /\ UNCHANGED peer
    /\ UNCHANGED <<files, flock, daemons, seen, past>>

Dispatch(c) ==
    /\ pc[c] = "calling" /\ Answers(peer[c])
    /\ dispatching' = [dispatching EXCEPT ![peer[c]] = c]
    /\ Go(c, "served")
    /\ UNCHANGED <<files, flock, life, stopping, peer, seen, past>>

HangUp(c) ==             \* an answer that leaves the lock taken
    /\ pc[c] = "served" /\ life[peer[c]] # "gone"
    /\ Go(c, "done")
    /\ UNCHANGED <<files, flock, daemons, peer, seen, past>>

Return(c) ==
    /\ pc[c] = "served" /\ life[peer[c]] # "gone"
    /\ dispatching' = [dispatching EXCEPT ![peer[c]] = Nobody]
    /\ Go(c, "done")
    /\ UNCHANGED <<files, flock, life, stopping, peer, seen, past>>

\* "The PartCAD service closed the connection": before the request was read, because
\* the daemon is stopping, or at any time, because it is gone.
Cut(c) ==
    /\ \/ pc[c] = "calling" /\ stopping[peer[c]] \notin {"no", "asked"}
       \/ pc[c] \in {"calling", "served"} /\ life[peer[c]] = "gone"
    /\ Go(c, "failed")
    /\ UNCHANGED <<files, flock, daemons, peer, seen, past>>

-----------------------------------------------------------------------------
(* The daemon's process: it starts, serves, and leaves the accept loop when *)
(* it notices that it was stopped; stop() runs in a connection's thread.   *)

WriteOldPid(d) ==        \* the pid of the launcher, which is about to exit
    /\ life[d] = "listening"
    /\ life' = [life EXCEPT ![d] = "starting"]
    /\ UNCHANGED <<files, flock, stopping, dispatching, clients, past>>

\* Detached, it names itself, and then builds its session: signals are not handled yet.
WritePid(d) ==
    /\ life[d] = "listening"
    /\ life' = [life EXCEPT ![d] = "starting"]
    /\ pidFile' = d
    /\ UNCHANGED <<socket, flock, stopping, dispatching, clients, past>>

Serve(d) ==
    /\ life[d] = "starting"
    /\ life' = [life EXCEPT ![d] = "serving"]
    /\ UNCHANGED <<files, flock, stopping, dispatching, clients, past>>

StopSets(d) ==
    /\ stopping[d] = "asked" /\ life[d] # "gone"
    /\ stopping' = [stopping EXCEPT ![d] = "set"]
    /\ UNCHANGED <<files, flock, life, dispatching, clients, past>>

\* Whoever bound it.
StopUnlinks(d) ==
    /\ stopping[d] = "set" /\ life[d] # "gone"
    /\ stopping' = [stopping EXCEPT ![d] = "unlinked"]
    /\ socket' = Nobody
    /\ UNCHANGED <<pidFile, flock, life, dispatching, clients, past>>

StopCloses(d) ==
    /\ stopping[d] = "unlinked" /\ life[d] # "gone"
    /\ stopping' = [stopping EXCEPT ![d] = "closed"]
    /\ UNCHANGED <<files, flock, life, dispatching, clients, past>>

StopCleansUp(d) ==
    /\ stopping[d] = "closed" /\ life[d] # "gone"
    /\ stopping' = [stopping EXCEPT ![d] = "done"]
    /\ pidFile' = Nobody
    /\ UNCHANGED <<socket, flock, life, dispatching, clients, past>>

LeaveWithTheNext(d) ==   \* accept() is only left when somebody connects
    /\ life[d] = "serving" /\ stopping[d] \notin {"no", "asked"}
    /\ \E c \in Client : peer[c] = d /\ pc[c] = "calling"
    /\ life' = [life EXCEPT ![d] = "leaving"]
    /\ UNCHANGED <<files, flock, stopping, dispatching, clients, past>>

LeaveLoop(d) ==
    /\ life[d] = "serving" /\ stopping[d] \notin {"no", "asked"}
    /\ life' = [life EXCEPT ![d] = "leaving"]
    /\ UNCHANGED <<files, flock, stopping, dispatching, clients, past>>

CleanUp(d) ==
    /\ life[d] = "leaving"
    /\ life' = [life EXCEPT ![d] = "exiting"]
    /\ pidFile' = Nobody
    /\ UNCHANGED <<socket, flock, stopping, dispatching, clients, past>>

\* Whatever its threads were doing.
Exit(d) ==
    /\ life[d] = "exiting"
    /\ life' = [life EXCEPT ![d] = "gone"]
    /\ UNCHANGED <<files, flock, stopping, dispatching, clients, past>>

\* A kill, a signal before there are handlers, or a session that cannot be built.
Kill(d) ==
    /\ kills < MaxKills
    /\ life[d] \in {"listening", "starting", "serving", "leaving", "exiting"}
    /\ life' = [life EXCEPT ![d] = "gone"]
    /\ kills' = kills + 1
    /\ UNCHANGED <<files, flock, stopping, dispatching, clients, unheard>>

-----------------------------------------------------------------------------
(* A stopper.                                                              *)

\* SIGTERM and SIGINT have the daemon stop() itself.
Signal(s, d) ==
    /\ pc[s] = "idle"
    /\ life[d] = "serving" /\ stopping[d] = "no"
    /\ stopping' = [stopping EXCEPT ![d] = "asked"]
    /\ Go(s, "signalled")
    /\ UNCHANGED <<files, flock, life, dispatching, peer, seen, past>>

StopProbe(s) ==
    /\ pc[s] = "idle"
    /\ IF Listens(socket)
       THEN Meet(s, socket) /\ Go(s, "probing")
       ELSE Go(s, "none") /\ UNCHANGED peer
    /\ UNCHANGED <<files, flock, daemons, seen, past>>

StopProbed(s) ==
    /\ pc[s] = "probing"
    /\ \/ Answers(peer[s]) /\ Go(s, "stop")
       \/ DoesNotAnswer(peer[s]) /\ Go(s, "none")
    /\ UNCHANGED <<files, flock, daemons, peer, seen, past>>

\* daemon.stop, on a connection of its own, does not wait for the dispatch lock, and is
\* acknowledged before it is acted on.
AskToStop(s) ==
    LET d == socket
        heard == Listens(d) /\ life[d] = "serving" /\ stopping[d] \in {"no", "asked"} IN
    /\ pc[s] = "stop"
    /\ \/ /\ heard
          /\ stopping' = [stopping EXCEPT ![d] = "asked"]
          /\ Meet(s, d)
          /\ Go(s, "acknowledged")
       \/ ~heard /\ Go(s, "none") /\ UNCHANGED <<stopping, peer>>
    /\ UNCHANGED <<files, flock, life, dispatching, seen, past>>

ReadPid(s) ==
    /\ pc[s] = "acknowledged"
    /\ seen' = [seen EXCEPT ![s] = pidFile]
    /\ Go(s, "waiting")
    /\ UNCHANGED <<files, flock, daemons, peer, past>>

SeesItGone(s) ==
    /\ pc[s] = "waiting"
    /\ Listens(socket) => DoesNotAnswer(socket)
    /\ seen[s] # Nobody => life[seen[s]] = "gone"
    /\ Go(s, "stopped")
    /\ UNCHANGED <<files, flock, daemons, peer, seen, past>>

StopsWaiting(s) ==
    /\ pc[s] = "waiting"
    /\ Go(s, "none")
    /\ UNCHANGED <<files, flock, daemons, peer, seen, past>>

-----------------------------------------------------------------------------
Ended == {"away", "done", "failed", "alone", "stopped", "signalled", "none"}

Terminated == /\ \A c \in Command : pc[c] \in Ended
              /\ UNCHANGED vars

Ask(c) == \/ Lock(c) \/ Probe(c) \/ ProbeAnswered(c) \/ ProbeUnanswered(c)
          \/ Unlink(c) \/ Bind(c) \/ Listen(c) \/ Connect(c) \/ Dispatch(c) \/ Return(c) \/ Cut(c)

Stop(s) == \/ StopProbe(s) \/ StopProbed(s) \/ AskToStop(s) \/ ReadPid(s)
           \/ SeesItGone(s) \/ StopsWaiting(s)

StopThread(d) == StopSets(d) \/ StopUnlinks(d) \/ StopCloses(d) \/ StopCleansUp(d)
Process(d) == WritePid(d) \/ Serve(d) \/ LeaveLoop(d) \/ CleanUp(d) \/ Exit(d)

Next ==
    \/ \E c \in Command : Ask(c)
    \/ \E s \in Stopper : Stop(s) \/ \E d \in Daemon : Signal(s, d)
    \/ \E d \in Daemon : StopThread(d) \/ Process(d) \/ Kill(d)
    \/ Terminated

Spec == Init /\ [][Next]_vars

\* Processes and threads are scheduled, operations end, and probes are answered or time
\* out: some command's or daemon's step is taken when one can be.  This is weaker than
\* fairness of each of them.  Nobody has to stop or kill a daemon.
FairSpec ==
    Spec /\ WF_vars(\/ \E c \in Command : Ask(c)
                    \/ \E d \in Daemon : StopThread(d) \/ Process(d))

-----------------------------------------------------------------------------
TypeOK ==
    /\ socket \in Daemon \cup {Nobody} /\ pidFile \in Daemon \cup {Nobody}
    /\ flock \in Command \cup {Nobody}
    /\ life \in [Daemon -> {"unborn", "bound", "listening", "starting", "serving", "leaving",
                           "exiting", "gone"}]
    /\ stopping \in [Daemon -> Named \cup {"unlinked", "closed", "done"}]
    /\ dispatching \in [Daemon -> Command \cup {Nobody}]
    /\ pc \in [Client -> Ended \cup {"idle", "probe", "probing", "unlink", "bind", "listen",
                                     "connect", "calling", "served", "stop", "acknowledged",
                                     "waiting"}]
    /\ peer \in [Client -> Daemon \cup {Nobody}]
    /\ seen \in [Stopper -> Daemon \cup {Nobody}]
    /\ unheard \subseteq Daemon /\ kills \in 0 .. MaxKills

Live(d) == life[d] \in {"listening", "starting", "serving"} /\ stopping[d] = "no"

\* "There is one per workspace" (docs/source/cli.rst): of the daemons that nobody has told
\* to stop, never two.
OneDaemonPerWorkspace == \A d, e \in Daemon : Live(d) /\ Live(e) => d = e

\* A daemon that was taken for dead has stopped all the same, and taken the socket file with
\* it, whoever had bound that meanwhile.
SomebodyCameBack == \E e \in unheard : stopping[e] \notin Named

\* A daemon that lives is behind the socket, where whoever looks for it finds it, unless it
\* did not answer a launcher's probe in time, or another one that did not came back: nobody
\* else takes its address from it, neither a launcher nor a daemon that stops, in whatever
\* order they come (ensure_daemon, SocketServer.stop).
DaemonKeepsItsAddress ==
    \A d \in Daemon \ unheard : Live(d) => socket = d \/ SomebodyCameBack

HasCleanedUp(d) == stopping[d] # "no" /\ (stopping[d] = "done" \/ life[d] \in {"exiting", "gone"})

\* The pid file names the daemon that serves, for whoever is to wait for its end, unless it
\* lost its address (above); or names one that a launcher took for dead and that wrote its
\* pid late; or was removed by a daemon that stopped, which does not look whose it is
\* (_write_pid, _cleanup, wait_until_stopped).
PidFileNamesTheDaemon ==
    \A d \in Daemon \ unheard : life[d] = "serving" /\ stopping[d] = "no" =>
        \/ pidFile = d
        \/ SomebodyCameBack
        \/ pidFile \in unheard
        \/ pidFile = Nobody /\ (\E e \in Daemon : HasCleanedUp(e))

\* Unless a daemon was killed or told to stop, every command that has ended was served, but
\* for one that came while a launcher replaced a daemon that it had taken for dead; and two
\* commands were served by one daemon, which stays warm between them, unless one of theirs
\* was taken for dead (ensure_daemon, connect).
CommandsShareTheDaemon ==
    kills = 0 /\ (\A d \in Daemon : stopping[d] = "no") =>
        /\ \A c \in Command : pc[c] \in Ended \ {"away"} =>
              pc[c] = "done" \/ (pc[c] = "alone" /\ unheard # {})
        /\ \A b, c \in Command : pc[b] = "done" /\ pc[c] = "done" =>
              peer[b] = peer[c] \/ {peer[b], peer[c]} \cap unheard # {}

\* A stopper that reports its daemon gone is right: the process has exited, and its
\* files may be replaced (wait_until_stopped).
StoppedMeansGone == \A s \in Stopper : pc[s] = "stopped" => life[peer[s]] = "gone"

\* No order of launches, requests, stops and kills keeps a command waiting for ever: not on
\* the flock, nor on the probe, nor on a daemon that goes away (ensure_daemon, DaemonClient).
CommandsEnd == \A c \in Command : pc[c] # "idle" ~> pc[c] \in Ended

\* A daemon that was told to stop goes, whatever it is dispatching and whoever connects
\* (SocketServer.stop, _accept_loop).
StoppedDaemonsGo == \A d \in Daemon : stopping[d] # "no" ~> life[d] = "gone"
=============================================================================
