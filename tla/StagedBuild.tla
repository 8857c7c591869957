----------------------------- MODULE StagedBuild -----------------------------
(***************************************************************************)
(* How an assembly gets built out of other assemblies, one request at a    *)
(* time (partcad_utils/staging.py).  A daemon that is asked for an         *)
(* assembly whose sub-assemblies are not there yet does nothing but name   *)
(* them; the client asks for each of them first, which may recurse, and    *)
(* then asks again (_stage_subassemblies, DaemonClient._call_staging).     *)
(*                                                                         *)
(* All clients are of one workspace.  The daemon keeps one context for it, *)
(* built from the user configuration of the client that created it, and    *)
(* dispatches one request at a time.  A context and all the objects in it  *)
(* are named here after the client that created it.                        *)
(***************************************************************************)
EXTENDS Naturals, Sequences, FiniteSets

CONSTANTS
    Client, NoClient,
    Configuration,  \* of each client
    Target,         \* the assembly that each client asks for
    Assembly,
    Places,         \* the assemblies that each one places
    Stored,         \* those that some cache tier accepts
    Remembered,     \* those that stay in memory once they are built
    Evictable       \* those that may get lost from the tiers, once each

ASSUME StagingAssumption ==
    /\ NoClient \notin Client
    /\ Target \in [Client -> Assembly]
    /\ Places \in [Assembly -> SUBSET Assembly]
    /\ \A a \in Assembly : a \notin Places[a]  \* a link to itself is reported where it is built
    /\ Stored \subseteq Assembly /\ Evictable \subseteq Stored

VARIABLES
    warm,     \* the context of the workspace, by its creator
    memory,   \* the objects that are in memory, as <<context, assembly>>
    tiers,    \* the assemblies that the cache tiers hold
    staged,   \* session.staged: the objects that were built because a client was told to
    pc,
    stack,    \* of each client: the assemblies it is at, the innermost one last
    asked,    \* of each client: what it has asked to be built first
    builds,   \* how often each assembly was built
    evicted

session == <<warm, memory, staged>>
clients == <<pc, stack, asked>>
vars == <<session, clients, tiers, builds, evicted>>

Init ==
    /\ warm = NoClient /\ memory = {} /\ staged = {}
    /\ tiers \in SUBSET Stored
    /\ pc = [c \in Client |-> "idle"]
    /\ stack = [c \in Client |-> <<>>]
    /\ asked = [c \in Client |-> {}]
    /\ builds = [a \in Assembly |-> 0]
    /\ evicted = {}

\* One call of _call_staging: for an assembly, with what is to be built before it.
Frame(a, first) == [of |-> a, first |-> first]

Innermost(c) == stack[c][Len(stack[c])]
Outer(c) == SubSeq(stack[c], 1, Len(stack[c]) - 1)

-----------------------------------------------------------------------------
(* The daemon.                                                             *)

IsCached(i, a) == <<i, a>> \in memory \/ a \in tiers

PendingForgetful(i, a) ==  \* what was built on request is named again
    {s \in Places[a] : ~IsCached(i, s)}

\* What has to be built before a may be: never what was built on request before.
Pending(i, a) == {s \in Places[a] : ~IsCached(i, s) /\ <<i, s>> \notin staged}

\* The assemblies of T that a, in T, is built out of if only those of T get built, itself
\* included: the least set that holds a and the parts of all that it holds.
BuiltOutOf == [T \in SUBSET Assembly |-> [a \in Assembly |->
    {x \in T : a \in T /\ \A S \in SUBSET T :
        a \in S /\ (\A s \in S : Places[s] \cap T \subseteq S) => x \in S}]]

\* What get_wrapped(a) builds: a, and of whatever it builds the parts that are not cached.
Uncached(i) == {x \in Assembly : ~IsCached(i, x)}
Inline(i, a) == BuiltOutOf[Uncached(i)][a]

\* What is in memory afterwards, whether it was built or read from a cache tier.
Loaded(a, new) == ({a} \cup UNION {Places[x] : x \in new}) \cap Remembered

WrapMemoryOnly(i, a) ==    \* nothing reaches the cache tiers
    LET new == Inline(i, a) IN
    /\ builds' = [x \in Assembly |-> IF x \in new THEN builds[x] + 1 ELSE builds[x]]
    /\ memory' = memory \cup {<<i, x>> : x \in Loaded(a, new)}
    /\ UNCHANGED tiers

Wrap(i, a) ==
    LET new == Inline(i, a) IN
    /\ builds' = [x \in Assembly |-> IF x \in new THEN builds[x] + 1 ELSE builds[x]]
    /\ memory' = memory \cup {<<i, x>> : x \in Loaded(a, new)}
    /\ tiers' = tiers \cup (new \cap Stored)

\* Another program, or the age of the entry.
Evict(a) ==
    /\ a \in (tiers \cap Evictable) \ evicted
    /\ tiers' = tiers \ {a}
    /\ evicted' = evicted \cup {a}
    /\ UNCHANGED <<session, clients, builds>>

-----------------------------------------------------------------------------
(* A client: its command creates the context, or reuses it, and asks.      *)

Create(c) ==
    /\ pc[c] = "idle"
    /\ warm' = IF warm # NoClient /\ Configuration[warm] = Configuration[c] THEN warm ELSE c
    /\ stack' = [stack EXCEPT ![c] = <<Frame(Target[c], {})>>]
    /\ pc' = [pc EXCEPT ![c] = "calling"]
    /\ UNCHANGED <<memory, staged, tiers, asked, builds, evicted>>

Calls(c) == pc[c] = "calling" /\ Innermost(c).first = {}

BuildAtOnce(c) ==          \* the daemon does not look before it builds
    LET a == Innermost(c).of IN
    /\ Calls(c)
    /\ Wrap(warm, a)
    /\ \/ /\ Len(stack[c]) = 1
          /\ pc' = [pc EXCEPT ![c] = "done"]
          /\ UNCHANGED <<staged, stack>>
       \/ /\ Len(stack[c]) > 1
          /\ staged' = staged \cup {<<warm, a>>}
          /\ stack' = [stack EXCEPT ![c] = Outer(c)]
          /\ UNCHANGED pc
    /\ UNCHANGED <<warm, asked, evicted>>

\* Nothing is missing: the assembly is built, and kept in mind if it was for another one.
Answered(c) ==
    LET a == Innermost(c).of IN
    /\ Calls(c)
    /\ Pending(warm, a) = {}
    /\ Wrap(warm, a)
    /\ \/ /\ Len(stack[c]) = 1
          /\ pc' = [pc EXCEPT ![c] = "done"]
          /\ UNCHANGED <<staged, stack>>
       \/ /\ Len(stack[c]) > 1
          /\ staged' = staged \cup {<<warm, a>>}
          /\ stack' = [stack EXCEPT ![c] = Outer(c)]
          /\ UNCHANGED pc
    /\ UNCHANGED <<warm, asked, evicted>>

AsksAgainAtOnce(c) ==      \* the client does not build what it was told to
    /\ Calls(c)
    /\ Pending(warm, Innermost(c).of) \ asked[c] # {}
    /\ UNCHANGED <<session, clients, tiers, builds, evicted>>

\* RETRY_LATER: what the client has not asked for yet comes first.
ToldToWait(c) ==
    LET a == Innermost(c).of new == Pending(warm, a) \ asked[c] IN
    /\ Calls(c)
    /\ new # {}
    /\ stack' = [stack EXCEPT ![c] = Append(Outer(c), Frame(a, new))]
    /\ UNCHANGED <<session, pc, asked, tiers, builds, evicted>>

\* "The PartCAD service asked again for sub-assemblies it has already been told to build".
AskedAgain(c) ==
    LET missing == Pending(warm, Innermost(c).of) IN
    /\ Calls(c)
    /\ missing # {} /\ missing \subseteq asked[c]
    /\ pc' = [pc EXCEPT ![c] = "failed"]
    /\ UNCHANGED <<session, stack, asked, tiers, builds, evicted>>

Stage(c) ==
    /\ pc[c] = "calling"
    /\ \E s \in Innermost(c).first :
        /\ asked' = [asked EXCEPT ![c] = @ \cup {s}]
        /\ stack' = [stack EXCEPT ![c] =
               Append(Append(Outer(c), [Innermost(c) EXCEPT !.first = @ \ {s}]), Frame(s, {}))]
    /\ UNCHANGED <<session, pc, tiers, builds, evicted>>

-----------------------------------------------------------------------------
Ended == {"done", "failed"}

Terminated == (\A c \in Client : pc[c] \in Ended) /\ UNCHANGED vars

Call(c) == Answered(c) \/ ToldToWait(c) \/ AskedAgain(c) \/ Stage(c)

Next == \/ \E c \in Client : Create(c) \/ Call(c)
        \/ \E a \in Assembly : Evict(a)
        \/ Terminated

Spec == Init /\ [][Next]_vars

\* A client goes on until its command has ended, and the daemon answers.
FairSpec == Spec /\ \A c \in Client : WF_vars(Call(c))

-----------------------------------------------------------------------------
TypeOK ==
    /\ warm \in Client \cup {NoClient}
    /\ memory \subseteq Client \X Assembly
    /\ staged \subseteq Client \X Assembly
    /\ tiers \subseteq Stored
    /\ pc \in [Client -> {"idle", "calling", "done", "failed"}]
    /\ stack \in [Client -> Seq([of : Assembly, first : SUBSET Assembly])]
    /\ \A c \in Client : pc[c] = "calling" => stack[c] # <<>>
    /\ asked \in [Client -> SUBSET Assembly]
    /\ builds \in [Assembly -> Nat]
    /\ evicted \subseteq Evictable

\* "Nothing is built twice, since each one is cached as it is finished"
\* (docs/source/cli.rst): by no client and in no context, unless the entry got lost
\* (get_wrapped, _stage_subassemblies).
NothingIsBuiltTwice == \A a \in Stored \ evicted : builds[a] <= 1

\* The assemblies that a is built out of, itself included, and those whose parts are
\* built out of each other.
Below(a) == BuiltOutOf[Assembly][a]
Cyclic == {a \in Assembly : \E S \in SUBSET Below(a) : S # {} /\ \A s \in S : Places[s] \cap S # {}}

\* "No single request is longer than one assembly's own work" (staging.py): what a
\* request builds beside the assembly it asks for was built at a request of its own
\* before, or it has got lost since, or an assembly that it is a part of has.
RequestsStaySmall ==
    [][\A c \in Client : Calls(c) /\ (pc'[c] # pc[c] \/ stack'[c] # stack[c]) =>
        \A x \in Assembly : builds'[x] # builds[x] =>
            \/ x = Innermost(c).of \/ <<warm, x>> \in staged
            \/ \E y \in evicted : x \in Below(y)]_vars

\* A command is answered, however little of what it needs can be cached, unless the
\* assembly is built out of itself ("slower than it should be, but an answer":
\* _stage_subassemblies).
FailsOnlyOnACycle == \A c \in Client : pc[c] = "failed" => Target[c] \in Cyclic

\* The exchange ends: the client is not told to build the same things for ever
\* (_call_staging).
CommandsEnd == \A c \in Client : pc[c] = "calling" ~> pc[c] \in Ended

\* "It is always yours" (docs/source/cli.rst): a command is answered out of a context that
\* was built from the configuration of its own client (context_create, _ctx).
AnswersFromOwnGraph ==
    \A c \in Client : pc[c] = "calling" => Configuration[warm] = Configuration[c]
=============================================================================
