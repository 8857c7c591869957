---------------------------- MODULE DerivedParts ----------------------------
(***************************************************************************)
(* Parts that no package declares: the components of a STEP file or the    *)
(* links of a robot description, which are there once the assembly read    *)
(* from that file (a model) has been instantiated.  To look such a part up *)
(* is to have its model instantiated first, by the one request that claims *)
(* it (project.py); the others wait for an event.  A model is instantiated *)
(* for its own sake as well, or through an assembly that is an alias of it *)
(* (assembly_factory_alias.py).                                            *)
(*                                                                         *)
(* Assembly.do_instantiate takes two locks, of the thread and of the loop  *)
(* (as in ShapeBuild), and sends the factory to a thread of the detached   *)
(* pool.  The factory reads the file and then registers each part and adds *)
(* it to the tree.  The factory of an alias takes the thread lock of the   *)
(* model, fills its tree if it is empty, and shares it.  A request whose   *)
(* loop closes is cancelled; its factory runs on.                          *)
(*                                                                         *)
(* A request of a caller without a loop (get_part) is one that has a loop  *)
(* to itself; groups of links within a model are flat here.                *)
(***************************************************************************)
EXTENDS Sequences, SequencesExt

CONSTANTS
    Model,
    Alias,          \* the assemblies that are aliases of models
    Part,
    Request,
    SourceOf,       \* the model of an alias
    Yields,         \* the parts of a model that register, in the order of its file
    LoopOf,         \* the event loop a request runs on
    Setting,        \* what there may be to do, see SettingOK
    None

Tree == Model \cup Alias

\* want:    the part that a request looks up, or the tree that it instantiates
\* failing: the models that may turn out not to be readable
\* closing: the requests that may be cancelled, as their loops close
SettingOK(s) ==
    /\ s.want \in [Request -> Part \cup Tree \cup {None}]
    /\ s.failing \subseteq Model /\ s.closing \subseteq Request

Answers == {"found", "missing", "built", "raised", "cancelled"}

ASSUME DerivedAssumption ==
    /\ Model \cap Alias = {} /\ Part \cap Tree = {}
    /\ None \notin Part \cup Tree \cup Request \cup Answers
    /\ SourceOf \in [Alias -> Model]
    /\ Yields \in [Model -> Seq(Part)]
    \* a derived part is named after its model
    /\ \A p \in Part : \E m \in Model : p \in Range(Yields[m])
    /\ \A m, n \in Model : Range(Yields[m]) \cap Range(Yields[n]) # {} => m = n
    /\ \A s \in Setting : SettingOK(s)

VARIABLES
    setting,
    pc,             \* how far each request is
    answer,         \* of a lookup: found or missing; of a tree: built or raised
    job,            \* how far the factory is that a request has sent to a thread
    place,          \* and how many parts it has added
    registered,     \* the derived parts that the package has
    children,       \* the trees of the models
    shared,         \* the aliases that have their model's tree
    attempted,      \* _derived_parts_attempted
    builder,        \* _derived_parts_building: who has claimed a model
    signalled       \* the events that are set

requests == <<pc, answer>>
factories == <<job, place>>
trees == <<registered, children, shared>>
claims == <<attempted, builder, signalled>>
vars == <<setting, requests, factories, trees, claims>>

Lookups == {r \in Request : setting.want[r] \in Part}
OwnerOf(p) == CHOOSE m \in Model : p \in Range(Yields[m])
TreeOf(r) == IF r \in Lookups THEN OwnerOf(setting.want[r]) ELSE setting.want[r]
\* The model that the factory of a request reads.
Target(r) == IF TreeOf(r) \in Alias THEN SourceOf[TreeOf(r)] ELSE TreeOf(r)

Content(t) == IF t \in Model THEN children[t]
              ELSE IF t \in shared THEN children[SourceOf[t]] ELSE <<>>

-----------------------------------------------------------------------------
\* Between these points a request does not let other tasks of its loop run.
AtOnce == {"claims", "enters", "clears", "signals", "finds"}
OnLoop(l) == {r \in Request : LoopOf[r] = l}
Turns(r) == \A u \in OnLoop(LoopOf[r]) : u = r \/ pc[u] \notin AtOnce \cup {"blocked"}

\* The thread lock of a tree: loops that have it, and factories of aliases that fill it.
Inside == {"queued", "building"}
LockedBy(t) == {LoopOf[u] : u \in {r \in Request : pc[r] \in Inside /\ TreeOf(r) = t}}
Filling == {"reads", "links", "adds", "shares"}
FilledBy(m) == {r \in Request : job[r] \in Filling /\ TreeOf(r) \in Alias /\ Target(r) = m}
LetsPass(r) == FilledBy(TreeOf(r)) = {} /\ LockedBy(TreeOf(r)) \subseteq {LoopOf[r]}
\* As HasTurn, without the loop's lock.
HasAnyTurn(r) == TRUE

\* The loop's own lock of a tree.
HasTurn(r) == \A u \in OnLoop(LoopOf[r]) : TreeOf(u) = TreeOf(r) => pc[u] # "building"

Goto(r, l) == pc' = [pc EXCEPT ![r] = l]

Init ==
    /\ setting \in Setting
    /\ pc = [r \in Request |-> IF setting.want[r] = None THEN "over" ELSE "asks"]
    /\ answer = [r \in Request |-> None]
    /\ job = [r \in Request |-> "none"] /\ place = [r \in Request |-> 0]
    /\ registered = {} /\ children = [m \in Model |-> <<>>] /\ shared = {}
    /\ attempted = {} /\ builder = [m \in Model |-> None] /\ signalled = {}

-----------------------------------------------------------------------------
\* _derived_part_to_build, which asks neither for a lock nor for a claim.
Ask(r) ==
    /\ pc[r] = "asks" /\ Turns(r)
    /\ Goto(r, IF r \notin Lookups THEN "enters"
               ELSE IF setting.want[r] \in registered \/ Content(TreeOf(r)) # <<>> THEN "finds"
               ELSE "claims")
    /\ UNCHANGED <<setting, answer, factories, trees, claims>>

\* As Claim, for a lookup that does not ask who is building.
ClaimOrLook(r) ==
    /\ pc[r] = "claims"
    /\ LET m == TreeOf(r) IN
       IF m \in attempted
       THEN /\ Goto(r, "finds")
            /\ UNCHANGED claims
       ELSE /\ attempted' = attempted \cup {m}
            /\ builder' = [builder EXCEPT ![m] = r]
            /\ Goto(r, "enters")
            /\ UNCHANGED signalled
    /\ UNCHANGED <<setting, answer, factories, trees>>

\* _claim_derived_part: wait for whoever builds the model, make do with what its build came
\* to, or build it.
Claim(r) ==
    /\ pc[r] = "claims"
    /\ LET m == TreeOf(r) IN
       IF builder[m] # None \/ m \in attempted
       THEN /\ Goto(r, IF builder[m] # None THEN "waits" ELSE "finds")
            /\ UNCHANGED claims
       ELSE /\ attempted' = attempted \cup {m}
            /\ builder' = [builder EXCEPT ![m] = r]
            /\ Goto(r, "enters")
            /\ UNCHANGED signalled
    /\ UNCHANGED <<setting, answer, factories, trees>>

StopWaiting(r) ==
    /\ pc[r] = "waits" /\ Turns(r)
    /\ TreeOf(r) \in signalled
    /\ Goto(r, "finds")
    /\ UNCHANGED <<setting, answer, factories, trees, claims>>

\* _part_object: what is registered by now, or an error that there is no such part.
Find(r) ==
    /\ pc[r] = "finds"
    /\ answer' = [answer EXCEPT ![r] = IF setting.want[r] \in registered THEN "found" ELSE "missing"]
    /\ Goto(r, "over")
    /\ UNCHANGED <<setting, factories, trees, claims>>

-----------------------------------------------------------------------------
\* do_instantiate, `with self.lock`: in, or the whole loop stops.
Enter(r) ==
    /\ pc[r] = "enters"
    /\ Goto(r, IF LetsPass(r) THEN "queued" ELSE "blocked")
    /\ UNCHANGED <<setting, answer, factories, trees, claims>>
Unblock(r) ==
    /\ pc[r] = "blocked" /\ LetsPass(r)
    /\ Goto(r, "queued")
    /\ UNCHANGED <<setting, answer, factories, trees, claims>>

\* What comes after do_instantiate: a lookup gives its claim up.
Past(r) == IF r \in Lookups THEN "clears" ELSE "over"

FindTree(r) ==
    /\ pc[r] = "queued" /\ Turns(r) /\ HasTurn(r)
    /\ Content(TreeOf(r)) # <<>>
    /\ Goto(r, Past(r))
    /\ answer' = [answer EXCEPT ![r] = IF r \in Lookups THEN None ELSE "built"]
    /\ UNCHANGED <<setting, factories, trees, claims>>

StartFactory(r) ==
    /\ pc[r] = "queued" /\ Turns(r) /\ HasTurn(r)
    /\ Content(TreeOf(r)) = <<>>
    /\ Goto(r, "building")
    /\ job' = [job EXCEPT ![r] = IF TreeOf(r) \in Alias THEN "locks" ELSE "reads"]
    /\ UNCHANGED <<setting, answer, place, trees, claims>>

\* As EndBuilding, for a lookup that lets the failure of its build out.
EndBuildingOrRaise(r) ==
    /\ pc[r] = "building" /\ Turns(r)
    /\ job[r] \in {"made", "failed"}
    /\ Goto(r, IF job[r] = "made" THEN Past(r) ELSE "over")
    /\ answer' = [answer EXCEPT ![r] = IF job[r] = "made" THEN "built" ELSE "raised"]
    /\ UNCHANGED <<setting, factories, trees, claims>>

\* The factory is through, and the request goes on.
EndBuilding(r) ==
    /\ pc[r] = "building" /\ Turns(r)
    /\ job[r] \in {"made", "failed"}
    /\ Goto(r, Past(r))
    /\ answer' = [answer EXCEPT ![r] =
                    IF r \in Lookups THEN None ELSE IF job[r] = "made" THEN "built" ELSE "raised"]
    /\ UNCHANGED <<setting, factories, trees, claims>>

\* _finish_derived_part, however the build went: the claim goes, and then the event is set.
Clear(r) ==
    /\ pc[r] = "clears"
    /\ builder' = [builder EXCEPT ![TreeOf(r)] = None]
    /\ Goto(r, "signals")
    /\ UNCHANGED <<setting, answer, factories, trees, attempted, signalled>>
Signal(r) ==
    /\ pc[r] = "signals"
    /\ signalled' = signalled \cup {TreeOf(r)}
    /\ Goto(r, IF answer[r] = "cancelled" THEN "over" ELSE "finds")
    /\ UNCHANGED <<setting, answer, factories, trees, attempted, builder>>

\* The loop closes on a request that waits for something.
Cancel(r) ==
    /\ r \in setting.closing /\ pc[r] \in Inside \cup {"waits"} /\ Turns(r)
    /\ Goto(r, IF pc[r] = "waits" THEN "over" ELSE Past(r))
    /\ answer' = [answer EXCEPT ![r] = "cancelled"]
    /\ UNCHANGED <<setting, factories, trees, claims>>

-----------------------------------------------------------------------------
\* As LockSource, for an alias that does not wait for who builds its model.
ShareSource(r) ==
    /\ job[r] = "locks"
    /\ job' = [job EXCEPT ![r] = IF children[Target(r)] = <<>> THEN "reads" ELSE "shares"]
    /\ UNCHANGED <<setting, requests, place, trees, claims>>

\* An alias: `with source.lock`, and then the model's factory unless somebody ran it.
LockSource(r) ==
    /\ job[r] = "locks"
    /\ LockedBy(Target(r)) = {} /\ FilledBy(Target(r)) = {}
    /\ job' = [job EXCEPT ![r] = IF children[Target(r)] = <<>> THEN "reads" ELSE "shares"]
    /\ UNCHANGED <<setting, requests, place, trees, claims>>

\* The file is read, by a wrapper in a sandbox, before anything is added.
Read(r) ==
    /\ job[r] = "reads"
    /\ \/ job' = [job EXCEPT ![r] = "links"]
       \/ Target(r) \in setting.failing /\ job' = [job EXCEPT ![r] = "failed"]
    /\ UNCHANGED <<setting, requests, place, trees, claims>>

\* materialize_part_by_config: the part that has the name already, or a new one.  A link
\* whose part does not register is skipped (part_for), and is not in Yields.
Register(r) ==
    /\ job[r] = "links" /\ place[r] < Len(Yields[Target(r)])
    /\ registered' = registered \cup {Yields[Target(r)][place[r] + 1]}
    /\ job' = [job EXCEPT ![r] = "adds"]
    /\ UNCHANGED <<setting, requests, place, children, shared, claims>>
Add(r) ==
    /\ job[r] = "adds"
    /\ LET m == Target(r) IN
       children' = [children EXCEPT ![m] = Append(@, Yields[m][place[r] + 1])]
    /\ place' = [place EXCEPT ![r] = @ + 1]
    /\ job' = [job EXCEPT ![r] = "links"]
    /\ UNCHANGED <<setting, requests, registered, shared, claims>>

EndLinks(r) ==
    /\ job[r] = "links" /\ place[r] = Len(Yields[Target(r)])
    /\ job' = [job EXCEPT ![r] = IF TreeOf(r) \in Alias THEN "shares" ELSE "made"]
    /\ UNCHANGED <<setting, requests, place, trees, claims>>
Share(r) ==
    /\ job[r] = "shares"
    /\ shared' = shared \cup {TreeOf(r)}
    /\ job' = [job EXCEPT ![r] = "made"]
    /\ UNCHANGED <<setting, requests, place, registered, children, claims>>

-----------------------------------------------------------------------------
Step(r) ==
    \/ Ask(r) \/ Claim(r) \/ StopWaiting(r) \/ Find(r)
    \/ Enter(r) \/ Unblock(r) \/ FindTree(r) \/ StartFactory(r) \/ EndBuilding(r)
    \/ Clear(r) \/ Signal(r)
    \/ LockSource(r) \/ Read(r) \/ Register(r) \/ Add(r) \/ EndLinks(r) \/ Share(r)

Next == \E r \in Request : Step(r) \/ Cancel(r)

(* Loops and threads get to run, and a wrapper ends.  There are finitely   *)
(* many steps to take, so it is enough that some step is.                  *)
Fairness == WF_vars(\E r \in Request : Step(r))

Spec == Init /\ [][Next]_vars /\ Fairness

-----------------------------------------------------------------------------
TypeOK ==
    /\ setting \in Setting
    /\ pc \in [Request -> AtOnce \cup Inside \cup {"asks", "waits", "blocked", "over"}]
    /\ answer \in [Request -> {None} \cup Answers]
    /\ job \in [Request -> Filling \cup {"none", "locks", "made", "failed"}]
    /\ place \in [Request -> Nat]
    /\ registered \subseteq Part
    /\ children \in [Model -> Seq(Part)]
    /\ shared \subseteq Alias
    /\ attempted \subseteq Model /\ signalled \subseteq Model
    /\ builder \in [Model -> Request \cup {None}]

\* The factories that nobody waits for any more.
Strays == {r \in Request : answer[r] = "cancelled" /\ job[r] # "none"}

\* Whoever waits for a model is woken: the one who has claimed it is on its way to set the
\* event, whether its build fails or is cancelled, and is not one of those who wait.
WaitersHaveABuilder ==
    \A r \in Request : pc[r] = "waits" /\ TreeOf(r) \notin signalled =>
        \E b \in Lookups :
            /\ TreeOf(b) = TreeOf(r)
            /\ pc[b] \in Inside \cup {"enters", "blocked", "clears", "signals"}

\* "Whoever finds it empty a second time puts the whole tree in twice": nobody does, as long
\* as no factory is left behind by a loop that closes.  A request that renders and one that
\* looks up a part never walk the same links: do_instantiate looks at children under both
\* locks, although materialize_part_by_config speaks of a look "without a lock".
PutInOnce == Strays = {} => \A m \in Model : IsPrefix(children[m], Yields[m])

\* The tree that a request is given is all of it, whoever has built it.
TreesAreWhole ==
    Strays = {} =>
        \A r \in Request \ Lookups :
            answer[r] = "built" => Content(TreeOf(r)) = Yields[Target(r)]

\* A lookup that has waited for the build, found it over, or built itself finds its part, but
\* for a model that cannot be read, or one whose build was cancelled.
PartsAreFound ==
    [][\A r \in Lookups :
        pc[r] \in {"claims", "waits", "signals"} /\ pc'[r] = "finds" =>
            \/ setting.want[r] \in registered
            \/ TreeOf(r) \in setting.failing
            \/ \E u \in Request : answer[u] = "cancelled" /\ Target(u) = TreeOf(r)]_vars

\* Every request ends, if nobody asks for a tree but to find a part, or if all loops but one
\* have to do with one model each: else two loops can wait for each other's thread locks.
OneModel(l) ==
    \E m \in Model : \A r \in OnLoop(l) : setting.want[r] # None => TreeOf(r) = m
Orderly ==
    \/ \A r \in Request : setting.want[r] \notin Tree
    \/ \E l \in Range(LoopOf) : \A k \in Range(LoopOf) \ {l} : OneModel(k)
RequestsEnd == Orderly => <>[](\A r \in Request : pc[r] = "over")

\* "Whoever ends up not building has to wait for whoever does, rather than go and look the
\* part up."
NobodyLooksEarly ==
    \A r \in Request : answer[r] = "missing" =>
        \/ TreeOf(r) \in setting.failing
        \/ \E u \in Lookups : answer[u] = "cancelled" /\ TreeOf(u) = TreeOf(r)
=============================================================================
