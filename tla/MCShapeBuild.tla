---------------------------- MODULE MCShapeBuild ----------------------------
(***************************************************************************)
(* Instances of ShapeBuild.  A request is the sequence of names that leads *)
(* to it: the client's, that of the shape it asks for, of the shape that   *)
(* one needs, and so on; a client is the sequence of its name.             *)
(***************************************************************************)
EXTENDS ShapeBuild, SequencesExt

\* What each shape is built from.
NeedsOf ==
    [case     |-> {"hull"},              \* a compound part
     hull     |-> {"left", "right"},     \* an assembly
     left     |-> {"panel"},             \* an alias, or an extrusion
     right    |-> {"panel"},
     kit      |-> {"panel", "gasket", "spare"},   \* an assembly
     panel    |-> {}, gasket |-> {},
     spare    |-> {}]                    \* a second use of the gasket

TwoClients == {<<"render">>, <<"inspect">>}

Shapes == DOMAIN NeedsOf \ {"spare"}
Assemblies == {"hull", "kit"}

\* The requests that a set of requests makes in turn; NeedsOf is four levels deep.
Grow(requests) ==
    requests \cup UNION {{Append(r, s) : s \in NeedsOf[Last(r)]} : r \in requests}
RequestsFrom(roots) == Grow(Grow(Grow(roots)))

Parents(requests) == [r \in requests |-> Front(r)]
ShapesOf(requests) == [r \in requests |-> IF Last(r) = "spare" THEN "gasket" ELSE Last(r)]
LoopsOf(requests) ==
    LET parent == Parents(requests)
        loop[r \in requests] ==
            IF parent[r] \notin requests THEN parent[r]
            ELSE IF Last(parent[r]) \in Assemblies THEN loop[parent[r]]
            ELSE parent[r]
    IN  loop

\* One client asks for a compound of two parts that derive from the panel, the
\* other for an assembly that has the panel in it.
BuildTask == RequestsFrom({<<"render", "case">>, <<"inspect", "kit">>})
BuildParent == Parents(BuildTask)
BuildShape == ShapesOf(BuildTask)
BuildLoop == LoopsOf(BuildTask)

=============================================================================
