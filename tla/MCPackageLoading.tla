-------------------------- MODULE MCPackageLoading --------------------------
(***************************************************************************)
(* Contexts for PackageLoading: a root with two packages, one of which has *)
(* a sub-package.                                                          *)
(***************************************************************************)
EXTENDS PackageLoading

CONSTANTS root, lib, libSub, tools, main, other

Packages == {root, lib, libSub, tools}
ParentIs == [p \in {lib, libSub, tools} |-> IF p = libSub THEN lib ELSE root]
Clients == {main, other}

\* p names q for every <<p, q>> in the set.
Names(pairs) == [p \in Packages |-> {q \in Packages : <<p, q>> \in pairs}]

Graphs == {
    {},
    {<<root, tools>>},
    {<<lib, tools>>},
    {<<libSub, tools>>, <<tools, lib>>},
    {<<lib, tools>>, <<tools, lib>>},
    {<<lib, libSub>>}}

Job(first, second) == [c \in Clients |-> IF c = main THEN first ELSE second]

Contexts ==
    [refs : {Names(g) : g \in Graphs}, mating : {{}, {lib}}, skipped : {{}, {lib}},
     failing : {{}, {tools}},
     job : {Job(All, libSub), Job(libSub, tools), Job(tools, None)}]

=============================================================================
