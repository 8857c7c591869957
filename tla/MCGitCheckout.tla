---------------------------- MODULE MCGitCheckout ---------------------------
(***************************************************************************)
(* Two processes that import one repository, in two threads of the one and *)
(* one of the other; two threads of one process that import two; and two   *)
(* processes that import one which has no commit yet.                      *)
(***************************************************************************)
EXTENDS GitCheckout, TLC

CONSTANTS lib, parts, t1, t2, t3, t4, ours, theirs, health

Repos == {lib, parts}
Importers == {t1, t2, t3, t4}
RepoIs == (t1 :> lib) @@ (t2 :> parts) @@ (t3 :> lib) @@ (t4 :> lib)
HomeIs == (t1 :> ours) @@ (t2 :> ours) @@ (t3 :> theirs) @@ (t4 :> ours)

Kinds(k) == (lib :> k) @@ (parts :> "branch")
Imports(n1, n2, n3, n4) == (t1 :> n1) @@ (t2 :> n2) @@ (t3 :> n3) @@ (t4 :> n4)

OneCopy ==
    [kind : {Kinds(k) : k \in Kind}, force : {{}, {theirs}},
     imports : {Imports(1, 0, 2, 0), Imports(1, 0, 1, 1)}, copies : {{}, {lib}}, cleaners : {{}},
     empty : {{}}]
OneProcess ==
    [kind : {Kinds("default")}, force : {{}}, imports : {Imports(1, 1, 0, 0)}, copies : {{}},
     cleaners : {{}}, empty : {{}}]
OneImporter ==
    [kind : {Kinds("branch")}, force : {{}}, imports : {Imports(2, 0, 0, 0)}, copies : {{}},
     cleaners : {{health}}, empty : {{}}]
NoCommit ==
    [kind : {Kinds("default")}, force : {{}, {theirs}}, imports : {Imports(1, 0, 2, 0)},
     copies : {{}}, cleaners : {{}}, empty : {{lib}}]
Settings == OneCopy \cup OneProcess \cup OneImporter \cup NoCommit

=============================================================================
