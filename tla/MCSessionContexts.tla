------------------------ MODULE MCSessionContexts ------------------------
(***************************************************************************)
(* Four commands in two folders of one workspace, of users with one or two *)
(* configurations.                                                         *)
(***************************************************************************)
EXTENDS SessionContexts, TLC

CONSTANTS c1, c2, c3, c4, top, sub, plain, devel

Commands == {c1, c2, c3, c4}

Each(a, b, c, d) == (c1 :> a) @@ (c2 :> b) @@ (c3 :> c) @@ (c4 :> d)

Served(does, folder, config, failing, state, http) ==
    [does |-> does, folder |-> folder, config |-> config, failing |-> failing,
     file |-> state, http |-> http]

AllAtTop == Each(top, top, top, top)
AllPlain == Each(plain, plain, plain, plain)
Mixed == Each(plain, devel, plain, devel)

\* A long history in one folder or two; converting and resetting; requests at once.
Settings ==
    {Served(Each("read", "add", "add", "read"), f, g, e, s, FALSE) :
        f \in {AllAtTop, Each(top, top, sub, sub)}, g \in {AllPlain, Mixed},
        e \in {{}, {c2}}, s \in FileStates}
    \cup {Served(Each("convert", "add", "read", "reset"), f, g, {}, "good", FALSE) :
        f \in {AllAtTop, Each(top, top, sub, sub)}, g \in {AllPlain, Mixed}}
    \cup {Served(d, AllAtTop, g, {}, "good", TRUE) :
        d \in {Each("read", "add", None, None), Each("read", "read", "reset", None)},
        g \in {AllPlain, Mixed}}
=============================================================================
