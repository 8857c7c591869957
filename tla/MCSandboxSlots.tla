--------------------------- MODULE MCSandboxSlots ----------------------------
(***************************************************************************)
(* Instances of SandboxSlots: a render of a panel, of a rib that derives   *)
(* from it and of a gasket; and tests of a kit, which test what it is made *)
(* of from inside, beside another test of that.                            *)
(***************************************************************************)
EXTENDS SandboxSlots, TLC

CONSTANTS ocp, mesh, none     \* packages, and no shape

Clients == {"render", "test"}
Shapes == {"panel", "rib", "gasket", "bolt"}
Environments == {"py311", "py313"}
Packages == {ocp, mesh}

\* task, who awaits it, what comes before, loop, shape, uses
T(name, outer, after, loop, shape, uses) ==
    name :> [outer |-> outer, after |-> after, loop |-> loop, shape |-> shape, uses |-> uses]
Made == <<ocp, Wrapper>>         \* a part; a test
Written == <<mesh, Wrapper>>     \* a file

Tasks ==
    \* the panel, in two file types
       T("panel",       "render",     {},           "render",     "panel",  <<>>)
    @@ T("panelJob",    "panel",      {},           "panelJob",   none,     Made)
    @@ T("panelStl",    "render",     {"panel"},    "render",     "panel",  Written)
    @@ T("panelStep",   "render",     {"panel"},    "render",     "panel",  Written)
    \* the rib
    @@ T("rib",         "render",     {},           "render",     "rib",    <<>>)
    @@ T("ribJob",      "rib",        {},           "ribJob",     none,     Made)
    @@ T("source",      "ribJob",     {},           "ribJob",     "panel",  <<>>)
    @@ T("sourceJob",   "source",     {},           "sourceJob",  none,     Made)
    @@ T("ribStl",      "render",     {"rib"},      "render",     "rib",    Written)
    \* the gasket
    @@ T("gasket",      "render",     {},           "render",     "gasket", <<>>)
    @@ T("gasketJob",   "gasket",     {},           "gasketJob",  none,     Made)
    @@ T("gasketStl",   "render",     {"gasket"},   "render",     "gasket", Written)
    \* the tests
    @@ T("kitTest",     "test",       {},           "test",       none,     <<>>)
    @@ T("innerTest",   "kitTest",    {},           "test",       none,     Made)
    @@ T("innerBolt",   "innerTest",  {},           "test",       "bolt",   <<>>)
    @@ T("innerJob",    "innerBolt",  {},           "innerJob",   none,     Made)
    @@ T("boltTest",    "test",       {},           "test",       none,     Made)
    @@ T("bolt",        "boltTest",   {},           "test",       "bolt",   <<>>)
    @@ T("boltJob",     "bolt",       {},           "boltJob",    none,     Made)

Names == DOMAIN Tasks
Outers == [t \in Names |-> Tasks[t].outer]
Afters == [t \in Names |-> Tasks[t].after]
Loops == [t \in Names |-> Tasks[t].loop]
ShapesOf == [t \in Names |-> Tasks[t].shape]
UsesOf == [t \in Names |-> Tasks[t].uses]
Envs == [t \in Names |-> IF t \in {"gasketJob", "gasketStl"} THEN "py313" ELSE "py311"]
Tests == {"kitTest", "innerTest", "boltTest"}

Nothing == [e \in Environments |-> {}]
Everything == [e \in Environments |-> Packages]

\* A rib and its panel: all is installed, and there is a slot more than file types
\* that another shape of the command can have under way.
Shared == [asked |-> {"panel", "panelStl", "panelStep", "rib", "ribStl", "gasket", "gasketStl"},
           installed |-> Everything, slots |-> 2, threads |-> 3, permits |-> 1]

\* Shapes that only the command's own loop gets, with nothing installed and one slot.
Apart == [asked |-> {"panel", "panelStl", "panelStep", "gasket", "gasketStl"},
          installed |-> Nothing, slots |-> 1, threads |-> 2, permits |-> 1]
Tested == [asked |-> {"kitTest", "boltTest", "gasket", "gasketStl"},
           installed |-> Nothing, slots |-> 1, threads |-> 1, permits |-> 1]

Settings == {Shared, Apart, Tested}

\* As Shared, with a slot less: a file of the gasket is being written when the loop is
\* stopped on the panel, and its process has the slot that the panel's job needs.
OneSlot == {[Shared EXCEPT !.slots = 1]}
\* As Shared, with nothing installed: an install of the stopped loop has conda.
NotInstalled == {[Shared EXCEPT !.installed = Nothing]}
=============================================================================
