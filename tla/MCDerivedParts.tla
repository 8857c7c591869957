--------------------------- MODULE MCDerivedParts ---------------------------
(***************************************************************************)
(* A robot of two links, a clamp of one component, and an alias of the     *)
(* robot; requests on two loops, and one of a caller without a loop.       *)
(***************************************************************************)
EXTENDS DerivedParts, TLC

CONSTANTS robot, clamp, demo, arm, base, jaw, r1, r2, r3, r4, renderLoop, testLoop, script

Models == {robot, clamp}
Aliases == {demo}
Parts == {arm, base, jaw}
Requests == {r1, r2, r3, r4}
Sources == (demo :> robot)
Components == (robot :> <<base, arm, base>>) @@ (clamp :> <<jaw>>)
Loops == (r1 :> renderLoop) @@ (r2 :> renderLoop) @@ (r3 :> testLoop) @@ (r4 :> script)

Wants(w1, w2, w3, w4) == (r1 :> w1) @@ (r2 :> w2) @@ (r3 :> w3) @@ (r4 :> w4)

\* Lookups only; lookups beside trees; trees of one model; lookups of both models.
Settings ==
    [want : {Wants(arm, base, arm, jaw), Wants(jaw, clamp, clamp, jaw), Wants(demo, arm, robot, base),
             Wants(robot, demo, None, arm), Wants(jaw, arm, arm, jaw)},
     failing : {{}, {robot, clamp}}, closing : {{r1, r2}, {r3}}]

EarlySetting ==
    [want : {Wants(arm, None, base, None)}, failing : {{}}, closing : {{}}]
=============================================================================
