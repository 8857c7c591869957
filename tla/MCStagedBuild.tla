---------------------------- MODULE MCStagedBuild ----------------------------
(***************************************************************************)
(* A robot places two arms; one of them places a hand, the other a hand    *)
(* and a frame, and the frame a plate: shared sub-assemblies, at three     *)
(* depths.  The hand is too large for any cache, the frame may get lost    *)
(* from it, and a loop is built out of itself.                             *)
(***************************************************************************)
EXTENDS StagedBuild, TLC

CONSTANTS c1, c2, c3, robot, left, right, frame, plate, hand, loop, pool

MCAssembly == {robot, left, right, frame, plate, hand, loop, pool}
MCPlaces == (robot :> {left, right}) @@ (left :> {hand}) @@ (right :> {hand, frame})
            @@ (frame :> {plate}) @@ (plate :> {}) @@ (hand :> {})
            @@ (loop :> {pool}) @@ (pool :> {loop})
MCStored == {left, frame}
MCRemembered == {robot, plate}
MCEvictable == {frame}
MCClient == {c1, c2, c3}
MCTarget == (c1 :> robot) @@ (c2 :> right) @@ (c3 :> loop)
DefaultConfiguration == [c \in MCClient |-> "default"]

\* TLC tabulates it, where it would work it out at each use.
ASSUME Tabulated == BuiltOutOf \in [SUBSET Assembly -> [Assembly -> SUBSET Assembly]]

=============================================================================
