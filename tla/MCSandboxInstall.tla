-------------------------- MODULE MCSandboxInstall ---------------------------
(***************************************************************************)
(* The CAD stack in small: a requirement of the package itself, cadquery   *)
(* (which brings cadquery-ocp), build123d (which overwrites it) and        *)
(* cadquery-ocp, with the shapes that ask for them.                        *)
(***************************************************************************)
EXTENDS SandboxInstall, TLC

CONSTANTS req, cad, b3d, ocp,            \* packages
          t1, t2, s1, s2                 \* tasks and their sessions

MCPackage == {req, cad, b3d, ocp}
MCPreinstall == <<cad, b3d, ocp>>
MCClobbers == [p \in MCPackage |-> IF p = b3d THEN {ocp} ELSE {}]
MCBrings == [p \in MCPackage |-> IF p = cad THEN {ocp} ELSE {}]
MCTask == {t1, t2}

\* Two shapes of one package with requirements of its own: one for CadQuery, one
\* that also takes build123d; each has a session, and the v-env is one.
Sessions == {s1, s2}
WithSessions ==
    [sessionOf |-> (t1 :> s1) @@ (t2 :> s2), runsInSession |-> MCTask,
     needs |-> (t1 :> <<req, cad, ocp>>) @@ (t2 :> <<req, b3d, ocp>>),
     pipMayFail |-> FALSE, maxCrashes |-> 0, venvMayExist |-> TRUE]

\* A file format that needs build123d and a shape that does not, both in the
\* runtime's own environment; nobody has a v-env.
Unreliable ==
    [sessionOf |-> [t \in MCTask |-> NoSession], runsInSession |-> {},
     needs |-> (t1 :> <<b3d, ocp>>) @@ (t2 :> <<ocp>>),
     pipMayFail |-> TRUE, maxCrashes |-> 1, venvMayExist |-> FALSE]

Settings == {WithSessions, Unreliable}

\* What the proofs ask of the settings is so in both.
ASSUME SettingsAreAsProved ==
    OwnSessions /\ \A s \in Setting : Careful(s) /\ Declared(s)
=============================================================================
