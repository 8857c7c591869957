-------------------------- MODULE MCWorkspaceDaemon --------------------------
(***************************************************************************)
(* Three commands at once, or two and a stopper: enough for a daemon, the  *)
(* one that takes its place, and a command that meets the wrong one.       *)
(***************************************************************************)
EXTENDS WorkspaceDaemon, TLC

CONSTANTS c1, c2, c3, s1

MCCommands == {c1, c2, c3}
MCStopper == {s1}
MCCrowds == {{c1, c2, c3}, {c1, c2, s1}}
MCTwoCommands == {{c1, c2}}

=============================================================================
