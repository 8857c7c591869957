-------------------------- MODULE MCEnvironmentLock --------------------------
(* Three tasks of one process and one task of another over one environment. *)
EXTENDS EnvironmentLock, TLC

CONSTANTS t1, t2, t3, t4, here, there

MCUser == {t1, t2, t3, t4}
MCProcess == {here, there}
MCAsync == {t1, t2}
MCHome == (t1 :> here) @@ (t2 :> here) @@ (t3 :> here) @@ (t4 :> there)
=============================================================================
