------------------------ MODULE MCCoordinatedExecutor -------------------------
(***************************************************************************)
(* Small instances of CoordinatedExecutor for TLC.                         *)
(***************************************************************************)
EXTENDS CoordinatedExecutor

CONSTANTS t1, t2, p1, p2

Conf(plan, mode, profile) == [tunnel |-> plan, proxy |-> mode, profile |-> profile]

\* Two app profiles, one behind a tunnel, and a managed proxy behind another.
MixedConfigs == {Conf(t1, "app", p1), Conf(None, "app", p2), Conf(t2, "managed", p2)}
\* One app profile and a configuration that enforces nothing.
AppConfigs == {Conf(t1, "app", p1), Conf(None, "none", None)}
=============================================================================
