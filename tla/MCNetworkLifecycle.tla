------------------------- MODULE MCNetworkLifecycle --------------------------
(***************************************************************************)
(* NetworkLifecycle on a machine that only sleeps and wakes: its uplink    *)
(* and its tunnel stay as they are.                                        *)
(***************************************************************************)
EXTENDS NetworkLifecycle

SleepSpec == Init /\ [][Operation \/ Watch \/ Sleep]_vars /\ Fairness
=============================================================================
