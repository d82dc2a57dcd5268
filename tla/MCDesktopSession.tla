-------------------------- MODULE MCDesktopSession --------------------------
(***************************************************************************)
(* DesktopSession with interchangeable servers and requests.                *)
(***************************************************************************)
EXTENDS DesktopSession, TLC

Symmetry == Permutations(Servers) \cup Permutations(Requests)
=============================================================================
