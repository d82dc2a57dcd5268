-------------------------- MODULE MCEndpointManager --------------------------
(***************************************************************************)
(* Small instances of EndpointManager for TLC.                             *)
(***************************************************************************)
EXTENDS EndpointManager, TLC

CONSTANTS l1, l2

Config(version, policy, content, wireGuard, mihomo, safe, leases) ==
    [version |-> version, policy |-> policy, content |-> content,
     wireGuard |-> wireGuard, mihomo |-> mihomo, safe |-> safe, leases |-> leases]

Idle1 == Config(1, 1, 0, FALSE, FALSE, TRUE, {})
Tunnel2 == Config(2, 2, 0, TRUE, FALSE, TRUE, {l1})
Other2 == Config(2, 2, 1, TRUE, TRUE, TRUE, {l2})
Idle3 == Config(3, 2, 0, FALSE, FALSE, TRUE, {})
Proxy3 == Config(3, 1, 1, FALSE, TRUE, TRUE, {})
Unsafe3 == Config(3, 2, 2, FALSE, TRUE, FALSE, {})

\* Two sessions, one after the other, with a proxy-only configuration after.
SessionConfigs == {Idle1, Tunnel2, Proxy3}
\* Two contents under one version, a policy that goes back, a refused proxy part.
ConflictingConfigs == {Idle1, Tunnel2, Other2, Proxy3, Unsafe3}
\* A tunnel and its revocation.
LivenessConfigs == {Tunnel2, Idle3}

OneLeaseEach == {{l1}, {l2}}
OneLease == {{l1}}
SessionSymmetry == Permutations(Sessions)

\* Until Heal, every behaviour of the specification is possible: a safety run
\* need not look past it.
Faulty == ~reliable

\* Nobody asks to disconnect or shuts the service down.
UnattendedSpec ==
    Init /\ [][ \/ \E managed \in BOOLEAN : ConnectStart(managed)
                \/ CycleStart \/ Step \/ Boot \/ Lapse \/ Drift ]_vars
=============================================================================
