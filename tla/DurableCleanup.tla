--------------------------- MODULE DurableCleanup ----------------------------
(***************************************************************************)
(* What the protected configuration-floor file promises about VPN          *)
(* sessions, whatever crashes, retries and lost answers happen: once a     *)
(* session's cleanup is owed it stays owed, for that session and those     *)
(* leases, until the network control holds none of the leases any more,    *)
(* and no lease is added to a session whose cleanup is owed.               *)
(***************************************************************************)
CONSTANTS Sessions, Leases, None

VARIABLES
    owed,   \* the recorded debt: [session, leases] or None
    live    \* the leases the network control holds live, per session

Init == owed = None /\ live = [s \in Sessions |-> {}]

\* The control grants or renews leases.
Extend(s, L) ==
    /\ owed = None \/ owed.session # s
    /\ live' = [live EXCEPT ![s] = L]
    /\ UNCHANGED owed

\* The control drops leases, at any time.
Withdraw(s, L) ==
    /\ L \subseteq live[s]
    /\ live' = [live EXCEPT ![s] = L]
    /\ UNCHANGED owed

Owe(s, L) ==
    /\ owed = None /\ L # {}
    /\ owed' = [session |-> s, leases |-> L]
    /\ UNCHANGED live

Discharge ==
    /\ owed # None
    /\ live[owed.session] \cap owed.leases = {}
    /\ owed' = None
    /\ UNCHANGED live

Next == \/ \E s \in Sessions, L \in SUBSET Leases :
              Extend(s, L) \/ Withdraw(s, L) \/ Owe(s, L)
        \/ Discharge

Spec == Init /\ [][Next]_<<owed, live>>
=============================================================================
