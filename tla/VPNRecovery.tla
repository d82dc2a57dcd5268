----------------------------- MODULE VPNRecovery -----------------------------
(***************************************************************************)
(* VPN recovery in the user interface (vpn-recovery.tsx) beside the panel's *)
(* own operations (vpn-panel.tsx): the plan the panel stores, the polled     *)
(* status it is judged by, and the two mutations that ask the service.       *)
(* The mutations exclude one another (useIsMutating); a logout excludes      *)
(* neither.                                                                  *)
(***************************************************************************)
EXTENDS Naturals

CONSTANTS MaxAttempts,   \* maxAttempts of the connection's result
          None

VARIABLES
    login,     \* somebody is logged in: VPNRecovery is mounted (AuthGuard)
    recovery,  \* store.vpnRecovery: its failures and attempts, or None
    retry,     \* pendingRetry.current is the stored plan
    cooling,   \* plan.nextAt is not reached
    seen,      \* status.data, shared by both through the query client
    fresh,     \* observed.current # status.dataUpdatedAt
    mutation,  \* the step of the recovery's mutation
    live,      \* its "current" still is the stored plan
    panel,     \* the step of the panel's operation
    vpn,       \* what the service would answer
    spent      \* recoveries since the panel's connection (history)

observed == <<seen, fresh>>
vars == <<login, recovery, retry, cooling, observed, mutation, live, panel, vpn, spent>>

Sessions == {"connected", "shaky", "unclean"}   \* a session identifier is shown
\* Degraded with a diagnostic the recovery counts, with the session
\* ("control_unavailable") or without ("vpn_tunnel_unhealthy" after the cleanup).
Recoverable == {"shaky", "failed"}
Idle == {"failed", "rejected", "disconnected"}

-----------------------------------------------------------------------------
(* The effect, once for each new observation.                               *)
Plan(failures, attempts) == [failures |-> failures, attempts |-> attempts]
Observed == login /\ recovery # None /\ mutation = "idle" /\ fresh /\ fresh' = FALSE
Retrying == retry /\ seen \in Idle
Fails == Observed /\ (Retrying \/ seen \in Recoverable)
\* Failures beyond three are not told apart.
Failures == IF Retrying \/ recovery.failures = 3 THEN 3 ELSE recovery.failures + 1

ResetAll == Plan(0, 0)           \* mutant: a connection renews the attempts
Reset == [recovery EXCEPT !.failures = 0]
Healthy ==
    /\ Observed /\ seen = "connected" /\ retry' = FALSE /\ recovery' = Reset
    /\ UNCHANGED <<login, cooling, seen, mutation, live, panel, vpn, spent>>
Ignore ==
    /\ Observed /\ seen # "connected" /\ ~Retrying /\ seen \notin Recoverable
    /\ UNCHANGED <<login, recovery, retry, cooling, seen, mutation, live, panel, vpn, spent>>

Exhaust ==
    /\ Fails /\ recovery.attempts >= MaxAttempts /\ recovery' = None /\ retry' = FALSE
    /\ UNCHANGED <<login, cooling, seen, mutation, live, panel, vpn, spent>>

\* A new plan object: the retry is kept only by storing the new one too.
CountForgetting ==               \* mutant: pendingRetry keeps the old plan
    /\ Fails /\ recovery.attempts < MaxAttempts /\ (Failures < 3 \/ cooling)
    /\ recovery' = Plan(Failures, recovery.attempts) /\ retry' = FALSE
    /\ UNCHANGED <<login, cooling, seen, mutation, live, panel, vpn, spent>>
Count ==
    /\ Fails /\ recovery.attempts < MaxAttempts /\ (Failures < 3 \/ cooling)
    /\ recovery' = Plan(Failures, recovery.attempts) /\ retry' = Retrying
    /\ UNCHANGED <<login, cooling, seen, mutation, live, panel, vpn, spent>>

Attempt ==
    /\ Fails /\ recovery.attempts < MaxAttempts /\ Failures = 3 /\ ~cooling
    /\ recovery' = Plan(0, recovery.attempts + 1) /\ spent' = spent + 1
    /\ retry' = FALSE /\ cooling' = TRUE /\ mutation' = "disconnect" /\ live' = TRUE
    /\ UNCHANGED <<login, seen, panel, vpn>>

-----------------------------------------------------------------------------
(* The service behind a request: done, not done, or done and not answered.  *)
Show(status) == seen' = status /\ fresh' = TRUE
Cleared == vpn' = "disconnected" /\ Show(vpn')
NotCleared == /\ vpn' \in {vpn, "disconnected", IF vpn \in Idle THEN "rejected" ELSE "unclean"}
              /\ \/ UNCHANGED observed
                 \/ vpn' # "disconnected" /\ Show(vpn')
Established == vpn \in Idle /\ vpn' = "connected"
NotEstablished == vpn' \in {vpn} \cup IF vpn \in Idle THEN Idle \cup Sessions ELSE {}

\* onError: an error that may pass keeps the plan for a retry.
Failed(transient) ==
    /\ mutation' = "idle"
    /\ retry' = (IF live THEN transient /\ recovery.attempts < MaxAttempts ELSE retry)
    /\ recovery' = (IF live /\ ~retry' THEN None ELSE recovery)

Disconnect ==
    /\ mutation = "disconnect"
    /\ \/ Cleared /\ mutation' = (IF live THEN "intent" ELSE "idle")
         /\ UNCHANGED <<recovery, retry>>
       \/ NotCleared /\ \E transient \in BOOLEAN : Failed(transient)
    /\ UNCHANGED <<login, cooling, live, panel, spent>>

Intent ==
    /\ mutation = "intent"
    /\ \/ mutation' = (IF live THEN "connect" ELSE "idle") /\ UNCHANGED <<recovery, retry>>
       \/ \E transient \in BOOLEAN : Failed(transient)
    /\ UNCHANGED <<login, cooling, observed, live, panel, vpn, spent>>

Connect ==
    /\ mutation = "connect"
    /\ \/ /\ Established /\ mutation' = "idle" /\ UNCHANGED recovery
          /\ IF live THEN retry' = FALSE /\ Show("connected") ELSE UNCHANGED <<retry, observed>>
       \/ NotEstablished /\ UNCHANGED observed /\ \E transient \in BOOLEAN : Failed(transient)
    /\ UNCHANGED <<login, cooling, live, panel, spent>>

-----------------------------------------------------------------------------
(* The panel.                                                                *)
PanelStart ==
    /\ login /\ panel = "idle" /\ mutation = "idle"
    /\ recovery' = None /\ retry' = FALSE
    /\ panel' \in CASE seen = "disconnected" -> {"intent"}
                   [] seen \in Sessions -> {"disconnect", "switch"}
                   [] OTHER -> {"disconnect"}
    /\ UNCHANGED <<login, cooling, observed, mutation, live, vpn, spent>>

PanelDisconnect ==
    /\ panel \in {"disconnect", "switch"}
    /\ \/ Cleared /\ panel' = (IF panel = "switch" THEN "intent" ELSE "idle")
       \/ NotCleared /\ panel' = "idle"
    /\ UNCHANGED <<login, recovery, retry, cooling, mutation, live, spent>>

\* assertCurrentSession: no intent for a session that was logged out.
PanelIntent ==
    /\ panel = "intent" /\ panel' \in {"idle"} \cup (IF login THEN {"connect"} ELSE {})
    /\ UNCHANGED <<login, recovery, retry, cooling, observed, mutation, live, vpn, spent>>

\* The plan is stored when the answer asks for it (failoverOnDisconnect).
PanelConnect ==
    /\ panel = "connect" /\ panel' = "idle"
    /\ \/ /\ Established /\ Show("connected") /\ cooling' = FALSE /\ spent' = 0
          /\ recovery' \in {recovery, Plan(0, 0)} /\ retry' = FALSE
       \/ NotEstablished /\ UNCHANGED <<recovery, retry, cooling, observed, spent>>
    /\ UNCHANGED <<login, mutation, live>>

-----------------------------------------------------------------------------
Poll == /\ login /\ Show(vpn)
        /\ UNCHANGED <<login, recovery, retry, cooling, mutation, live, panel, vpn, spent>>

Cool == /\ cooling /\ cooling' = FALSE
        /\ UNCHANGED <<login, recovery, retry, observed, mutation, live, panel, vpn, spent>>

\* clearSession; a login mounts the component with new references.
Logout == /\ login /\ login' = FALSE /\ recovery' = None /\ retry' = FALSE /\ live' = FALSE
          /\ UNCHANGED <<cooling, observed, mutation, panel, vpn, spent>>
Login == /\ ~login /\ login' = TRUE /\ fresh' = TRUE /\ retry' = FALSE
         /\ UNCHANGED <<recovery, cooling, seen, mutation, live, panel, vpn, spent>>

\* The service loses, regains, cleans up or gives up its session (EndpointManager);
\* without one it only changes how it says so.
Service == /\ vpn' \in Idle \cup (CASE vpn \in {"connected", "shaky"} -> Sessions
                                   [] vpn = "unclean" -> {"unclean"}
                                   [] OTHER -> {})
           /\ UNCHANGED <<login, recovery, retry, cooling, observed, mutation, live, panel, spent>>

Init ==
    /\ login = TRUE /\ recovery = None /\ retry = FALSE /\ cooling = FALSE
    /\ seen = "disconnected" /\ fresh = FALSE /\ mutation = "idle" /\ live = FALSE
    /\ panel = "idle" /\ vpn = "disconnected" /\ spent = 0

Effect == Healthy \/ Ignore \/ Exhaust \/ Count \/ Attempt
Mutation == Disconnect \/ Intent \/ Connect
Next == \/ Effect \/ Mutation \/ PanelStart \/ PanelDisconnect \/ PanelIntent \/ PanelConnect
        \/ Poll \/ Cool \/ Logout \/ Login \/ Service

\* The effect runs after every render, the poll every thirty seconds while a
\* plan is stored.  (The requests of a mutation may take for ever.)
Fairness == WF_vars(Effect) /\ WF_vars(recovery # None /\ Poll) /\ WF_vars(Cool)

Spec == Init /\ [][Next]_vars
FairSpec == Spec /\ Fairness

-----------------------------------------------------------------------------
(* Types, and what is counted.                                                *)
TypeOK ==
    /\ login \in BOOLEAN /\ retry \in BOOLEAN /\ cooling \in BOOLEAN /\ fresh \in BOOLEAN
    /\ live \in BOOLEAN
    /\ recovery \in [failures : 0..3, attempts : 0..MaxAttempts] \cup {None}
    /\ seen \in Sessions \cup Idle /\ vpn \in Sessions \cup Idle
    /\ mutation \in {"idle", "disconnect", "intent", "connect"}
    /\ panel \in {"idle", "disconnect", "switch", "intent", "connect"}
    /\ spent \in 0..MaxAttempts

\* A stored plan has counted every recovery of its connection, and an operation
\* of the panel leaves no plan to count on.
PlanInv ==
    /\ recovery # None => spent = recovery.attempts
    /\ panel # "idle" => recovery = None

-----------------------------------------------------------------------------
(* However often the tunnel comes back and is lost again, the user's         *)
(* connection is recovered at most maxAttempts times (vpn-recovery.tsx:51).   *)
BudgetKept == spent <= MaxAttempts

(* An attempt that failed for a passing reason is made again after the       *)
(* cooldown, and not forgotten while it waits, unless the attempts are used   *)
(* up, the user takes over, or the service shows a session after all.         *)
RetryIsMade ==
    retry /\ vpn \in Idle /\ seen \in Idle
        ~> recovery = None \/ mutation # "idle" \/ seen \in Sessions

(* "logout clears the plan" (vpn-recovery.tsx:9).                             *)
LogoutClearsPlan == ~login => recovery = None
=============================================================================
