-------------------------- MODULE CoordinatedExecutor -------------------------
(***************************************************************************)
(* The data plane of soha-app-service: CoordinatedExecutor (mihomo.go)     *)
(* puts a configuration in force as a WireGuard tunnel, by way of Executor *)
(* (executor.go), and a mihomo proxy bound to that tunnel, whose           *)
(* subscription the user may supply, select, refresh and clear.            *)
(*                                                                         *)
(* The manager's mutex and the executor's serialise the calls, so one is   *)
(* in flight: pc is the step it is about to take, op the call, config and  *)
(* sub its locals.  Each step changes the operating system, the mihomo     *)
(* process or the state file, and each can fail in part.  What the manager *)
(* does with an outcome (syncConfiguration, disconnectLocked) is reduced   *)
(* to accepted and owed; EndpointManager has it in detail.                 *)
(***************************************************************************)
CONSTANTS
    Plans,      \* tunnel plans
    Profiles,   \* proxy profiles, with their revision
    Subs,       \* what the user supplies: subscription and selected proxy
    Configs,    \* the configurations the manager may apply
    Broken,     \* a tunnel that is neither absent nor a plan
    None

Configuration == [tunnel: Plans \cup {None}, proxy: {"none", "managed", "app"},
                  profile: Profiles \cup {None}]

ASSUME ConfigsAssumption == Configs \subseteq Configuration
ASSUME ConstantsAssumption ==
    /\ None \notin Plans \cup Profiles \cup Subs \cup Configs \cup {Broken}
    /\ Broken \notin Plans
    /\ None \notin [config: Configs, sub: Subs \cup {None}]

VARIABLES
    pc, op, config, sub,
    tunnel,        \* the tunnel in the operating system
    previous,      \* Executor.previous
    proxy,         \* what the mihomo process runs
    running,       \* CoordinatedExecutor.previousMihomo (and mihomoActive)
    appDesired,    \* CoordinatedExecutor.appDesired
    clearPending,  \* CoordinatedExecutor.appClearPending
    file,          \* the protected app-subscription file
    accepted,      \* Manager.appliedVersion: the configuration Verify is for
    owed,          \* the manager must Disable before it applies again
    policy,        \* the last configuration given to Apply and not disabled since
    cleared,       \* the profiles whose Clear was confirmed to the user
    drifted,       \* the system changed behind the executor since Apply
    reliable       \* nothing fails and nobody crashes any more

call == <<pc, op, config, sub>>
memory == <<previous, running, appDesired, clearPending>>
manager == <<accepted, owed, policy>>
vars == <<call, tunnel, proxy, memory, file, manager, cleared, drifted, reliable>>

Proxy == [config: Configs, sub: Subs \cup {None}]
File == [profile: Profiles \cup {None}, sub: Subs \cup {None}]
NoFile == [profile |-> None, sub |-> None]        \* sub None: absent or cleared
Tunnels == Plans \cup {None, Broken}
Ops == {"none", "apply", "verify", "disable", "app", "clear"}
Steps == {"idle", "down", "quiesce", "tunnel", "rollback", "proxy", "subscribe",
          "save", "recover", "clearFile", "clearProxy"}

\* Type invariant of the executor's fields, the call's locals and the file.
TypeOK ==
    /\ pc \in Steps /\ op \in Ops
    /\ config \in Configs \cup {None} /\ sub \in Subs \cup {None}
    /\ tunnel \in Tunnels /\ previous \in Plans \cup {None}
    /\ proxy \in Proxy \cup {None} /\ running \in Proxy \cup {None}
    /\ appDesired \in Configs \cup {None} /\ clearPending \in BOOLEAN
    /\ file \in File
    /\ accepted \in Configs \cup {None} /\ owed \in BOOLEAN
    /\ policy \in Configs \cup {None}
    /\ cleared \in SUBSET (Profiles \cup {None})
    /\ drifted \in BOOLEAN /\ reliable \in BOOLEAN

Init ==
    /\ pc = "idle" /\ op = "none" /\ config = None /\ sub = None
    /\ tunnel = None /\ previous = None /\ proxy = None /\ running = None
    /\ appDesired = None /\ clearPending = FALSE
    /\ file = NoFile
    /\ accepted = None /\ owed = FALSE /\ policy = None
    /\ cleared = {} /\ drifted = FALSE /\ reliable = FALSE

-----------------------------------------------------------------------------
(* Calls and outcomes.                                                     *)
Return == pc' = "idle" /\ op' = "none" /\ config' = None /\ sub' = None
Goto(step) == pc' = step /\ UNCHANGED <<op, config, sub>>

\* ApplyOutcome "applied": the manager commits the version.
Applied == Return /\ accepted' = config /\ UNCHANGED <<owed, policy>>

\* After any other outcome of Apply or Verify the manager calls Disable before
\* it lets go of its mutex (rejectConfiguration); the error of a Disable or an
\* app operation goes to the caller.
Failed ==
    /\ IF op \in {"apply", "verify"}
       THEN /\ pc' = "quiesce" /\ op' = "disable" /\ config' = None /\ sub' = None
            /\ owed' = TRUE
       ELSE Return /\ UNCHANGED owed
    /\ UNCHANGED <<accepted, policy>>

Enter(step, o, c, s) ==
    /\ pc = "idle"
    /\ pc' = step /\ op' = o /\ config' = c /\ sub' = s

\* syncConfiguration of a version that is not the applied one.
ApplyStart(c) ==
    /\ ~owed /\ c # accepted
    /\ Enter("quiesce", "apply", c, None)
    /\ policy' = c /\ drifted' = FALSE
    /\ UNCHANGED <<tunnel, proxy, memory, file, accepted, owed, cleared, reliable>>

\* Disconnect, expiry, a retried cleanup.
DisableStart ==
    /\ Enter("quiesce", "disable", None, None)
    /\ owed' = TRUE
    /\ UNCHANGED <<tunnel, proxy, memory, file, accepted, policy, cleared, drifted, reliable>>

\* syncConfiguration of the applied version: both readbacks must match.
InForceTunnelOnly == tunnel = accepted.tunnel     \* mutant: no mihomo readback
InForce == tunnel = accepted.tunnel /\ proxy = running
Verify ==
    /\ ~owed /\ accepted # None
    /\ \/ /\ InForce /\ pc = "idle"
          /\ Enter("idle", "none", None, None)
       \/ /\ ~InForce \/ ~reliable
          /\ Enter("recover", "verify", accepted, None)
    /\ UNCHANGED <<tunnel, proxy, memory, file, manager, cleared, drifted, reliable>>

-----------------------------------------------------------------------------
(* Apply and Disable: the proxy is closed before the tunnel is touched.    *)
Fails == ~reliable

\* quiesceMihomo
ProxyClosed == proxy' = None /\ running' = None
ProxyNotClosed == Fails /\ proxy' \in {proxy, None} /\ UNCHANGED running

QuiesceKeepingApp ==                              \* mutant: appDesired is kept
    /\ pc = "quiesce"
    /\ \/ /\ ProxyClosed
          /\ Goto(IF op = "app" THEN "subscribe" ELSE "tunnel")
          /\ UNCHANGED <<appDesired, manager>>
       \/ ProxyNotClosed /\ Failed /\ UNCHANGED appDesired
    /\ UNCHANGED <<tunnel, previous, clearPending, file, cleared, drifted, reliable>>
QuiesceOrGoOn ==                                  \* mutant: ignores the error
    /\ pc = "quiesce"
    /\ ProxyClosed \/ ProxyNotClosed
    /\ Goto(IF op = "app" THEN "subscribe" ELSE "tunnel")
    /\ appDesired' = IF op = "app" THEN appDesired ELSE None
    /\ UNCHANGED <<tunnel, previous, clearPending, file, manager, cleared, drifted, reliable>>
Quiesce ==
    /\ pc = "quiesce"
    /\ \/ /\ ProxyClosed
          /\ Goto(IF op = "app" THEN "subscribe" ELSE "tunnel")
          /\ appDesired' = IF op = "app" THEN appDesired ELSE None
          /\ UNCHANGED manager
       \/ ProxyNotClosed /\ Failed /\ UNCHANGED appDesired
    /\ UNCHANGED <<tunnel, previous, clearPending, file, cleared, drifted, reliable>>

\* What follows the tunnel: the proxy, or nothing more.
AfterTunnel ==
    IF op = "disable"
    THEN Return /\ accepted' = None /\ owed' = FALSE /\ policy' = None
    ELSE IF config.proxy = "none" THEN Applied ELSE Goto("proxy") /\ UNCHANGED manager

Partial == tunnel' \in {tunnel, None, Broken}

\* Executor.Disable, and Executor.Apply without a WireGuard part.
TunnelDown ==
    /\ pc = "tunnel" /\ (op = "apply" => config.tunnel = None)
    /\ previous' = None
    /\ \/ tunnel' = None /\ AfterTunnel
       \/ Fails /\ Partial /\ Failed
    /\ UNCHANGED <<proxy, running, appDesired, clearPending, file, cleared, drifted, reliable>>

\* Executor.Apply of a plan, with its readback; an unsafe plan is refused.
TunnelUp ==
    /\ pc = "tunnel" /\ op = "apply" /\ config.tunnel # None
    /\ \/ tunnel' = config.tunnel /\ previous' = config.tunnel /\ AfterTunnel
       \/ Failed /\ UNCHANGED <<tunnel, previous>>
       \/ /\ Fails
          /\ Partial \/ tunnel' = config.tunnel
          /\ Goto("rollback") /\ UNCHANGED <<previous, manager>>
    /\ UNCHANGED <<proxy, running, appDesired, clearPending, file, cleared, drifted, reliable>>

\* Executor.recover: the previous plan, or no tunnel.
RollbackAccepted ==                               \* mutant: rolled back is applied
    /\ pc = "rollback"
    /\ \/ previous # None /\ tunnel' = previous /\ UNCHANGED previous /\ Applied
       \/ previous' = None /\ tunnel' = None /\ Failed
       \/ previous' = None /\ Fails /\ Partial /\ Failed
    /\ UNCHANGED <<proxy, running, appDesired, clearPending, file, cleared, drifted, reliable>>
Rollback ==
    /\ pc = "rollback"
    /\ \/ previous # None /\ tunnel' = previous /\ UNCHANGED previous
       \/ previous' = None /\ tunnel' = None
       \/ previous' = None /\ Fails /\ Partial
    /\ Failed
    /\ UNCHANGED <<proxy, running, appDesired, clearPending, file, cleared, drifted, reliable>>

-----------------------------------------------------------------------------
(* The proxy: managed, or with the user's subscription.                    *)

\* bindMihomoVPN: the tunnel is the verified one.
Bound == config.tunnel # None => tunnel = config.tunnel /\ previous = config.tunnel

Usable(c) == ~clearPending /\ file.sub # None /\ file.profile = c.profile

\* The runtime starts the proxy, or fails, having closed it or not.
Starts == proxy' = [config |-> config, sub |-> sub]
StartFails == proxy' = None \/ (Fails /\ Starts)

\* Without its tunnel the proxy part is rejected; another policy version or an
\* unsafe proxy part ends in recovery.
ProxyRefused ==
    /\ pc = "proxy"
    /\ \/ ~Bound /\ Failed
       \/ Bound /\ Goto("recover") /\ UNCHANGED manager
    /\ UNCHANGED <<tunnel, proxy, memory, file, cleared, drifted, reliable>>

\* applyMihomo of a managed proxy.
ManagedProxy ==
    /\ pc = "proxy" /\ Bound /\ config.proxy = "managed"
    /\ \/ /\ Starts /\ running' = proxy' /\ Applied
       \/ /\ StartFails /\ Goto("recover") /\ UNCHANGED <<running, manager>>
    /\ UNCHANGED <<tunnel, previous, appDesired, clearPending, file, cleared, drifted, reliable>>

\* applyStoredMihomoApp: the stored subscription, if it is for this profile;
\* a file that cannot be read rejects the configuration.
AppProxy ==
    /\ pc = "proxy" /\ Bound /\ config.proxy = "app"
    /\ appDesired' = config
    /\ \/ /\ Usable(config)
          /\ sub' = file.sub /\ pc' = "subscribe" /\ UNCHANGED <<op, config, manager>>
       \/ ~Usable(config) /\ Applied
       \/ Fails /\ Failed
    /\ UNCHANGED <<tunnel, proxy, previous, running, clearPending, file, cleared, drifted, reliable>>

\* applyMihomoAppState: bind, ApplySubscription.
Subscribe ==
    /\ pc = "subscribe"
    /\ \/ Bound /\ Starts /\ Goto("save")
       \/ ~Bound /\ UNCHANGED proxy /\ Goto("recover")
       \/ Bound /\ StartFails /\ Goto("recover")
    /\ UNCHANGED <<tunnel, memory, file, manager, cleared, drifted, reliable>>

\* saveMihomoAppState, rememberAppMihomo.
Save ==
    /\ pc = "save"
    /\ \/ /\ file' = [profile |-> config.profile, sub |-> sub]
          /\ running' = [config |-> config, sub |-> sub]
          /\ appDesired' = config /\ clearPending' = FALSE
          /\ IF op = "apply" THEN Applied ELSE Return /\ UNCHANGED manager
       \/ /\ Fails /\ Goto("recover")
          /\ UNCHANGED <<file, running, appDesired, clearPending, manager>>
    /\ UNCHANGED <<tunnel, proxy, previous, cleared, drifted, reliable>>

\* recoverMihomo
Recover ==
    /\ pc = "recover"
    /\ ProxyClosed \/ ProxyNotClosed
    /\ appDesired' = None
    /\ Failed
    /\ UNCHANGED <<tunnel, previous, clearPending, file, cleared, drifted, reliable>>

-----------------------------------------------------------------------------
(* The user's operations on the subscription.                              *)
ConfigureStart(s) ==
    /\ appDesired # None
    /\ Enter("quiesce", "app", appDesired, s)
    /\ cleared' = cleared \ {appDesired.profile}
    /\ UNCHANGED <<tunnel, proxy, memory, file, manager, drifted, reliable>>

\* SelectMihomoApp and RefreshMihomoApp work on the stored subscription.
SelectStart(s) ==
    /\ appDesired # None /\ Usable(appDesired)
    /\ Enter("quiesce", "app", appDesired, s)
    /\ UNCHANGED <<tunnel, proxy, memory, file, manager, cleared, drifted, reliable>>

ClearStart ==
    /\ appDesired # None
    /\ Enter("clearFile", "clear", appDesired, None)
    /\ clearPending' = TRUE
    /\ UNCHANGED <<tunnel, proxy, previous, running, appDesired, file, manager, cleared,
                   drifted, reliable>>

\* The cleared record replaces the file, or else the file is removed if it can
\* be.  op becomes "none" when the record was not saved: Clear then fails.
ClearInMemory ==                                  \* mutant: only clearPending is set
    /\ pc = "clearFile"
    /\ pc' = "clearProxy"
    /\ UNCHANGED <<op, config, sub, file, tunnel, proxy, memory, manager, cleared,
                   drifted, reliable>>
ClearFile ==
    /\ pc = "clearFile"
    /\ \/ file' = NoFile /\ UNCHANGED op
       \/ Fails /\ file' \in {file, NoFile} /\ op' = "none"
    /\ pc' = "clearProxy"
    /\ UNCHANGED <<config, sub, tunnel, proxy, memory, manager, cleared, drifted, reliable>>

ClearProxy ==
    /\ pc = "clearProxy"
    /\ \/ /\ ProxyClosed
          /\ cleared' = IF op = "clear" THEN cleared \cup {config.profile} ELSE cleared
       \/ ProxyNotClosed /\ UNCHANGED cleared
    /\ Return
    /\ UNCHANGED <<tunnel, previous, appDesired, clearPending, file, manager, drifted, reliable>>

-----------------------------------------------------------------------------
(* The process, the machine.                                               *)
Crash ==
    /\ pc # "down" /\ Fails
    /\ pc' = "down" /\ op' = "none" /\ config' = None /\ sub' = None
    /\ previous' = None /\ running' = None /\ appDesired' = None /\ clearPending' = FALSE
    /\ accepted' = None /\ owed' = FALSE /\ policy' = None
    /\ tunnel' \in {tunnel, None}
    /\ UNCHANGED <<proxy, file, cleared, drifted, reliable>>

\* newEndpointRuntime: the service only starts after a complete Disable.
Boot ==
    /\ pc = "down" /\ pc' = "idle"
    /\ tunnel' = None /\ proxy' = None
    /\ UNCHANGED <<op, config, sub, memory, file, manager, cleared, drifted, reliable>>

Drift ==
    /\ \/ tunnel # None /\ tunnel' \in {None, Broken} \ {tunnel} /\ UNCHANGED proxy
       \/ proxy # None /\ proxy' = None /\ UNCHANGED tunnel
    /\ drifted' = TRUE
    /\ UNCHANGED <<call, memory, file, manager, cleared, reliable>>

Heal == ~reliable /\ reliable' = TRUE
        /\ UNCHANGED <<call, tunnel, proxy, memory, file, manager, cleared, drifted>>

Step == \/ Quiesce \/ TunnelDown \/ TunnelUp \/ Rollback
        \/ ProxyRefused \/ ManagedProxy \/ AppProxy \/ Subscribe \/ Save \/ Recover
        \/ ClearFile \/ ClearProxy
App == ClearStart \/ \E s \in Subs : ConfigureStart(s) \/ SelectStart(s)
Next == \/ \E c \in Configs : ApplyStart(c)
        \/ DisableStart \/ Verify \/ App \/ Step \/ Crash \/ Boot \/ Drift \/ Heal

Spec == Init /\ [][Next]_vars

\* Each call has a timeout; the poll timer always brings the next Cycle, which
\* retries a cleanup that is owed and else verifies; faults end.
Cycle == IF owed THEN DisableStart ELSE Verify
Fairness == WF_vars(Step) /\ SF_vars(Cycle) /\ WF_vars(Boot) /\ WF_vars(Heal)
FairSpec == Spec /\ Fairness
-----------------------------------------------------------------------------
\* mihomo.go, Apply: "No live DIRECT connections may survive removal/replacement
\* of VPN routes": the executor touches the tunnel only with the proxy closed,
\* whatever failed before.
TunnelChangesWhenQuiet ==
    [][tunnel' # tunnel /\ pc' # pc /\ "down" \notin {pc, pc'} => proxy = None]_tunnel

\* While the manager counts a configuration as applied, what is in force is
\* that configuration - its tunnel, and a proxy only of its own - unless the
\* system drifted: no failed app operation, rollback or clear leaves a mixture.
InForceIsAccepted ==
    pc = "idle" /\ accepted # None /\ ~owed /\ ~drifted =>
        /\ tunnel = accepted.tunnel
        /\ proxy # None => proxy.config = accepted

\* The inductive invariant behind them.  Where the proxy is known to be closed,
\* what a call's locals refer to, and which of the manager's and the executor's
\* records agree at each step of a call.
CallInv ==
    /\ pc \in {"idle", "down"} <=> op = "none" /\ pc # "clearProxy"
    /\ pc = "quiesce" => op \in {"apply", "disable", "app"}
    /\ pc = "tunnel" => op \in {"apply", "disable"}
    /\ pc \in {"rollback", "proxy"} => op = "apply"
    /\ pc \in {"subscribe", "save"} => op \in {"apply", "app"}
    /\ pc = "recover" => op \in {"apply", "verify", "app"}
    /\ pc = "clearFile" => op = "clear"
    /\ pc = "clearProxy" => op \in {"clear", "none"}
    /\ pc \in {"tunnel", "rollback", "proxy", "subscribe"} => proxy = None
    /\ pc = "down" => accepted = None
    /\ op \in {"apply", "verify", "app", "clear"} => config # None
    /\ op = "disable" => owed /\ (pc = "tunnel" => appDesired = None)
    /\ op \in {"apply", "verify"} => ~owed

\* Unless a cleanup is owed, app operations work on the last configuration
\* given to Apply, which is the accepted one when no Apply runs.
PolicyInv ==
    ~owed =>
        /\ op \in {"apply", "app"} => config = policy
        /\ appDesired \notin {None, policy} => op = "apply" /\ pc = "quiesce"
        /\ op # "apply" /\ accepted # None => accepted = policy

ForceInv ==
    ~owed =>
        /\ accepted # None /\ ~drifted /\ op # "apply" => tunnel = accepted.tunnel
        /\ accepted # None /\ op # "apply" /\ proxy # None => proxy.config = accepted
        /\ op = "apply" /\ pc \in {"proxy", "subscribe", "save", "recover"} =>
               /\ ~drifted => tunnel = config.tunnel
               /\ proxy # None => proxy.config = config

ExecutorInv == CallInv /\ PolicyInv /\ ForceInv

\* A proxy is only ever started under the configuration last given to Apply,
\* and never once Disable succeeded; only while a cleanup is owed can an app
\* operation still start an older one (see OldPolicyNotRestarted).
StartedUnderPolicy ==
    [][proxy' # proxy /\ proxy' # None => owed \/ proxy'.config = policy]_proxy

\* A subscription whose Clear was confirmed stays out of force until the user
\* supplies one again, through failures, changes of profile and restarts.
ClearedStaysCleared ==
    proxy # None /\ proxy.sub # None => proxy.config.profile \notin cleared

\* The inductive invariant behind it: neither the file nor a call that works on
\* a subscription is for a cleared profile, and Clear has emptied the file
\* before it confirms.
ClearInv ==
    /\ ClearedStaysCleared
    /\ file.sub # None => file.profile \notin cleared
    /\ sub # None => config.profile \notin cleared
    /\ pc = "clearProxy" /\ op = "clear" => file = NoFile

\* What changed behind the executor is noticed by the Verify of a later cycle,
\* or put right before it.
DriftNoticed ==
    \A c \in Configs :
        LET Differs == tunnel # c.tunnel \/ proxy # running
        IN  (accepted = c /\ Differs) ~> (accepted # c \/ owed \/ ~Differs)

\* mihomo.go:385, "old policy must never be restarted": a proxy that is started
\* belongs to the last configuration given to Apply, not to one it replaced.
OldPolicyNotRestarted ==
    [][proxy' # proxy /\ proxy' # None => proxy'.config = policy]_proxy

\* mihomo_test.go:190, "fresh configuration could not recover the retained
\* selection": while the configuration stays and is synchronised again and
\* again, the subscription that was kept for it comes back into force.
RetainedSelectionRecovers ==
    \A c \in Configs :
        (accepted = c /\ c.proxy = "app" /\ Usable(c) /\ proxy = None)
            ~> (proxy # None \/ accepted # c \/ ~Usable(c))
=============================================================================
