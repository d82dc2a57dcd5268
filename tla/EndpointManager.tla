--------------------------- MODULE EndpointManager ---------------------------
(***************************************************************************)
(* The endpoint network manager of soha-app-service: the privileged        *)
(* process that connects and disconnects the VPN session, polls the        *)
(* network control for configurations, hands them to the executor, and     *)
(* cleans up fail-closed (internal/endpointservice: manager.go,            *)
(* vpn_manager.go, configuration_floor.go).                                *)
(*                                                                         *)
(* operationMu serialises the manager's operations, so at most one is in   *)
(* flight: pc is the call it is about to make (or "idle" when the mutex is *)
(* free, "down" when no process runs) and task its local variables.  Every *)
(* call out of the process - network control, executor, protected state    *)
(* file - is a step of its own, so that a crash, a lapse of time or drift  *)
(* of the operating system's state can come between any two of them.       *)
(*                                                                         *)
(* Time is abstracted to what the code compares: a deadline is ahead or    *)
(* has passed.  Diagnostics are abstracted to the distinction the code     *)
(* makes between them (recoverableVPNFailure).                             *)
(***************************************************************************)
EXTENDS Naturals, FiniteSets

CONSTANTS
    Configs,    \* the configurations the network control can send
    Sessions,   \* VPN session identifiers
    Leases,     \* network and resource lease identifiers
    Grants,     \* the lease sets the network control grants to a session
    MaxLapsed,  \* bound: how many configurations may outlive their ValidUntil
    None        \* "no session", "no configuration", "no cleanup"

\* A configuration is its content: two with one version and different
\* content have different digests (endpointEnforcementPayload + SHA-256).
ConfigurationDesired ==
    [version: Nat \ {0}, policy: Nat \ {0}, content: Nat,
     wireGuard: BOOLEAN, mihomo: BOOLEAN, safe: BOOLEAN, leases: SUBSET Leases]

ASSUME ConfigsAssumption == Configs \subseteq ConfigurationDesired
ASSUME GrantsAssumption == Grants \subseteq (SUBSET Leases) \ {{}}
ASSUME MaxLapsedAssumption == MaxLapsed \in Nat
ASSUME NoneAssumption == None \notin Configs \cup Sessions
                      /\ None \notin [session: Sessions, leases: SUBSET Leases]

VARIABLES
    pc, task,
    status,        \* Manager.status, the fields the code branches on
    leaseIDs,      \* Manager.leaseIDs
    sessionUntil,  \* Manager.sessionUntil and nextRenewAt against the clock
    applied,       \* Manager.appliedVersion and appliedHash
    disabled,      \* Manager.disabled
    cleanup,       \* Manager.cleanupReason is not empty
    floor,         \* Manager.configurationFloor
    disk,          \* the protected configuration-floor file
    plane,         \* the configuration in force in the operating system
    live,          \* the leases the network control holds live, per session
    used,          \* the session identifiers the network control handed out
    lapsed,        \* the configurations whose ValidUntil has passed
    reliable       \* crashes and local, save and revoke failures are over

volatile == <<status, leaseIDs, sessionUntil, applied, disabled, cleanup, floor>>
external == <<plane, live, used, lapsed, reliable>>
vars == <<pc, task, volatile, disk, external>>

-----------------------------------------------------------------------------
(***************************************************************************)
(* Data                                                                    *)
(***************************************************************************)
States == {"disconnected", "connecting", "connected", "degraded"}
\* "recoverable": vpn_tunnel_unhealthy, endpoint_readback_mismatch or
\* endpoint_apply_failed; "other": any other text.
Diagnostics == {"none", "recoverable", "other"}
Deadlines == {"none", "ahead", "renewable", "passed"}
ConnectSteps == {"prepare", "probe", "request"}
SyncSteps == {"poll", "remember", "check", "verify", "recordRevocation",
              "apply", "report", "revokeSession", "finishRevocation", "commit"}
CleanupSteps == {"begin", "disable", "revoke", "finish", "settle"}
Steps == {"idle", "down", "renew", "health", "enforce"}
            \cup ConnectSteps \cup SyncSteps \cup CleanupSteps

Pending == [session: Sessions, leases: SUBSET Leases]
Floor == [recorded: Configs \cup {None}, pending: Pending \cup {None}]
EmptyFloor == [recorded |-> None, pending |-> None]

Status == [state: States, diagnostic: Diagnostics, session: Sessions \cup {None},
           version: Nat, until: Configs \cup {None}, profile: BOOLEAN]
Disconnected == [state |-> "disconnected", diagnostic |-> "none", session |-> None,
                 version |-> 0, until |-> None, profile |-> FALSE]
NotApplied == [version |-> 0, hash |-> None]

\* connecting: Connect holds operationMu, not Cycle or Disconnect.  config,
\* revoking: its locals desired and authorizationRevoked.  then: where
\* disconnectLocked returns to.  reject: the diagnostic rejectConfiguration
\* sets after it.  The rest: the error locals.
Task == [connecting: BOOLEAN, config: Configs \cup {None}, revoking: BOOLEAN,
         then: {"idle", "down", "enforce", "begin"}, reject: Diagnostics,
         localErr: BOOLEAN, remoteErr: BOOLEAN, stateErr: BOOLEAN, reportErr: BOOLEAN]
CleanupTask(then, reject) ==
    [connecting |-> FALSE, config |-> None, revoking |-> FALSE,
     then |-> then, reject |-> reject,
     localErr |-> FALSE, remoteErr |-> FALSE, stateErr |-> FALSE, reportErr |-> FALSE]
NoTask == CleanupTask("idle", "none")

\* Type invariant: the manager's fields, the operation's locals and the file
\* only hold what the code's types and its control flow admit.
TypeOK ==
    /\ pc \in Steps
    /\ task \in Task
    /\ status \in Status
    /\ leaseIDs \in SUBSET Leases
    /\ sessionUntil \in Deadlines
    /\ applied \in [version: Nat, hash: Configs \cup {None}]
    /\ disabled \in BOOLEAN
    /\ cleanup \in BOOLEAN
    /\ floor \in Floor
    /\ disk \in Floor
    /\ plane \in Configs \cup {None}
    /\ live \in [Sessions -> SUBSET Leases]
    /\ used \in SUBSET Sessions
    /\ lapsed \in SUBSET Configs
    /\ reliable \in BOOLEAN

Active == status.session # None
Enforced(c) == c.wireGuard \/ c.mihomo
\* What disabled becomes when c was applied.
ClosedWithoutTunnel(c) == ~c.wireGuard            \* mutant: forgets the proxy
Closes(c) == ~Enforced(c)
PlaneOf(c) == IF Enforced(c) THEN c ELSE None
Owing == status.session # None /\ leaseIDs # {}

\* The desired configuration takes over the reported status.
ApplyDesiredStatus(s, c) ==
    LET kept == ~c.wireGuard /\ s.session = None /\ s.diagnostic = "recoverable"
    IN  [s EXCEPT
            !.version = c.version,
            !.until = c,
            !.state = CASE kept -> "degraded"
                        [] ~kept /\ Enforced(c) /\ ~(s.profile /\ ~c.wireGuard) -> "connected"
                        [] OTHER -> "disconnected",
            !.diagnostic = IF kept THEN "recoverable" ELSE "none"]

Degrade(s, diagnostic) == [s EXCEPT !.state = "degraded", !.diagnostic = diagnostic]

-----------------------------------------------------------------------------
(***************************************************************************)
(* Control flow shared by the operations                                   *)
(***************************************************************************)
Done == pc' = "idle" /\ task' = NoTask

\* disconnectLocked, on behalf of the operation that runs.
StartCleanup(then, reject) ==
    /\ pc' = "begin"
    /\ task' = [CleanupTask(then, reject) EXCEPT !.connecting = task.connecting]

\* syncConfiguration or renew returns an error: Connect then cleans up
\* (cleanupFailedVPN), Cycle runs the deferred enforceExpiry.
Fail == \/ task.connecting /\ StartCleanup("idle", "none")
        \/ ~task.connecting /\ pc' = "enforce" /\ task' = NoTask

\* rejectConfiguration: disconnectLocked, then degrade, then the error.
Reject(diagnostic) ==
    StartCleanup(IF task.connecting THEN "begin" ELSE "enforce", diagnostic)

\* syncConfiguration returns nil.
Succeed == \/ task.connecting /\ Done
           \/ ~task.connecting /\ pc' = "health" /\ task' = NoTask

\* beginVPNCleanup: the debt is in memory before the file is replaced.
BeginCleanup(saved) ==
    IF Owing
    THEN /\ floor' = [floor EXCEPT !.pending =
                        [session |-> status.session, leases |-> leaseIDs]]
         /\ disk' = IF saved THEN floor' ELSE disk
         /\ saved \/ ~reliable
    ELSE saved /\ UNCHANGED <<floor, disk>>

\* finishVPNCleanup: the file is replaced before the debt leaves memory.
FinishCleanupInMemory(saved) ==                   \* mutant: no save
    /\ saved
    /\ floor' = [floor EXCEPT !.pending = None]
    /\ UNCHANGED disk
FinishCleanup(saved) ==
    IF floor.pending # None
    THEN /\ floor' = IF saved THEN [floor EXCEPT !.pending = None] ELSE floor
         /\ disk' = IF saved THEN floor' ELSE disk
         /\ saved \/ ~reliable
    ELSE saved /\ UNCHANGED <<floor, disk>>

\* control.Revoke: it may also take effect and its answer be lost.
Revoke(ok) ==
    \/ live' = [live EXCEPT ![status.session] = @ \ leaseIDs] /\ (ok \/ ~reliable)
    \/ ~ok /\ ~reliable /\ UNCHANGED live

-----------------------------------------------------------------------------
(***************************************************************************)
(* Connect and connectManaged                                              *)
(***************************************************************************)
ConnectStartUnguarded(managed) ==                 \* mutant: ignores cleanupReason
    /\ pc = "idle" /\ ~Active
    /\ status' = [status EXCEPT !.state = "connecting", !.diagnostic = "none"]
    /\ pc' = IF managed THEN "prepare" ELSE "request"
    /\ task' = [NoTask EXCEPT !.connecting = TRUE]
    /\ UNCHANGED <<leaseIDs, sessionUntil, applied, disabled, cleanup, floor, disk, external>>
ConnectStart(managed) ==
    /\ pc = "idle" /\ ~Active /\ ~cleanup
    /\ status' = [status EXCEPT !.state = "connecting", !.diagnostic = "none"]
    /\ pc' = IF managed THEN "prepare" ELSE "request"
    /\ task' = [NoTask EXCEPT !.connecting = TRUE]
    /\ UNCHANGED <<leaseIDs, sessionUntil, applied, disabled, cleanup, floor, disk, external>>

ConnectFails(state) ==
    /\ status' = [status EXCEPT !.state = state, !.diagnostic = "other"]
    /\ Done
    /\ UNCHANGED <<leaseIDs, sessionUntil, applied, disabled, cleanup, floor, disk>>

\* PrepareManagedVPN and ProbeVPN.
Prepare ==
    /\ pc = "prepare"
    /\ \/ ConnectFails("degraded")
       \/ /\ status' = [status EXCEPT !.profile = TRUE]
          /\ pc' = "probe"
          /\ UNCHANGED <<task, leaseIDs, sessionUntil, applied, disabled, cleanup, floor, disk>>
    /\ UNCHANGED external

Probe ==
    /\ pc = "probe"
    /\ \/ ConnectFails("degraded")
       \/ pc' = "request" /\ UNCHANGED <<task, volatile, disk>>
    /\ UNCHANGED external

\* control.Connect or ConnectManagedVPN is refused, or fails.
RequestRefused ==
    /\ pc = "request"
    /\ \E state \in {"degraded", "disconnected"} : ConnectFails(state)
    /\ UNCHANGED external

Grant(s, L) ==
    /\ s \notin used
    /\ used' = used \cup {s}
    /\ live' = [live EXCEPT ![s] = L]

\* The control grants a session the manager does not record: the answer is
\* lost, names another profile revision, or carries invalid leases.
RequestLost ==
    /\ pc = "request"
    /\ \E s \in Sessions, L \in Grants : Grant(s, L)
    /\ \E state \in {"degraded", "disconnected"} : ConnectFails(state)
    /\ UNCHANGED <<plane, lapsed, reliable>>

\* acceptVPNConnection up to syncConfiguration.
RequestGranted ==
    /\ pc = "request"
    /\ \E s \in Sessions, L \in Grants, c \in Configs :
          /\ Grant(s, L)
          /\ status' = [status EXCEPT !.session = s, !.version = c.version]
          /\ leaseIDs' = L
    /\ sessionUntil' = "ahead"
    /\ pc' = "poll"
    /\ UNCHANGED <<task, applied, disabled, cleanup, floor, disk, plane, lapsed, reliable>>

-----------------------------------------------------------------------------
(***************************************************************************)
(* Cycle, Disconnect and the shutdown of Run                               *)
(***************************************************************************)
SessionExpired == Active /\ sessionUntil = "passed"
ExpiredOfSession == Active /\ status.until \in lapsed   \* mutant: only with a session
Expired == status.until \in lapsed

CycleStart ==
    /\ pc = "idle"
    /\ IF cleanup \/ SessionExpired \/ ((Active \/ ~disabled) /\ Expired)
       THEN pc' = "begin"
       ELSE pc' = IF Active /\ sessionUntil = "renewable" THEN "renew" ELSE "poll"
    /\ task' = NoTask
    /\ UNCHANGED <<volatile, disk, external>>

\* Disconnect: the user's request, and the lifecycle watchdog's teardown.
DisconnectStart ==
    /\ pc = "idle"
    /\ pc' = "begin" /\ task' = NoTask
    /\ UNCHANGED <<volatile, disk, external>>

ShutdownStart ==
    /\ pc = "idle"
    /\ pc' = "begin" /\ task' = CleanupTask("down", "none")
    /\ UNCHANGED <<volatile, disk, external>>

RenewFails ==
    /\ pc = "renew"
    /\ status' = Degrade(status, "other")
    /\ Fail
    /\ \/ UNCHANGED live
       \/ /\ status.version > 0 /\ leaseIDs # {}
          /\ \E L \in Grants : live' = [live EXCEPT ![status.session] = L]
    /\ UNCHANGED <<leaseIDs, sessionUntil, applied, disabled, cleanup, floor, disk,
                   plane, used, lapsed, reliable>>

RenewRevoked ==
    /\ pc = "renew" /\ status.version > 0 /\ leaseIDs # {}
    /\ live' = [live EXCEPT ![status.session] = {}]
    /\ Reject("other")
    /\ UNCHANGED <<volatile, disk, plane, used, lapsed, reliable>>

Renewed ==
    /\ pc = "renew" /\ status.version > 0 /\ leaseIDs # {}
    /\ \E L \in Grants :
          /\ live' = [live EXCEPT ![status.session] = L]
          /\ leaseIDs' = L
    /\ sessionUntil' = "ahead"
    /\ pc' = "poll"
    /\ UNCHANGED <<task, status, applied, disabled, cleanup, floor, disk,
                   plane, used, lapsed, reliable>>

\* CheckVPNHealth at the end of a cycle.
Health ==
    /\ pc = "health"
    /\ \/ Active /\ Reject("recoverable")
       \/ pc' = "enforce" /\ task' = NoTask
    /\ UNCHANGED <<volatile, disk, external>>

EnforceExpiry ==
    /\ pc = "enforce"
    /\ IF SessionExpired \/ (~disabled /\ Expired)
       THEN StartCleanup("idle", "none")
       ELSE Done
    /\ UNCHANGED <<volatile, disk, external>>

-----------------------------------------------------------------------------
(***************************************************************************)
(* syncConfiguration                                                       *)
(***************************************************************************)
\* The control is unavailable, or answers with an invalid message.
PollFails ==
    /\ pc = "poll"
    /\ status' = Degrade(status, "other")
    /\ Fail
    /\ UNCHANGED <<leaseIDs, sessionUntil, applied, disabled, cleanup, floor, disk, external>>

Poll ==
    /\ pc = "poll"
    /\ \E c \in Configs \ lapsed : task' = [task EXCEPT !.config = c]
    /\ pc' = "remember"
    /\ UNCHANGED <<volatile, disk, external>>

\* rememberConfiguration
RegressedByVersion(c) ==                          \* mutant: ignores the digest
    \/ floor.pending # None
    \/ /\ floor.recorded # None
       /\ c.version < floor.recorded.version \/ c.policy < floor.recorded.policy
RegressedIgnoringPolicy(c) ==                     \* mutant: ignores the policy version
    \/ floor.pending # None
    \/ /\ floor.recorded # None
       /\ \/ c.version < floor.recorded.version
          \/ c.version = floor.recorded.version /\ c # floor.recorded
Regressed(c) ==
    \/ floor.pending # None
    \/ /\ floor.recorded # None
       /\ \/ c.version < floor.recorded.version
          \/ c.policy < floor.recorded.policy
          \/ c.version = floor.recorded.version /\ c # floor.recorded

Recorded(c) == floor.recorded # None /\ c.version = floor.recorded.version

RememberRefused ==
    /\ pc = "remember"
    /\ Regressed(task.config) \/ (~Recorded(task.config) /\ ~reliable)
    /\ Reject("other")
    /\ UNCHANGED <<volatile, disk, external>>

Remember ==
    /\ pc = "remember" /\ ~Regressed(task.config)
    /\ floor' = IF Recorded(task.config) THEN floor
                ELSE [recorded |-> task.config, pending |-> None]
    /\ disk' = IF Recorded(task.config) THEN disk ELSE floor'
    /\ pc' = "check"
    /\ UNCHANGED <<task, status, leaseIDs, sessionUntil, applied, disabled, cleanup, external>>

Stale(c) == c.version < status.version
Reused(c) == c.version = status.version /\ applied.hash # None /\ c # applied.hash
ManagedConfigurationRevoked(c) == status.profile /\ Active /\ ~c.wireGuard

\* An unsafe proxy part, or another content under the version in use.
CheckRejects ==
    /\ pc = "check"
    /\ ~task.config.safe \/ Reused(task.config)
    /\ Reject("other")
    /\ UNCHANGED <<volatile, disk, external>>

\* The proxy source is unavailable, or the configuration is stale.
CheckFails ==
    /\ pc = "check" /\ task.config.safe
    /\ task.config.mihomo \/ Stale(task.config)
    /\ status' = Degrade(status, "other")
    /\ Fail
    /\ UNCHANGED <<leaseIDs, sessionUntil, applied, disabled, cleanup, floor, disk, external>>

CheckPasses ==
    /\ pc = "check" /\ task.config.safe
    /\ ~Stale(task.config) /\ ~Reused(task.config)
    /\ LET revoking == ManagedConfigurationRevoked(task.config) IN
          /\ task' = [task EXCEPT !.revoking = revoking]
          /\ pc' = CASE task.config.version = applied.version -> "verify"
                     [] task.config.version # applied.version /\ revoking -> "recordRevocation"
                     [] OTHER -> "apply"
    /\ UNCHANGED <<volatile, disk, external>>

Verified ==
    /\ pc = "verify" /\ plane = PlaneOf(task.config)
    /\ status' = ApplyDesiredStatus(status, task.config)
    /\ Succeed
    /\ UNCHANGED <<leaseIDs, sessionUntil, applied, disabled, cleanup, floor, disk, external>>

Drifted ==
    /\ pc = "verify"
    /\ applied' = [applied EXCEPT !.version = 0]
    /\ status' = Degrade(status, "recoverable")
    /\ plane' \in {plane, None}
    /\ Reject("recoverable")
    /\ UNCHANGED <<leaseIDs, sessionUntil, disabled, cleanup, floor, disk,
                   live, used, lapsed, reliable>>

RecordRevocation ==
    /\ pc = "recordRevocation"
    /\ \/ BeginCleanup(TRUE) /\ pc' = "apply" /\ UNCHANGED task
       \/ BeginCleanup(FALSE) /\ Reject("other")
    /\ UNCHANGED <<status, leaseIDs, sessionUntil, applied, disabled, cleanup, external>>

ApplySucceeds ==
    /\ pc = "apply"
    /\ plane' = PlaneOf(task.config)
    /\ pc' = "report"
    /\ UNCHANGED <<task, volatile, disk, live, used, lapsed, reliable>>

\* Rejected or rolled back; what is then in force is one of the three.
ApplyFails ==
    /\ pc = "apply"
    /\ plane' \in {None, plane, PlaneOf(task.config)}
    /\ status' = Degrade(status, "recoverable")
    /\ Reject("recoverable")
    /\ UNCHANGED <<leaseIDs, sessionUntil, applied, disabled, cleanup, floor, disk,
                   live, used, lapsed, reliable>>

Report ==
    /\ pc = "report"
    /\ \E failed \in BOOLEAN : task' = [task EXCEPT !.reportErr = failed]
    /\ pc' = IF task.revoking THEN "revokeSession" ELSE "commit"
    /\ UNCHANGED <<volatile, disk, external>>

RevokeSession ==
    /\ pc = "revokeSession"
    /\ \E ok \in BOOLEAN :
          /\ Revoke(ok)
          /\ task' = [task EXCEPT !.remoteErr = ~ok]
          /\ pc' = IF ok THEN "finishRevocation" ELSE "commit"
    /\ UNCHANGED <<volatile, disk, plane, used, lapsed, reliable>>

FinishRevocation ==
    /\ pc = "finishRevocation"
    /\ \E saved \in BOOLEAN :
          /\ FinishCleanup(saved)
          /\ task' = [task EXCEPT !.stateErr = ~saved]
    /\ pc' = "commit"
    /\ UNCHANGED <<status, leaseIDs, sessionUntil, applied, disabled, cleanup, external>>

\* The last critical section of syncConfiguration, then the reportErr branch.
Commit ==
    /\ pc = "commit"
    /\ LET c == task.config
           revokeErr == task.remoteErr \/ task.stateErr
           desired == ApplyDesiredStatus(status, c)
           settled == CASE revokeErr -> Degrade(desired, "other")
                        [] ~revokeErr /\ task.revoking ->
                              [desired EXCEPT !.session = None, !.diagnostic = "other"]
                        [] OTHER -> desired
       IN  /\ status' = IF task.reportErr THEN Degrade(settled, "other") ELSE settled
           /\ applied' = [version |-> c.version, hash |-> c]
           /\ disabled' = Closes(c)
           /\ leaseIDs' = IF revokeErr THEN leaseIDs ELSE c.leases
           /\ cleanup' = (cleanup \/ revokeErr)
           /\ sessionUntil' = IF task.revoking /\ ~revokeErr THEN "none" ELSE sessionUntil
           /\ IF revokeErr \/ task.reportErr THEN Fail ELSE Succeed
    /\ UNCHANGED <<floor, disk, external>>

-----------------------------------------------------------------------------
(***************************************************************************)
(* disconnectLocked                                                        *)
(***************************************************************************)
Begin ==
    /\ pc = "begin"
    /\ \E saved \in BOOLEAN :
          /\ BeginCleanup(saved)
          /\ task' = [task EXCEPT !.stateErr = ~saved]
    /\ pc' = "disable"
    /\ UNCHANGED <<status, leaseIDs, sessionUntil, applied, disabled, cleanup, external>>

Disable ==
    /\ pc = "disable"
    /\ \E ok \in BOOLEAN :
          /\ ok \/ ~reliable
          /\ plane' \in IF ok THEN {None} ELSE {plane, None}
          /\ task' = [task EXCEPT !.localErr = ~ok]
          /\ pc' = CASE Owing -> "revoke"
                     [] ~Owing /\ ok -> "finish"
                     [] OTHER -> "settle"
    /\ UNCHANGED <<volatile, disk, live, used, lapsed, reliable>>

RevokeLeasesThenFinish ==                         \* mutant: clears the debt anyway
    /\ pc = "revoke"
    /\ \E ok \in BOOLEAN : Revoke(ok) /\ task' = [task EXCEPT !.remoteErr = ~ok]
    /\ pc' = IF ~task.localErr THEN "finish" ELSE "settle"
    /\ UNCHANGED <<volatile, disk, plane, used, lapsed, reliable>>
RevokeLeases ==
    /\ pc = "revoke"
    /\ \E ok \in BOOLEAN :
          /\ Revoke(ok)
          /\ task' = [task EXCEPT !.remoteErr = ~ok]
          /\ pc' = IF ok /\ ~task.localErr THEN "finish" ELSE "settle"
    /\ UNCHANGED <<volatile, disk, plane, used, lapsed, reliable>>

Finish ==
    /\ pc = "finish"
    /\ \E saved \in BOOLEAN :
          /\ FinishCleanup(saved)
          /\ task' = [task EXCEPT !.stateErr = task.stateErr \/ ~saved]
    /\ pc' = "settle"
    /\ UNCHANGED <<status, leaseIDs, sessionUntil, applied, disabled, cleanup, external>>

IncompleteLocally == task.localErr \/ task.stateErr    \* mutant: ignores the revoke
Incomplete == task.localErr \/ task.remoteErr \/ task.stateErr

\* The last critical section of disconnectLocked and what its caller does.
Settle ==
    /\ pc = "settle" /\ task.then # "down"
    /\ LET outcome == IF Incomplete THEN Degrade(status, "other") ELSE Disconnected
       IN  status' = IF task.reject = "none" THEN outcome ELSE Degrade(outcome, task.reject)
    /\ disabled' = ~task.localErr
    /\ cleanup' = Incomplete
    /\ IF Incomplete
       THEN UNCHANGED <<leaseIDs, sessionUntil, applied>>
       ELSE /\ leaseIDs' = {}
            /\ sessionUntil' = "none"
            /\ applied' = [applied EXCEPT !.version = 0]
    /\ pc' = task.then
    /\ task' = IF task.then = "begin" THEN [NoTask EXCEPT !.connecting = TRUE] ELSE NoTask
    /\ UNCHANGED <<floor, disk, external>>

-----------------------------------------------------------------------------
(***************************************************************************)
(* The process and its environment                                         *)
(***************************************************************************)
\* restoreConfigurationFloor into a new Manager.
LoadWithoutReason(file) ==                        \* mutant: cleanupReason not restored
    /\ floor' = file
    /\ status' = IF file.pending = None THEN Disconnected
                 ELSE [Degrade(Disconnected, "other") EXCEPT !.session = file.pending.session]
    /\ leaseIDs' = IF file.pending = None THEN {} ELSE file.pending.leases
    /\ cleanup' = FALSE
    /\ sessionUntil' = "none" /\ applied' = NotApplied /\ disabled' = TRUE
Load(file) ==
    /\ floor' = file
    /\ status' = IF file.pending = None THEN Disconnected
                 ELSE [Degrade(Disconnected, "other") EXCEPT !.session = file.pending.session]
    /\ leaseIDs' = IF file.pending = None THEN {} ELSE file.pending.leases
    /\ cleanup' = (file.pending # None)
    /\ sessionUntil' = "none"
    /\ applied' = NotApplied
    /\ disabled' = TRUE

\* The process is gone with its memory.  Whether the tunnel outlives it
\* depends on the platform (a WireGuard service does, an owned utun does not).
Stop ==
    /\ pc' = "down" /\ task' = NoTask
    /\ Load(EmptyFloor)
    /\ plane' \in {plane, None}
    /\ UNCHANGED <<disk, live, used, lapsed, reliable>>

Crash == pc # "down" /\ ~reliable /\ Stop

\* The shutdown's disconnectLocked returns and Run with it.
Exit == pc = "settle" /\ task.then = "down" /\ Stop

\* newEndpointRuntime: executor.Disable must succeed before NewManager; a
\* start that fails leaves the process down.
Boot ==
    /\ pc = "down"
    /\ plane' = None
    /\ Load(disk)
    /\ pc' = "idle" /\ task' = NoTask
    /\ UNCHANGED <<disk, live, used, lapsed, reliable>>

\* Deadlines pass.  A configuration that no step refers to needs no lapse:
\* it has the effect of the control not sending that configuration again.
Lapse ==
    /\ \/ /\ sessionUntil = "ahead" /\ sessionUntil' = "renewable"
          /\ UNCHANGED lapsed
       \/ /\ sessionUntil = "renewable" /\ sessionUntil' = "passed"
          /\ UNCHANGED lapsed
       \/ /\ Cardinality(lapsed) < MaxLapsed
          /\ \E c \in {status.until, task.config, plane} \ (lapsed \cup {None}) :
                lapsed' = lapsed \cup {c}
          /\ UNCHANGED sessionUntil
    /\ UNCHANGED <<pc, task, status, leaseIDs, applied, disabled, cleanup, floor, disk,
                   plane, live, used, reliable>>

\* Something outside the service takes the tunnel or the proxy down.
Drift ==
    /\ plane # None /\ plane' = None
    /\ UNCHANGED <<pc, task, volatile, disk, live, used, lapsed, reliable>>

\* Crashes and local, save and revoke failures end.
Heal ==
    /\ ~reliable /\ reliable' = TRUE
    /\ UNCHANGED <<pc, task, volatile, disk, plane, live, used, lapsed>>

-----------------------------------------------------------------------------
Init ==
    /\ pc = "idle" /\ task = NoTask
    /\ status = Disconnected
    /\ leaseIDs = {}
    /\ sessionUntil = "none"
    /\ applied = NotApplied
    /\ disabled = TRUE
    /\ cleanup = FALSE
    /\ floor = EmptyFloor
    /\ disk = EmptyFloor
    /\ plane = None
    /\ live = [s \in Sessions |-> {}]
    /\ used = {}
    /\ lapsed = {}
    /\ reliable = FALSE

ConnectStep == Prepare \/ Probe \/ RequestRefused \/ RequestLost \/ RequestGranted
CycleStep == RenewFails \/ RenewRevoked \/ Renewed \/ Health \/ EnforceExpiry
SyncStep ==
    \/ PollFails \/ Poll \/ RememberRefused \/ Remember
    \/ CheckRejects \/ CheckFails \/ CheckPasses \/ Verified \/ Drifted
    \/ RecordRevocation \/ ApplySucceeds \/ ApplyFails \/ Report
    \/ RevokeSession \/ FinishRevocation \/ Commit
CleanupStep == Begin \/ Disable \/ RevokeLeases \/ Finish \/ Settle \/ Exit

\* The step the holder of operationMu takes next.
Step == ConnectStep \/ CycleStep \/ SyncStep \/ CleanupStep

Next ==
    \/ \E managed \in BOOLEAN : ConnectStart(managed)
    \/ CycleStart \/ DisconnectStart \/ ShutdownStart
    \/ Step
    \/ Crash \/ Boot \/ Lapse \/ Drift \/ Heal

Spec == Init /\ [][Next]_vars

\* Every call has a timeout, so the holder of operationMu always goes on; the
\* poll timer always fires again and sync.Mutex serves a waiting Cycle; the
\* service manager restarts the process; faults end.
Fairness ==
    /\ WF_vars(Step)
    /\ SF_vars(CycleStart)
    /\ WF_vars(Boot)
    /\ WF_vars(Heal)

FairSpec == Spec /\ Fairness
-----------------------------------------------------------------------------
(***************************************************************************)
(* Properties                                                              *)
(***************************************************************************)
\* A recorded cleanup is never at odds with memory: it is for the session and
\* the leases the manager still holds, and when no operation runs the manager
\* knows it must retry (cleanupReason), so that Connect refuses and Cycle
\* finishes it - also after a restart, which only has the file.
CleanupHeld ==
    /\ floor.pending # None =>
          /\ floor.pending = [session |-> status.session, leases |-> leaseIDs]
          /\ floor.pending.leases # {}
          /\ pc = "idle" => cleanup
    /\ disk.pending # None /\ pc # "down" => floor.pending = disk.pending

\* When no operation runs and none is owed, "disabled" tells the truth: the
\* manager never believes the endpoint closed while a configuration is in
\* force, which would exempt it from expiry (Cycle, enforceExpiry).
DisabledMeansClosed == pc = "idle" /\ disabled => plane = None

\* Whatever is in force was recorded in the protected file first, and nothing
\* newer or different under its version was: a restart can refuse anything
\* older (rememberConfiguration before executor.Apply).
EnforcedIsRecorded ==
    plane # None =>
        /\ disk.recorded # None
        /\ plane.version <= disk.recorded.version
        /\ plane.version = disk.recorded.version => plane = disk.recorded

\* Across crashes the endpoint never goes back: the recorded version and
\* policy never decrease, a version never changes its content, and only the
\* recorded configuration is newly put in force.
NoRollback ==
    [][/\ disk.recorded # None =>
             /\ disk'.recorded # None
             /\ disk'.recorded.version >= disk.recorded.version
             /\ disk'.recorded.policy >= disk.recorded.policy
             /\ disk'.recorded.version = disk.recorded.version =>
                    disk'.recorded = disk.recorded
       /\ plane' # plane /\ plane' # None => plane' = disk.recorded]_<<disk, plane>>

\* No tunnel is brought up while a cleanup is owed, in memory or on disk.
NoTunnelWhileCleanupOwed ==
    [][plane' # plane /\ plane' # None /\ plane'.wireGuard =>
           ~cleanup /\ floor.pending = None /\ disk.pending = None]_plane

\* While the process runs, it lets go of a session that holds leases only
\* after the control revoked them; when it stops with the session held, the
\* file owes the cleanup unless it could not be written or was not reached.
SessionNotAbandoned ==
    [][Active /\ leaseIDs # {} /\ status'.session # status.session =>
           \/ live[status.session] \cap leaseIDs = {}
           \/ pc' = "down" /\ (disk.pending # None \/ pc # "settle" \/ task.stateErr)]_status

\* manager.go:625, the rejection named configuration_version_reused: what is
\* rejected under that name really is another content of a version that was
\* applied, not the first configuration of a new session.
ReusedVersionWasApplied ==
    [][pc = "check" /\ pc' = "begin" /\ task'.reject = "other" /\ task.config.safe
           => applied.hash # None /\ applied.hash.version = task.config.version]_pc

\* manager.go:742, "Keep the failure observable after cleanup while the UI
\* requests a fresh authorized intent": the retry that completes an
\* unfinished cleanup keeps the recoverable failure that caused it.
FailureStaysObservable ==
    [][pc = "settle" /\ pc' = "idle" /\ cleanup /\ ~task.connecting
           /\ status.diagnostic = "recoverable"
           => status'.diagnostic = "recoverable"]_pc

\* The inductive invariant behind CleanupHeld, NoTunnelWhileCleanupOwed,
\* SessionNotAbandoned and LedgerSpec: what each control point of an operation
\* knows about a cleanup, the session it is for and the control's leases.
Revoked == live[status.session] \cap leaseIDs = {}

\* A process that is down remembers nothing; a running one remembers the file.
MemoryInv ==
    /\ pc = "down" => status = Disconnected /\ leaseIDs = {} /\ floor = EmptyFloor
    /\ pc # "down" /\ disk.pending # None => floor.pending = disk.pending
    /\ disk.pending # None => disk.pending.leases # {}

\* Where an operation can be while a cleanup is recorded in memory.
PendingInv ==
    floor.pending # None =>
        /\ floor.pending = [session |-> status.session, leases |-> leaseIDs]
        /\ leaseIDs # {}
        /\ pc \in {"idle", "enforce"} => cleanup
        /\ pc \in {"apply", "report"} => task.revoking
        /\ pc = "commit" => task.remoteErr \/ task.stateErr
        /\ pc = "settle" => Incomplete
        /\ pc \notin ConnectSteps \cup
             {"renew", "health", "poll", "remember", "check", "verify", "recordRevocation"}

\* Nothing is connected or applied while a cleanup is owed, and a revocation
\* brings no tunnel.
GuardInv ==
    /\ pc \in ConnectSteps \cup SyncSteps \cup {"renew"} => ~cleanup
    /\ pc \in ConnectSteps => ~Active
    /\ pc \in SyncSteps \ {"poll"} => task.config \in Configs
    /\ pc \in ConnectSteps \cup {"renew", "poll", "remember", "check"} => ~task.revoking
    /\ pc \in {"recordRevocation", "revokeSession", "finishRevocation"} => task.revoking
    /\ pc \in SyncSteps /\ task.revoking => Active /\ ~task.config.wireGuard

\* The session is let go only after the revocation that the control confirmed.
RevokedInv ==
    /\ pc \in {"disable", "revoke"} /\ Owing => task.stateErr \/ disk.pending # None
    /\ pc \in {"finish", "finishRevocation"} /\ Owing => Revoked
    /\ pc = "finish" /\ Owing => task.stateErr \/ disk.pending # None
    /\ pc = "settle" /\ Owing => Revoked \/ Incomplete
    /\ pc = "settle" /\ Owing => Revoked \/ task.stateErr \/ disk.pending # None
    /\ pc = "commit" /\ task.revoking /\ Owing =>
           Revoked \/ task.remoteErr \/ task.stateErr

CleanupInv == MemoryInv /\ PendingInv /\ GuardInv /\ RevokedInv

\* The inductive invariant behind EnforcedIsRecorded and NoRollback: memory
\* knows what the file records, and from rememberConfiguration on a
\* synchronisation works on the recorded configuration.
RecordInv ==
    /\ pc # "down" => floor.recorded = disk.recorded
    /\ pc \in SyncSteps \ {"poll", "remember"} => task.config = disk.recorded
    /\ EnforcedIsRecorded

\* The inductive invariant behind DisabledMeansClosed: disabled may be wrong
\* only between Apply and the commit, and inside a cleanup.
ClosedInv ==
    /\ pc \in {"report", "revokeSession", "finishRevocation", "commit"} =>
           plane \in {None, PlaneOf(task.config)}
    /\ pc \in {"revoke", "finish", "settle"} /\ ~task.localErr => plane = None
    /\ disabled /\ pc \notin CleanupSteps \cup
           {"report", "revokeSession", "finishRevocation", "commit", "down"} => plane = None

\* The file implements the durable ledger of owed cleanups.
Ledger == INSTANCE DurableCleanup WITH owed <- disk.pending
LedgerSpec == Ledger!Spec

\* An owed cleanup is completed once faults end: the periodic Cycle retries
\* it, and a restart picks it up from the file.
CleanupCompletes == disk.pending # None ~> disk.pending = None

\* Nothing stays in force past its ValidUntil once faults end, whatever the
\* control does (Cycle and enforceExpiry fail closed).
ExpiryEnforced ==
    \A c \in Configs : (plane = c /\ c \in lapsed) ~> plane # c
=============================================================================
