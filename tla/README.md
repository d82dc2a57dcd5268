# Formal models of soha-app

soha-app is a desktop application and the privileged service beside it. The
service (`cmd/soha-app-service`, `internal/endpointservice`) connects the
machine to a managed network: it brings up a WireGuard tunnel and a mihomo
proxy as the network control decides, and takes them down, fail-closed, when a
session expires, is revoked, or anything goes wrong. The desktop host (the Go
package at the root) and its user interface (`frontend/`) talk to the service
over a local socket and to the server over HTTP.

This directory holds TLA+ models of the service, of the desktop host's session
and downloads and of the recovery in the user interface, TLC configurations
that check them on small instances, and TLAPS proofs for every instance. Paths
below are relative to `src/`; `manager.go` and the like are in
`internal/endpointservice/`.

- [Inventory](#inventory)
- [Plan](#plan)
- The connection: [EndpointManager](#endpointmanager),
  [NetworkLifecycle](#networklifecycle),
  [CoordinatedExecutor](#coordinatedexecutor),
  [the systems below the executor](#the-systems-below-the-executor)
- The device: [AdmissionManager](#admissionmanager),
  [ChannelManager](#channelmanager)
- The application: [DesktopSession](#desktopsession),
  [VPNRecovery](#vpnrecovery),
  [SoftwareLibrary and AppUpdate](#softwarelibrary-and-appupdate)
- [Runs](#runs)
- [Where code and documents disagree](#where-code-and-documents-disagree)
- [Proofs](#proofs)
- [What is not covered](#what-is-not-covered)

## Inventory

### The service

**Endpoint manager** (`manager.go`, `vpn_manager.go`, `configuration_floor.go`).
Keeps the session (`status`, `leaseIDs`, `sessionUntil`, `nextRenewAt`), the
applied configuration (`appliedVersion`, `appliedHash`, `disabled`), a reason
to clean up (`cleanupReason`) and a protected file with the newest
configuration seen and the cleanup it owes. Operations: `Connect`,
`Disconnect`, the periodic `Cycle` (renew, poll, apply, health), the app
operations, shutdown; `operationMu` serialises them and every one calls the
network control, the executor or the file in between. Hard: calls that fail in
part, answers that are lost, deadlines that pass during a call, a crash between
any two steps. Correct when: an owed cleanup survives until it is done, nothing
older than what was recorded comes back, nothing outlives its deadline, no
tunnel comes up beside an owed cleanup.

**Network lifecycle watchdog** (`lifecycle.go`). A goroutine beside the
operations, with its own two-second ticker; it keeps a session's first uplink
fingerprint, reads the session without `operationMu`, then tries the mutex.
Hard: it races with every operation. Correct when: it ends a session whose
network is gone, never another one, and always gives the mutex back.

**Executor and coordinated executor** (`executor.go`, `mihomo.go`,
`mihomo_app.go`). Keep the previous tunnel plan, the proxy that should run, the
configuration the user's app operations work on, and a protected file with the
user's subscription. Operations: `Apply`, `Verify`, `Disable`, and
`Configure/Select/Refresh/ClearMihomoApp`. Hard: tunnel, proxy process and file
change one after the other and each can fail in part. Correct when: tunnel and
proxy always belong to one configuration, the proxy is closed before the routes
change, what the user cleared stays cleared.

**Mihomo controller** (`mihomo.go` from 541, `mihomo_bootstrap.go`,
`mihomo_policy.go`, `mihomo_egress.go`). The dialogue with the proxy process:
some twenty HTTP requests to an engine that may restart, and whose user may
select another node, between any two. Correct when the ingress leads only to
what was inspected, an answer is true of the engine, and a start that is not
confirmed is closed again.

**Native tunnels** (`system_darwin.go`, `dns_darwin.go`, `system_windows.go`).
The device, its interface, the resolver settings; a service of the service
manager and its file. Hard: several objects that change one after the other,
some of which outlive the process or are changed by other programs. Correct
when an answer is true of the machine, nothing of another program is removed,
and a cleanup that stopped half way can be completed.

**Service runtime** (`cmd/soha-app-service/runtime.go`). Disables everything
before it creates a manager, enrolls once, supervises the manager and the
channel controls. Hard: a crash around enrollment.

**Presence and heartbeats** (`presence.go`, `ui_presence.go`, `manager.go`
459-479). Publish health from a snapshot of the manager; the user interface is
online for 30 s after it was seen. Hard: the snapshot is read in two critical
sections.

**Admission** (`eap_manager.go`, `eap_cleanup.go`, `eap_client.go`). Keys,
certificates and network profiles for wired and wireless access, with a
protected state file and a queue of at most sixteen cleanups. Hard: the system
is changed before the state is saved; renewal replaces an identity that is
still in use; the user installs whichever exported profile he likes. Correct when
every key and profile is in use, pending or queued for cleanup.

**Channel controls** (`channels.go`, `channels_*_windows.go`). Receives a signed
policy, records its acceptance, keeps a floor, reconciles printers, volumes and
clipboard and sends a receipt. Hard: a crash between acceptance and floor; the
printers' access lists outlive the service, and administrators edit them.
Correct when no older policy is reconciled, what was restricted can be
restored, and nobody else's list is overwritten.

**Enrollment state and key** (`enrollment_state.go`, `key.go`), **local IPC**
(`ipc.go`), **control client** (`client.go`, `vpn_client.go`): files, framing
and encoding.

### The desktop host

**Session** (`proxy.go`, `session_credentials.go`, `desktop_auth.go`,
`config.go`). Keeps the target server, the refresh credential in the system's
keyring and a block on rejected sessions. Hard: answers of earlier sessions
that arrive after a login, logout or change of server. Correct when they change
nothing.

**Software library and update** (`software.go`, `update_provider.go`,
`runtime.go`): task states behind one mutex. **Host utilities**
(`inventory.go`, `personal_export.go`, `companion_window.go`, `logging.go`):
single calls.

### The user interface

**VPN recovery** (`frontend/src/vpn-recovery.tsx`): disconnects and reconnects
when the service reports a recoverable failure, within attempts and a
cooldown. Hard: everything may have changed after each `await`. **Assistant
request recovery** (`assistant-request-recovery.ts`): a journal of pending
requests shared by windows. The **pages** show server state.

**Release tooling and packaging** (`tools/updaterelease`, `build/`) run at build
time only.

### How they interact

The manager calls the executor under `operationMu`; the watchdog calls the
manager's `disconnectLocked` under the same mutex; the IPC server calls the
manager's operations on behalf of the desktop host and the user interface;
presence reads the manager's status. The network control is called by the
manager only and can change its mind at every call. Nothing else is shared but
the protected files, each with one writer.

`PROJECT.json` lists under "hazards" what is hard to test here, line by line,
with the property that would catch it.

## Plan

The modules were written in the order of what a failure costs: the manager and
what it promises about cleanups (`EndpointManager`, `DurableCleanup`), the
goroutine that races with it (`NetworkLifecycle`), the executor it calls
(`CoordinatedExecutor`), what the executor calls in turn (`TunnelSystem` and
the three systems that implement it), admission (`AdmissionManager`), channel
controls (`ChannelManager`), the desktop session (`DesktopSession`), and the
small components that `MCParts` checks together (`VPNRecovery`,
`SoftwareLibrary`, `AppUpdate`).

| abstract | detailed | how it is shown |
|---|---|---|
| `DurableCleanup`: a debt lasts until it is paid | `EndpointManager` | run `Sessions`, theorem `FileImplementsLedger` |
| `TunnelSystem`: an answer is true of the machine | `DarwinTunnel`, `WindowsTunnel`, `MihomoController` | run `Parts`, theorems `PartsKeepPromise` and `PartsAreTunnelSystems` |

The modules compose by assumption: what one takes for granted of its neighbour
is what the neighbour's module shows. `EndpointManager` lets `Apply`, `Verify`
and `Disable` have the outcomes of `CoordinatedExecutor`; that one lets a
tunnel and a proxy have the outcomes of `TunnelSystem`; `NetworkLifecycle`
reduces operations to opening and closing sessions; `VPNRecovery` sees the
states and diagnostics of `EndpointManager`.

Every safety property the runs check is proved. Worth doing next: the Windows
EAP system beside the macOS one; a model of the two-goroutine supervision in
`cmd/soha-app-service/runtime.go` with enrollment; a proof that the outcomes
`CoordinatedExecutor` allows a tunnel and a proxy are those of `TunnelSystem`,
which is an argument in words so far.

## EndpointManager

`EndpointManager.tla` models all of `Connect` (direct and managed),
`Disconnect`, `Cycle`, `renew`, `syncConfiguration`, `disconnectLocked`,
`rejectConfiguration`, `enforceExpiry`, the shutdown of `Run` and the
configuration floor.

**Operations.** `operationMu` admits one operation at a time, so a single `pc`
says where the running one is: "idle" when the mutex is free, "down" when no
process runs. `task` holds its local variables. Each call out of the process
(network control, executor, protected file) is one step, with the code that
follows it up to the next call; a crash, a lapse of time or drift can come
between any two steps.

| code | actions |
|---|---|
| `Connect`, `connectManaged`, `acceptVPNConnection` | `ConnectStart`, `Prepare`, `Probe`, `RequestRefused`, `RequestLost`, `RequestGranted` |
| `Cycle`, `renew`, `enforceExpiry` | `CycleStart`, `RenewFails`, `RenewRevoked`, `Renewed`, `Health`, `EnforceExpiry` |
| `syncConfiguration`, `rememberConfiguration` | `PollFails`, `Poll`, `RememberRefused`, `Remember`, `CheckRejects`, `CheckFails`, `CheckPasses`, `Verified`, `Drifted`, `RecordRevocation`, `ApplySucceeds`, `ApplyFails`, `Report`, `RevokeSession`, `FinishRevocation`, `Commit` |
| `disconnectLocked`, `beginVPNCleanup`, `finishVPNCleanup` | `Begin`, `Disable`, `RevokeLeases`, `Finish`, `Settle`, `Exit` |
| `Run`, `newEndpointRuntime`, the environment | `DisconnectStart`, `ShutdownStart`, `Crash`, `Boot`, `Lapse`, `Drift`, `Heal` |

**State.** `status`, `leaseIDs`, `applied`, `disabled`, `cleanup`
(`cleanupReason` is not empty) and `floor` are the manager's fields; `disk` is
the protected file. `plane` is the configuration in force in the operating
system, `live` the leases the control holds live, `used` the session
identifiers it handed out. `CoordinatedExecutor` is what justifies `plane`: to
the manager, `Apply`, `Verify` and `Disable` have exactly those outcomes.

**Abstractions.** A configuration is its content, so two with one version and
different content have different digests. Time is what the code compares: the
lease's deadline is `ahead`, `renewable` or `passed`, a configuration's
`ValidUntil` is ahead or passed (`lapsed`). A diagnostic is "recoverable"
(`recoverableVPNFailure`) or other. A save replaces the file by an atomic
rename; it happens or it does not.

**`DurableCleanup.tla`** is what the file promises: a debt (session, leases)
appears for leases that may be live, no leases are added to that session while
it is owed, and it disappears only when the control holds none of them.
`LedgerSpec` says that the manager implements it, with `owed` the cleanup in
the file.

**Fairness.** `WF(Step)`: every call has a timeout, so the holder of the mutex
goes on. `SF(CycleStart)`: the poll timer always fires again, and `sync.Mutex`
hands over to a waiter that is starved, so a `Cycle` is not shut out for ever
by other operations. `WF(Boot)`: the service manager restarts the process.
`WF(Heal)`: crashes and the failures of disable, save and revoke end some day;
without it no cleanup needs to complete. The control may go on refusing
polls, renewals and connections for ever.

## NetworkLifecycle

`NetworkLifecycle.tla` models `watchNetworkLifecycle` step by step (`Tick`,
`Baseline`, `Compare`, `Acquire`, `Probe`, `Teardown`) beside the operations
that hold `operationMu`, which are reduced to opening and closing sessions. The
fingerprint is an opaque value, `None` when the interfaces cannot be read;
`gap` says that the clock jumped since the last tick. `ctx.Done`, which ends
the goroutine and changes nothing, is left out; `EndpointManager` has the
shutdown.

Not visible to the code, hence to no property: a change of uplink between the
connection and the first tick that sees the session becomes its baseline. And
a watchdog without baseline that cannot read the interfaces may run
`disconnectLocked` with no session, which is harmless and possible in the model.

**Fairness.** Ticks go on, operations end, a cleanup that is tried again and
again completes, and of infinitely many ticks that try the mutex while an
operation or nobody holds it infinitely many succeed: the poll interval is a
minute (`runtime.go:127`), the ticker's two seconds, and an operation's calls
are bounded.

## CoordinatedExecutor

`CoordinatedExecutor.tla` models `CoordinatedExecutor` with `Executor` below
it, and the user's app operations. One call is in flight: `pc` is its next
step, `op` the call, `config` and `sub` its locals.

| code | actions |
|---|---|
| `CoordinatedExecutor.Apply`, `.Disable` | `ApplyStart`, `DisableStart`, `Quiesce`, `ProxyRefused`, `ManagedProxy`, `AppProxy`, `Subscribe`, `Save`, `Recover` |
| `Executor.Apply`, `.Disable`, `recover` | `TunnelDown`, `TunnelUp`, `Rollback` |
| `Verify` of both | `Verify` |
| `ConfigureMihomoApp`, `SelectMihomoApp`, `RefreshMihomoApp` | `ConfigureStart`, `SelectStart`, then as `Apply` |
| `ClearMihomoApp` | `ClearStart`, `ClearFile`, `ClearProxy` |
| restart, the machine | `Crash`, `Boot`, `Drift`, `Heal` |

`tunnel` and `proxy` are what the operating system and the mihomo process
really run; `previous`, `running` (`previousMihomo`), `appDesired` and
`clearPending` are what the executor remembers; `file` is the protected
subscription file. The manager is reduced to `accepted` (the version it counts
as applied) and `owed` (it must `Disable` before it applies again).

Abstractions: a member of `Subs` is a subscription with the selected proxy;
select and refresh both rewrite it. `Verify` reads two things and changes
nothing, so it is one step; what it finds wrong ends in `Recover`. A tunnel
that was changed in part is `Broken`. The controller either confirms what it
started, or fails having closed the proxy or not. After a failed `Apply` or
`Verify` the manager's `rejectConfiguration` calls `Disable` under the same
mutex, so the model goes there directly.

**Fairness.** As for the manager; `Cycle` is the `Disable` of an owed cleanup,
or else the `Verify` of the applied version, and gets strong fairness.

## The systems below the executor

`TunnelSystem.tla` states what `Executor` and `CoordinatedExecutor` rely on
when they call a system (the `System` and proxy interfaces of `executor.go` and
`mihomo.go`): an answer is true of the machine when it is given, a call that
fails promises nothing, and what was disabled stays down until the next call.
Between two answers anything may happen to the machine. Three modules implement
it; in each, `tunnel` is mapped to what the state of the operating system or of
the engine amounts to (a plan fully in force, nothing of ours, or a rest).

**`DarwinTunnel.tla`** (`system_darwin.go`, `dns_darwin.go`).

| code | actions |
|---|---|
| `Apply`, `apply` | `ApplyStart`, `Create`, `Configure`, `OpenDNS`, `Poll`, `Abort` |
| `Disable`, `disable` | `DisableStart`, `Close`, `CloseDNS`, `RemoveKey`, `Disabled` |
| `Readback` | `Readback` |
| other programs, the process | `Overwrite`, `GiveBack`, `Unlink`, `Foreign`, `Crash`, `Heal` |

A plan stands for its routes and addresses; the dynamic store has two values,
which is enough for "one removed, the other not". The removal of a value is one
step with the comparison before it (`sohaDNSClose` has no transaction); another
program may act before and after. With the process, its device and its session
of the dynamic store go.

**`WindowsTunnel.tla`** (`system_windows.go`).

| code | actions |
|---|---|
| `Apply`, `failClosed` | `ApplyStart`, `Write`, `Install`, `Poll`, `Abort` |
| `Disable` | `DisableStart`, `Verify`, `Uninstall`, `Wait`, `Remove` |
| `Readback` | `Readback` |
| service manager, other programs, the process | `Deleted`, `Intrude`, `Withdraw`, `StartStop`, `Overlap`, `Crash`, `Heal` |

`wireguard.exe` and the service manager are external. `errors` is what `Disable`
joins: a command that failed is an error though the service is gone, and so is
a service that stayed or could not be looked at. What `Wait` saw of the
service counts for the removal of the file that follows at once: a service that
comes or goes between them does so after it.

**`MihomoController.tla`** (`mihomo.go` from 541 and its bootstrap, egress and
policy files).

| code | actions |
|---|---|
| `Apply`, `applySource` | `ApplyStart`, `Bootstrap`, `PrepareEgress`, `Stage`, `Select`, `Rules`, `Listening`, `Probe`, `Open`, `Opened`, `Reread`, `Reselected` |
| `Disable`, `disable`, `closeConnections` | `DisableStart`, `Quiesce`, `Drop`, `Closed`, `Rejecting`, `Abort` |
| `Verify` | `VerifyStart`, `Listener`, `Policy`, `Egress`, `Group` |
| the engine and its other clients | `Restart`, `Reselect`, `Connection`, `Expire`, `Crash`, `Heal` |

The engine is another process: a request takes effect and is answered, or fails
with or without effect. It serves one request after the other, so a request
that timed out does not take effect after the next one. A plan stands
for the configurations with the same rules, which is what `verifyRules` compares:
two that differ in nothing it reads are one plan. A configuration is
`sound` when its nodes, bindings and rules are the ones it was given. The gate's
lease may end at any time; connections that are open then are the gate's
business, and "in force" goes on to mean the engine's configuration.

**Fairness** (`DarwinTunnel`, `WindowsTunnel`). Calls have deadlines; a failed
call is followed by another `Disable` (`executor.recover`, and the manager's
cycles while a cleanup is owed); faults end, and other programs give back what
they took. `MihomoController` has no liveness property: the manager's retries
are `EndpointManager`'s.

**`MCParts.tla`** checks these modules together with `VPNRecovery`,
`SoftwareLibrary` and `AppUpdate`. They share no state, so a behaviour of
`MCParts` is a behaviour of one of them: `part` says which, what it does not
use stays `None` or `FALSE`, and the properties are those of the modules with
`part` in front of them.

## AdmissionManager

`AdmissionManager.tla` models `AdmissionManager` (`eap_manager.go`,
`eap_cleanup.go`) above the macOS system (`eap_darwin.go`,
`eap_export_darwin.go`, `eap_plist.go`), the control that issues and activates
certificates, and the user who installs the exported profiles.

| code | actions |
|---|---|
| `Prepare` | `PrepareStart`, `Identity`, `Key`, `Issue`, `StageStep`, `Recover` |
| `Check` | `CheckStart`, `Withdraw`, `Continue`, then `Identity` ... `StageStep` when a renewal is due, `Readback`, `Activate`, `Cleanup`, `Recover` |
| `Remove` | `RemoveStart`, `Remove`, `Cleanup`, `Recover` |
| `Observe` | `Observe`, `Withhold` |
| user, control, time, process | `Install`, `Rotate`, `Age`, `Restart`, `Heal` |

**State.** `mem` and `disk` are `eapState` in memory and in the protected file:
the active and the pending identity with how far its request has come, the
selected profiles with their current and earlier exports, the queue of cleanup
jobs. `key`, `files`, `installed` are what the system holds; `current` what the
control counts as active; `granted` and `view` the last observation. A step is
a call with the save that follows it, and the save either replaces the file or
takes memory back to it and withdraws the authorisation (`eap_manager.go:510`).

**Abstractions.** A request identifier stands for its key, request, certificate
and fingerprint, an export for its payload's hash. The queue is a set of
identities plus the one shared job that collects files; its order is not used.
`QueueLimit` and `PriorLimit` are sixteen in the code. Adapters, the trust
certificates with their retained list, `Connect` and `Status`, which ask the
system and change nothing that is kept, are left out. An interrupted write of a
key file leaves a `damaged` key, one between key and request a `bare` or an
`unsigned` one (`Written`), a stop between the creation of an exported file and the
completion of its receipt a `stray` file. The code recognises neither the damaged
key nor the stray file later, so the liveness properties except them (`Stuck`,
`stray`). The user installs any export that the selection remembers, the present
one or an earlier one whose file he kept; a copy of an export that `Check` already
forgot can only be shown not to be removable, which `MCRemovable.cfg` does.

**Fairness.** The ten-second timer starts `Check` again and again and
`sync.Mutex` hands over to a starved waiter (`SF(CheckStart)`); calls end;
faults do, some day.

## ChannelManager

`ChannelManager.tla` models the channel controls on Windows (`channels.go`,
`channels_windows.go`, `channels_print_windows.go`,
`channels_removal_windows.go`, and `cmd/soha-app-service/main_windows.go` for
the removal).

| code | actions |
|---|---|
| start (`registerNativeChannelOwner`, restore of floor and journal) | `Start` |
| `Run`, `accept` | `Poll`, `Mark`, `Accept`, `Report` |
| `Reconcile`, `restrictPrinter`, `restorePrinter` | `Reconcile`, `Again`, `Journal`, `Restrict`, `Restore`, `Forget`, `GiveUp` |
| stop or crash; `uninstallService` with `CheckNativeChannelRemoval` | `Stop`; `Uninstall` |
| control, administrator | `Publish`, `Edit`, `Heal` |

`acl` is each queue's access list: a base and whether the restriction is on it;
`ours` says (for the properties only) that the service put it there. `journal`
and `journalFile` hold the base to restore. Volumes and clipboard are held by
handles and a helper process, so one value, `locks`, which a stop releases, is
all there is to them. Windows has no atomic comparison and exchange of access
lists: the comparison immediately before a write and the write are one step.
The journal is keyed by the queue's name, and a renamed queue is a deleted one
and a new one.

**Fairness.** Windows starts the service with the machine, its loop goes on,
faults and edits end (`Edit` is among the faults).

## DesktopSession

`DesktopSession.tla` models the session of the desktop application (`proxy.go`,
`session_credentials.go`, `desktop_auth.go`, `config.go`, and the start in
`main.go`).

| code | actions |
|---|---|
| `handleAPI`, `Rewrite`, `injectStoredRefreshCredential` | `Ask`, `Send` |
| `handleDesktopAuth` | `Ask`, `Callback`, `Receive` |
| `modifyProxyResponse`: `markAuthenticated`, `markRefreshed`, `blockSession` | `Receive` |
| `handleSessionClear` | `Clear` |
| `handleConnectionSwitch`, `handleConnectionActivate` | `Switch`, `Prepare`, `Forget`, `Activate` |
| `initialServerConfiguration`, end of the process | `Start`, `Quit` |
| servers | `Serve`, `Drop` |

Each handler is a record in `requests`: its step, the target and epoch it is
bound to (the pointer `h.target` is another one after each activation), the
credential it sent and the answer it got. A token names the server, the session
and a turn; a login begins a session, a refresh its next turn. `ring` is the
keyring, `saved` the configuration file. `current` and `ended` are for the
properties: what the webview was last given, and the sessions that were
cleared, logged out, refused, replaced or left by a switch. One case is taken
out of `ended` again: a refresh that is under way when the switch deletes the
credential (`Refreshing`) is still accepted by the code, which is the disagreement
"Switch" below.

A save that fails leaves the old file or the new one whose directory was not
synced; a keyring that cannot be read counts as empty. Request filtering, the
attributes of cookies and the cryptography of the browser exchange are left
out. A switch that was prepared and never activated refuses every later request
(`proxy.go:345`); the model has that state, and since the interface activates at
once no property promises its end. There is no fairness: nothing here has to
happen.

## VPNRecovery

`VPNRecovery.tla` models `frontend/src/vpn-recovery.tsx` beside the panel's own
operations (`vpn-panel.tsx`).

| code | actions |
|---|---|
| the effect of `VPNRecovery` | `Healthy`, `Ignore`, `Exhaust`, `Count`, `Attempt` |
| the recovery's mutation and `onError` | `Disconnect`, `Intent`, `Connect`, `Failed` |
| the panel's operations | `PanelStart`, `PanelDisconnect`, `PanelIntent`, `PanelConnect` |
| queries, timers, authentication, service | `Poll`, `Cool`, `Logout`, `Login`, `Service` |

`live` is the comparison of plans after each `await`; `observed` says whether
the effect has seen the polled status. Failures beyond three are not told
apart, and the status "connecting", which neither side acts upon, is left out.
A request does what it should, or fails with or without effect, and the service
changes its state on its own as `EndpointManager` does.

**Fairness.** The effect runs after every render, the poll goes on while a plan
is stored, the cooldown ends. The requests of a mutation may take for ever.

## SoftwareLibrary and AppUpdate

**`SoftwareLibrary.tla`** (`software.go`).

| code | actions |
|---|---|
| `install` | `Lookup`, `Refuse`, `Install`, `Unlock` |
| `runInstall`, `download` | `Request`, `Copy`, `Verify`, `Open`, with `Fail` and `Discard` on every error |
| the server | `Publish` |

Any number of requests come at once, each with its own step in `pc`; `locked` is
`installMu`. The catalog is loaded before the lock is tried, so what is installed
may be any version offered up to then. File and catalog entry change one after
the other. Tasks live in memory; the process does not stop in the model. The
goroutine of a task runs on (fairness): the client gives a download thirty
minutes, and the opening of an installer returns.

**`AppUpdate.tla`** (`runtime.go`, `update_provider.go`): `Ask` reads the mode,
`Start` has the lock that an install or a check tries (`Busy` has not), and
`Fetch`, `Check`, `Delta`, `Full`, `Replace` are what they do with `checkMu` held;
another check may change the mode between `Ask` and `Start`. `Publish` and `Change`
are the mirror and other programs. Manifest, signature and assets are separate
files that may be of different publications. The replacement of the executable
is the updater library's, hence external.

## Runs

| run | instance | properties | shows |
|---|---|---|---|
| `Sessions` | 2 sessions, 3 configurations | `DisabledMeansClosed`, `SessionNotAbandoned`, `LedgerSpec` | no session with leases is let go of before its confirmed revocation, across failures and crashes; `disabled` tells the truth; the file implements the ledger |
| `Configurations` | 1 session, 5 configurations: one version twice, a policy that goes back, an unsafe proxy part | `CleanupHeld`, `EnforcedIsRecorded`, `NoRollback`, `NoTunnelWhileCleanupOwed` | what is in force was recorded first and nothing older comes back after a restart; no tunnel beside an owed cleanup |
| `Recovery` | 1 session, a tunnel and its revocation, one configuration may expire | `CleanupCompletes`, `ExpiryEnforced` | an owed cleanup is completed, by retries and across restarts; nothing stays in force past its `ValidUntil`, whatever the control does |
| `Lifecycle` | 2 sessions, 2 uplinks | `TeardownIsForTheSession`, `LossEndsSession` | the watchdog ends the right session, and always |
| `Executor` | 2 tunnels, 2 profiles, 2 subscriptions, 3 configurations | `InForceIsAccepted`, `ClearedStaysCleared`, `TunnelChangesWhenQuiet`, `StartedUnderPolicy`, `DriftNoticed` | no mixture of configurations after partial failures; order of proxy and tunnel; cleared means cleared; drift is noticed |
| `Admission` | 2 identities, 2 exports, 1 profile, queue of 2, 1 earlier export | `KeysAccounted`, `ActiveKeyKept`, `InstalledIsSelected`, `ActivatedWhenInstalled` | no key is forgotten, none in use is deleted, no installed profile loses its record, no certificate is activated that is not installed |
| `AdmissionCleanup` | 1 identity, 2 exports, queue of 2, 2 earlier exports | `FilesAreCollected`, `ActivationIsRecorded` | the collection of files and the recording of an activation are completed once faults end |
| `AdmissionWithdrawal` | 2 identities, 1 export, queue of 2 | `RemovalIsCompleted` | a withdrawn selection is removed, and what a removal queued is done, once faults end, whatever identities were renewed, replaced or stale; only an overfull queue stands in the way |
| `Channels` | 1 printer, 2 access lists, 2 revisions | `OriginalKept`, `RemovalLeavesNothing`, `PrintersAreGuarded`, `ReleaseCompletes` | a restricted list can be restored wherever the service stops; an administrator's edit stands; a release empties the journal; no removal that leaves a restriction |
| `Parts` | 2 plans (1 with DNS), 3 tasks, 3 versions, 2 attempts | `SystemsKeepPromise`, `ForeignKept`, `DarwinRecovers`, `DisabledIsDrained`, `IngressIsInspected`, `OneInstallation`, `TasksEnd`, `OnlySignedSuccessors`, `BudgetKept`, `RetryIsMade` | the three systems implement `TunnelSystem`; nothing foreign is removed; the proxy is inspected before it opens and drained when it closes; one installation at a time, which ends; only verified packages and signed successors; recoveries are bounded and not forgotten |
| `Desktop` | 2 servers, 2 requests, 3 tokens, 2 targets | `EndedStaysOut`, `UnblockedForTarget`, `RestartKeepsServer` | late answers do not bring back an ended session or unblock another target; a restart finds what memory had, and after a failed write at least never releases credentials to another server |
| `Uninstall` | 1 plan | `WindowsRecovers` | one of the disagreements below |

**Bounds.** `Sessions`: identifiers are never reused, so two are enough for
"another session than this one", which is the most that a property compares;
they are interchangeable, hence the symmetry in `Sessions` (a run without
liveness). `Configs`: chosen so that every comparison of versions, policies and
digests goes both ways. `MaxLapsed` bounds how many configurations may expire;
one lets a configuration expire in every state that refers to it. `Leases` and
`Grants`: in `Sessions` and `Recovery` the control grants one lease set again
and again, which is the case where a revoked lease could be confused with a
live one; `Configurations` has two sets, so that a renewal or a configuration
changes them. `Faulty` (a constraint of the two safety runs) ends exploration
at `Heal`: before it every behaviour of the specification is possible, so a
state after it shows a safety property nothing new. `Subs`, `Plans` and
`Profiles` have two members each, old and new.

`Ids`: an identity is active, pending or in the queue; two make a renewal, with
the old one queued when the new one becomes active, and two stale ones with the
shared job make one job more than a queue of two holds, as sixteen and the
shared job do in the code. `QueueLimit` is 2 instead of 16. `PriorLimit`, sixteen
too, bounds the earlier exports that a selection remembers; two exports suffice
for an earlier one and the present one, and they, not the limit, are what ends
the sequence. `AdmissionWithdrawal` has one export: which generation is installed
does not matter to a removal that recognises it, and when it does not, nothing
is promised (`Stuck`). `AdmissionCleanup` has one identity and two exports, since a
second file is what there is to collect; that the jobs of a replaced identity
never take the key in use is checked by `Admission`, and that none is left after a
removal by
`AdmissionWithdrawal`. `NotStray` keeps the stray file out of the two runs with two
identities: it makes `Recover` give up, which changes exported files only, and
of these `FilesAreCollected` alone speaks. Identities and exports are
interchangeable in `Admission`.

`MaxRevision` 2 gives a policy and its successor, each a restriction or a
release; printers do not influence each other, so one is enough to check and
the proofs have any number. `MaxTokens` 3 is a login, its refresh and a second
login; `MaxEpoch` 2 a target and the one switched to, which may be the same
server; two requests are an answer and what overtakes it. Three `Tasks` are one
that runs, one refused and one that had looked its package up before. `MaxVersion` 3 is the
installed version, the manifest's and a newer one; `MaxAttempts` 2 lets
attempts be renewed wrongly after the first.

Deadlock is checked in the runs of the manager, the watchdog, the executor and
admission: some operation, tick or restart is always possible. `Channels`,
`Parts`, `Desktop` and `Uninstall` do not check it, because these systems may
really stop: a removed service does, a library whose tasks are done, an
application whose tokens or versions (bounded) are used up.

For every property of a run that passes, `PROJECT.json` names a variation of
one definition (a guard dropped, a save forgotten, a comparison lost; it stands
next to the definition in the module) under which the run fails.

## Where code and documents disagree

Each is stated by a property that TLC finds violated. One has a run. For the
others a configuration beside the runs finds the behaviour, with
`tlc -config <cfg> <module>`.

- **Reconnect** (`manager.go:625`; `MCReconnect.cfg`, `MCEndpointManager`).
  `appliedHash` outlives its session, while `status.ConfigurationVersion`
  becomes the version that a new session announces. The first configuration of
  a second session in one process is therefore rejected as
  `configuration_version_reused` unless it is the very one applied before. The
  tests connect a fresh manager only.
- **Wake** (`lifecycle.go:48`; `MCWake.cfg`, `MCNetworkLifecycle`). The wake gap
  is consumed by the tick that measures it, also when that tick gives up because
  an operation holds the mutex. With the uplink unchanged the session survives
  the sleep, although the comment at line 14 promises detection while polling is
  blocked.
- **Unattended** (`manager.go:742`; `MCUnattended.cfg`, `MCEndpointManager`).
  The failure that the comment keeps observable for the user interface is
  erased when a retry by `Cycle`, rather than the first attempt, completes the
  cleanup.
- **Retained** (`mihomo.go:137`; `MCRetained.cfg`, `MCCoordinatedExecutor`).
  After a failed selection the retained subscription never comes back while the
  configuration stays: `Verify` expects no proxy any more. The test at
  `mihomo_test.go:190` calls `Apply`, which the manager does not do for an
  applied version.
- **OldPolicy** (`mihomo.go:385`, 153; `MCOldPolicy.cfg`,
  `MCCoordinatedExecutor`). When the proxy cannot be closed, neither in `Apply`
  nor in the `Disable` after it, `appDesired` stays, and an app operation starts
  a proxy under the replaced configuration. `StartedUnderPolicy`, which holds,
  says that this is only possible while a cleanup is owed.
- **Removable** (`eap_manager.go:390`; `MCRemovable.cfg`,
  `MCAdmissionManager`). `Check` forgets the
  earlier exports of a profile when the readback finds the right certificate,
  although another export with that certificate may be the installed one;
  `Remove` then refuses it for ever. `eap_plist.go:200` expects any generation.
- **Overfull** (`eap_manager.go:523`; `MCOverfull.cfg`,
  `MCAdmissionManager`). Only the creation of an
  identity looks at the room in the queue, and removals add jobs. With fifteen
  stale identities queued and a sixteenth pending, the removal of the last
  network makes seventeen; `save` refuses that state, memory falls back to the
  file, and every later `Check` and `Remove` ends there before its cleanup could
  shorten the queue. The network keeps its record for ever.
- **Expired** (`eap_manager.go:257`, 378; `MCExpired.cfg`,
  `MCAdmissionManager`). The advice to prepare the network again does not help
  when the expired certificate is the pending one: `Prepare` keeps it.
- **Bricked** (`channels.go:95`; `MCBricked.cfg`, `ChannelManager`). A stop, or
  a failed save, between the recorded acceptance of the first policy and its
  floor leaves a state that the start refuses as a lost floor.
- **Uninstall** (`system_windows.go:182`; run `Uninstall`). A `Disable` whose
  uninstallation failed removes the configuration file nevertheless, and
  without it every later call refuses to touch the service.
- **Switch** (`proxy.go:365`; `MCSwitch.cfg`, `MCDesktopSession`). The
  credential of the server that is left is deleted without blocking the
  session; a refresh in flight stores the next one, and it outlives the switch.
- **External** (`runtime.go:287`; `MCExternal.cfg`, `AppUpdate`). An install
  goes by the mode of the last check; the release it then finds may be one that
  must be installed externally.
- **Logout** (`vpn-panel.tsx:47`; `MCLogout.cfg`, `VPNRecovery`). A connection
  that is answered after a logout stores its recovery plan all the same.

## Proofs

A theorem holds for every value of the constants that satisfies the named
assumptions of its module, which say that configurations are well typed
(`ConfigsAssumption`), that a granted session has at least one lease
(`GrantsAssumption`; `RequestGranted` follows the code's check), that bounds
are natural numbers (`MaxLapsedAssumption`, `AdmissionAssumption`) and that
`None` and `Broken` are not members of the other sets (`NoneAssumption`,
`ConstantsAssumption`, `AdmissionAssumption`, `ChannelAssumption`,
`SessionAssumption`). The modules that `MCParts` instantiates share its
assumptions: a plan is none of the values that stand beside plans
(`PlansAssumption`), `None` is no task, no recovery plan and no mode of an
update (`NoneAssumption`), the bounds are natural numbers (`BoundsAssumption`).
TLC evaluates all of them in the runs. Nothing else is assumed; fairness is not
used. `tlapm <module>` checks a module's proofs.

**`EndpointManager_proofs.tla`.** `CleanupHeld`, `NoTunnelWhileCleanupOwed`,
`SessionNotAbandoned` and `LedgerSpec` are not inductive: each depends on what
an operation already did when it reaches a step. `CleanupInv` says so, in four
parts: `MemoryInv` (what memory and the file have in common), `PendingInv`
(where an operation can be while a cleanup is recorded), `GuardInv` (nothing is
connected or applied while one is owed, and what a revocation's locals are) and
`RevokedInv` (the steps that forget a session come after the confirmed
revocation). `StepTyped`, `MemoryStep`, `PendingStep`, `GuardStep` and
`RevokedStep` show that every step preserves them, by cases on the actions.

- `TypeCorrect`: `TypeOK` and `CleanupInv` always hold.
- `CleanupIsHeld`, `TunnelNeedsCleanup`, `SessionIsCleanedUp`: the properties
  of the same content that the runs check.
- `FileImplementsLedger`: `Spec => LedgerSpec`. Every step maps to `Owe`
  (`BeginOwes`), `Discharge` (`FinishDischarges`), `Withdraw`
  (`RevokeWithdraws`), `Extend` (`GrantExtends`) or a stutter.
- `RecordedBeforeEnforced` and `NeverRollsBack` (`EnforcedIsRecorded`,
  `NoRollback`), from `RecordInv`: memory knows what the file records, and from
  `rememberConfiguration` on a synchronisation works on the recorded
  configuration.
- `DisabledIsClosed` (`DisabledMeansClosed`), from `ClosedInv`: `disabled` may
  be wrong only between `Apply` and the commit, and inside a cleanup.

**`NetworkLifecycle_proofs.tla`.** `TeardownIsSafe`: the watchdog's types and
`TeardownIsForTheSession`, from `WatchInv`: identifiers are not handed out
twice, so a session that has the baseline and is still up is the one the tick
found, whatever happened before the mutex was taken.

**`CoordinatedExecutor_proofs.tla`.** `ExecutorInv` is `CallInv` (what a step of
a call knows: where the proxy is closed, which locals are set), `PolicyInv`
(unless a cleanup is owed, app operations work on the last configuration given
to `Apply`) and `ForceInv` (what is in force then). `ExecutorInvariant` proves
it with the types; `ConfigurationInForce`, `TunnelQuiet` and `ProxyUnderPolicy`
are the properties `InForceIsAccepted`, `TunnelChangesWhenQuiet` and
`StartedUnderPolicy` of the run `Executor`. `ClearIsFinal`
(`ClearedStaysCleared`) needs `ClearInv` besides: neither the file nor a call
under way has a subscription of a cleared profile, and the file is empty before
`Clear` confirms.

**`MCParts_proofs.tla`.** What the run `Parts` checks of six small components,
for every instance of them. `StepOfPart` reduces a step of `MCParts` to one of
the component that `part` names; each component then has its invariant, its
steps and its theorem.

- `PartsKeepPromise` (`SystemsKeepPromise`): every step of the macOS tunnel, the
  Windows tunnel and the proxy's controller maps to `Working`, `Answer`,
  `Outside` or a stutter of `TunnelSystem`. `PartsAreTunnelSystems` adds the
  initial states: each of the three implements `TunnelSystem!Spec`. All three
  need an invariant, because what an answer says was read some steps before
  it is given. macOS (`DarwinInv`): where a call stands, and that the process can
  name everything of its own that is in the system (`KnownInv`), so that a
  cleanup that finds nothing to do has nothing left to do. Windows
  (`WindowsInv`): a tunnel is only up while its service is installed, and after
  `Disable` it is not (`ServiceInv`). The proxy (`ProxyInv`): what a step of a
  call knows, and what holds of the engine whoever restarted it or selected a
  node (`EngineInv`).
- `ForeignIsKept` (`ForeignKept`) from the macOS removal's own steps;
  `InspectedBeforeIngress` (`IngressIsInspected`) and `DisabledDrains`
  (`DisabledIsDrained`) from `EngineInv`.
- `InstallationsExclude` (`OneInstallation`), from `TaskInv` and the lemma
  `OpenedPackages` (the installer is only opened with what was verified): the goroutine that runs holds the lock from
  its task's first state to beyond its last and is the only one, and at "open" the
  file that was fetched is the artifact that was looked up.
- `AttemptsAreBounded` (`BudgetKept`), from `PlanInv`: as long as there is a
  recovery, the attempts its plan counts are those that were made since the
  user connected. A panel operation and a recovery exclude each other, which is
  why a new plan cannot bring the count of an older one back.
- `SuccessorsAreSigned` (`OnlySignedSuccessors`), from `CandidateInv`: from the
  check to the replacement the candidate is a signed version above the
  installed one, and what is delivered is its content.

**`AdmissionManager_proofs.tla`.** Three invariants, each resting on the one
before.

- `IInv` (`AdmissionInvariant`): the types (`AdmissionTypes`) and `KeyInv`. That
  a key file belongs to an identity of the saved state (`KeysAccounted`, theorem
  `KeysAreAccounted`) is not inductive, because the keys are written and deleted
  for the state in memory: `KeyInv` adds the same of memory, and that a pending
  identity was saved before anything was made for it. `SaveOutcome` is what a
  save does, `OwnersKept` that no change of the state forgets an identity.
- `IdentityInv`: an identity is the active one, the pending one or one to be
  deleted, never two of them, and what the file says was made of it was made
  (`Apart`); memory is ahead of the file only by the room made for a next
  identity (`Replaced`), and an operation gets to a call only with what the
  calls before it obtained. `ActiveKeyIsKept` (`ActiveKeyKept`): the key in use
  is never deleted, which is what `Apart` is for.
- `SelectionInv`: what is installed or recorded is selected in the file, and at
  the activation every selected network has a profile of the pending identity
  installed and no export of another recorded (`ForPending`). A user may install
  a recorded export at any time; that all of them are for the same identity then
  is what keeps readback and activation in step.
  `InstalledIsAlwaysSelected` (`InstalledIsSelected`) and
  `InstalledBeforeActivation` (`ActivatedWhenInstalled`).

**`ChannelManager_proofs.tla`.** `ChannelInv`: a running service has the journal
of the file, a restriction of its own is journaled, and nothing runs while the
service is being removed. From it `RestrictedIsJournaled` (`OriginalKept`),
`RemovalIsClean` (`RemovalLeavesNothing`) and `OnlyJournaledChange`
(`PrintersAreGuarded`).

**`DesktopSession_proofs.tla`.** First `Bound`: the types, `TargetInv` (a handler
bound to the present target works on its server), `FileAgrees` (after a write that
succeeded the file has the server and the block of memory) and `FileKeepsServer`
(whatever write failed, a file without the block names the server in force). From it
`ReleasedForTarget` (`UnblockedForTarget`) and `RestartStaysWithServer`
(`RestartKeepsServer`, the last two together).
Then `Sessions`, which adds `TokenInv` (where a token can be), `OpeningInv` (the
session that a login has opened but not yet begun is nowhere else, so ending
what is there cannot end it) and `EndedInv` (without faults no stored session is
an ended one, and where the keyring is empty no handler bound to the target
holds one; this is what the comparison in `markRefreshed` rests on, which
accepts an empty keyring). `EndedIsNotTakenUp` (`EndedStaysOut`) follows.

**Model-checked only.** Liveness under fairness is beyond the prover:
`CleanupCompletes`, `ExpiryEnforced`, `LossEndsSession`, `DriftNoticed`,
`RemovalIsCompleted`, `FilesAreCollected`,
`ActivationIsRecorded`, `ReleaseCompletes`, `DarwinRecovers`, `RetryIsMade`, `TasksEnd`. So
are `ENABLED`, induction over data and recursive operators (the models have
none). The disagreements are shown by TLC.

## What is not covered

Not promised by the code, and therefore no property here:

- A process that is killed while a session is up leaves the session and its
  leases at the control until they expire there: the file owes a cleanup only
  once one began. The tunnel is disabled before the next start.
- The same for a session that was granted but whose answer was lost or refused
  (`vpn_profile_changed`), and for leases renewed in an answer that was lost
  (`RequestLost` and `RenewFails` have them).
- A failed probe leaves the profile of the attempt in the status.
- A saved file is synced, its directory is not (the desktop host's is, see
  `config.go:193`): a rename may be lost when the machine, not the process,
  stops.
- A switch of the server that was prepared is not bound to be activated.
- A queue that is renamed while it is restricted stays restricted.

Not modelled, and why:

- **Presence and heartbeats**, and the interval arithmetic of the poll timer:
  reports that change nothing; a wrong one is corrected by the next.
- **Enrollment and keys**: one sequence at start, idempotent as far as the
  control answers a repeated request as before, which the code cannot check.
- **Local IPC and control client**: framing and encoding; what they can do to
  an operation (fail, lose an answer) is in the modules.
- **Assistant request recovery**: identifiers in the browser's storage whose
  removal is idempotent.
- **Windows EAP system, trust certificates and adapters** of admission; the
  rendering of rules and the pinning of bootstrap addresses of the proxy.
- **Pages, host utilities, release tooling and packaging**: presentation,
  single calls, build-time programs.

Out of reach or of no interest to a model checker: operating-system calls,
encodings, XML and property-list profiles, validation of single messages.
