---------------------- MODULE CoordinatedExecutor_proofs ----------------------
(***************************************************************************)
(* The data plane's safety, for any configurations, plans, profiles and    *)
(* subscriptions, and any sequence of failures, crashes and drift.         *)
(***************************************************************************)
EXTENDS CoordinatedExecutor, TLAPS

\* The fields of a configuration, a started proxy and the file have their types.
LEMMA FieldsTyped ==
    /\ \A c \in Configs : c.tunnel \in Plans \cup {None}
                         /\ c.proxy \in {"none", "managed", "app"}
                         /\ c.profile \in Profiles \cup {None}
    /\ \A c \in Configs, s \in Subs \cup {None} : [config |-> c, sub |-> s] \in Proxy
    /\ \A p \in Proxy : p.config \in Configs /\ p.sub \in Subs \cup {None}
    /\ \A f \in File : f.profile \in Profiles \cup {None} /\ f.sub \in Subs \cup {None}
    /\ \A p \in Profiles \cup {None}, s \in Subs \cup {None} : [profile |-> p, sub |-> s] \in File
    /\ NoFile \in File
    /\ None \notin Configs /\ None \notin Proxy
  BY ConfigsAssumption, ConstantsAssumption DEF Configuration, Proxy, File, NoFile

\* Initially every variable has its type and no call runs.
LEMMA InitExecutorInv == Init => TypeOK /\ ExecutorInv
  BY FieldsTyped DEF Init, TypeOK, Steps, Ops, Tunnels, ExecutorInv, CallInv, PolicyInv, ForceInv

\* Every step of a call, of the manager and of the system keeps the types.
LEMMA StepTypeOK == TypeOK /\ CallInv /\ [Next]_vars => TypeOK'
<1> SUFFICES ASSUME TypeOK, CallInv, [Next]_vars PROVE TypeOK'
  OBVIOUS
<1> USE FieldsTyped DEF TypeOK, Steps, Ops, Tunnels, CallInv
<1>1. CASE \E c \in Configs : ApplyStart(c)
  BY <1>1 DEF ApplyStart, Enter, memory
<1>2. CASE DisableStart
  BY <1>2 DEF DisableStart, Enter, memory
<1>3. CASE Verify
  BY <1>3 DEF Verify, InForce, Enter, memory, manager
<1>4. CASE App
  BY <1>4 DEF App, ClearStart, ConfigureStart, SelectStart, Enter, memory, manager
<1>5. CASE Step
  <2>1. CASE Quiesce
    <3>1. CASE ProxyClosed
      BY <2>1, <3>1 DEF Quiesce, ProxyClosed, ProxyNotClosed, Goto, Failed, Return, manager
    <3>2. CASE ProxyNotClosed
      BY <2>1, <3>2, ZenonT(30) DEF Quiesce, ProxyClosed, ProxyNotClosed, Goto, Failed, Return, manager
    <3> QED
      BY <2>1, <3>1, <3>2 DEF Quiesce
  <2>2. CASE TunnelDown
    BY <2>2 DEF TunnelDown, AfterTunnel, Applied, Partial, Failed, Return, Goto, manager
  <2>3. CASE TunnelUp
    BY <2>3 DEF TunnelUp, AfterTunnel, Applied, Partial, Failed, Return, Goto, manager
  <2>4. CASE Rollback
    BY <2>4 DEF Rollback, Partial, Failed, Return
  <2>5. CASE ProxyRefused
    BY <2>5 DEF ProxyRefused, Failed, Return, Goto, memory, manager
  <2>6. CASE ManagedProxy
    BY <2>6 DEF ManagedProxy, Starts, StartFails, Applied, Return, Goto, manager
  <2>7. CASE AppProxy
    BY <2>7 DEF AppProxy, Usable, Applied, Failed, Return, manager
  <2>8. CASE Subscribe
    BY <2>8 DEF Subscribe, Starts, StartFails, Goto, memory, manager
  <2>9. CASE Save
    <3>1. config \in Configs
      BY <2>9 DEF Save
    <3>2. [profile |-> config.profile, sub |-> sub] \in File
      BY <3>1 DEF File
    <3>3. [config |-> config, sub |-> sub] \in Proxy
      BY <3>1 DEF Proxy
    <3> QED
      BY <2>9, <3>1, <3>2, <3>3, ZenonT(30) DEF Save, Applied, Return, Goto, manager
  <2>10. CASE Recover
    <3>1. CASE ProxyClosed
      BY <2>10, <3>1, ZenonT(30) DEF Recover, ProxyClosed, ProxyNotClosed, Failed, Return
    <3>2. CASE ProxyNotClosed
      BY <2>10, <3>2, ZenonT(30) DEF Recover, ProxyClosed, ProxyNotClosed, Failed, Return
    <3> QED
      BY <2>10, <3>1, <3>2 DEF Recover
  <2>11. CASE ClearFile
    BY <2>11 DEF ClearFile, memory, manager
  <2>12. CASE ClearProxy
    BY <2>12 DEF ClearProxy, ProxyClosed, ProxyNotClosed, Return, manager
  <2> QED
    BY <1>5, <2>1, <2>2, <2>3, <2>4, <2>5, <2>6, <2>7, <2>8, <2>9, <2>10, <2>11, <2>12 DEF Step
<1>6. CASE Crash
  BY <1>6 DEF Crash
<1>7. CASE Boot
  BY <1>7 DEF Boot, memory, manager
<1>8. CASE Drift
  BY <1>8 DEF Drift, call, memory, manager
<1>9. CASE Heal
  BY <1>9 DEF Heal, call, memory, manager
<1>10. CASE UNCHANGED vars
  BY <1>10 DEF vars, call, memory, manager
<1> QED
  BY <1>1, <1>2, <1>3, <1>4, <1>5, <1>6, <1>7, <1>8, <1>9, <1>10 DEF Next

\* Every step keeps what each step of a call relies on.
LEMMA StepExecutorInv == TypeOK /\ ExecutorInv /\ [Next]_vars => ExecutorInv'
<1> SUFFICES ASSUME TypeOK, ExecutorInv, [Next]_vars PROVE ExecutorInv'
  OBVIOUS
<1> USE FieldsTyped DEF TypeOK, Steps, Ops, ExecutorInv, CallInv, PolicyInv, ForceInv
<1>1. CASE \E c \in Configs : ApplyStart(c)
  BY <1>1 DEF ApplyStart, Enter, memory
<1>2. CASE DisableStart
  BY <1>2 DEF DisableStart, Enter, memory
<1>3. CASE Verify
  BY <1>3 DEF Verify, InForce, Enter, memory, manager
<1>4. CASE App
  BY <1>4 DEF App, ClearStart, ConfigureStart, SelectStart, Enter, memory, manager
<1>5. CASE Step
  <2>1. CASE Quiesce
    BY <2>1 DEF Quiesce, ProxyClosed, ProxyNotClosed, Goto, Failed, Return, manager
  <2>2. CASE TunnelDown
    BY <2>2 DEF TunnelDown, AfterTunnel, Applied, Partial, Failed, Return, Goto, manager
  <2>3. CASE TunnelUp
    BY <2>3 DEF TunnelUp, AfterTunnel, Applied, Partial, Failed, Return, Goto, manager
  <2>4. CASE Rollback
    BY <2>4 DEF Rollback, Partial, Failed, Return
  <2>5. CASE ProxyRefused
    BY <2>5 DEF ProxyRefused, Failed, Return, Goto, memory, manager
  <2>6. CASE ManagedProxy
    BY <2>6 DEF ManagedProxy, Starts, StartFails, Applied, Return, Goto, manager
  <2>7. CASE AppProxy
    BY <2>7 DEF AppProxy, Usable, Applied, Failed, Return, manager
  <2>8. CASE Subscribe
    BY <2>8 DEF Subscribe, Starts, StartFails, Goto, memory, manager
  <2>9. CASE Save
    BY <2>9 DEF Save, Applied, Return, Goto, manager
  <2>10. CASE Recover
    BY <2>10 DEF Recover, ProxyClosed, ProxyNotClosed, Failed, Return
  <2>11. CASE ClearFile
    BY <2>11 DEF ClearFile, memory, manager
  <2>12. CASE ClearProxy
    BY <2>12 DEF ClearProxy, ProxyClosed, ProxyNotClosed, Return, manager
  <2> QED
    BY <1>5, <2>1, <2>2, <2>3, <2>4, <2>5, <2>6, <2>7, <2>8, <2>9, <2>10, <2>11, <2>12 DEF Step
<1>6. CASE Crash
  BY <1>6 DEF Crash
<1>7. CASE Boot
  BY <1>7 DEF Boot, memory, manager
<1>8. CASE Drift
  BY <1>8 DEF Drift, call, memory, manager
<1>9. CASE Heal
  BY <1>9 DEF Heal, call, memory, manager
<1>10. CASE UNCHANGED vars
  BY <1>10 DEF vars, call, memory, manager
<1> QED
  BY <1>1, <1>2, <1>3, <1>4, <1>5, <1>6, <1>7, <1>8, <1>9, <1>10 DEF Next

\* Only the steps of the tunnel touch it, and they come after the proxy closed.
LEMMA TunnelStep == CallInv /\ [Next]_vars => [tunnel' # tunnel /\ pc' # pc /\ "down" \notin {pc, pc'}
                                                  => proxy = None]_tunnel
<1> SUFFICES ASSUME CallInv, [Next]_vars, tunnel' # tunnel, pc' # pc, "down" \notin {pc, pc'}
             PROVE  proxy = None
  OBVIOUS
<1> USE DEF CallInv
<1>1. CASE (\E c \in Configs : ApplyStart(c)) \/ DisableStart \/ Verify \/ App
  BY <1>1 DEF ApplyStart, DisableStart, Verify, App, ClearStart, ConfigureStart, SelectStart
<1>2. CASE Step
  BY <1>2 DEF Step, Quiesce, TunnelDown, TunnelUp, Rollback, ProxyRefused, ManagedProxy,
              AppProxy, Subscribe, Save, Recover, ClearFile, ClearProxy
<1>3. CASE Crash \/ Boot \/ Drift \/ Heal \/ UNCHANGED vars
  BY <1>3 DEF Crash, Boot, Drift, Heal, vars, call
<1> QED
  BY <1>1, <1>2, <1>3 DEF Next

\* A proxy is started with the configuration of the call that runs.
LEMMA ProxyStep == TypeOK /\ CallInv /\ PolicyInv /\ [Next]_vars =>
                       [proxy' # proxy /\ proxy' # None => owed \/ proxy'.config = policy]_proxy
<1> SUFFICES ASSUME TypeOK, CallInv, PolicyInv, [Next]_vars, proxy' # proxy, proxy' # None
             PROVE  owed \/ proxy'.config = policy
  OBVIOUS
<1> USE DEF TypeOK, CallInv, PolicyInv
<1>1. CASE (\E c \in Configs : ApplyStart(c)) \/ DisableStart \/ Verify \/ App
  BY <1>1 DEF ApplyStart, DisableStart, Verify, App, ClearStart, ConfigureStart, SelectStart
<1>2. CASE Step
  <2>1. CASE ManagedProxy \/ Subscribe
    BY <2>1 DEF ManagedProxy, Subscribe, Starts, StartFails
  <2>2. CASE Quiesce \/ Recover \/ ClearProxy
    BY <2>2 DEF Quiesce, Recover, ClearProxy, ProxyClosed, ProxyNotClosed
  <2>3. CASE TunnelDown \/ TunnelUp \/ Rollback \/ ProxyRefused \/ AppProxy \/ Save \/ ClearFile
    BY <2>3 DEF TunnelDown, TunnelUp, Rollback, ProxyRefused, AppProxy, Save, ClearFile
  <2> QED
    BY <1>2, <2>1, <2>2, <2>3 DEF Step
<1>3. CASE Crash \/ Boot \/ Drift \/ Heal \/ UNCHANGED vars
  BY <1>3 DEF Crash, Boot, Drift, Heal, vars
<1> QED
  BY <1>1, <1>2, <1>3 DEF Next

\* The inductive invariant of the data plane holds of every behaviour.
THEOREM ExecutorInvariant == Spec => []TypeOK /\ []ExecutorInv
<1>1. TypeOK /\ ExecutorInv /\ [Next]_vars => (TypeOK /\ ExecutorInv)'
  BY StepTypeOK, StepExecutorInv DEF ExecutorInv
<1> QED
  BY InitExecutorInv, <1>1, PTL DEF Spec

\* While the manager counts a configuration as applied and nothing drifted, that
\* configuration is what is in force (syncConfiguration skips Apply for it).
THEOREM ConfigurationInForce == Spec => []InForceIsAccepted
<1>1. ExecutorInv => InForceIsAccepted
  BY DEF ExecutorInv, CallInv, ForceInv, InForceIsAccepted
<1> QED
  BY ExecutorInvariant, <1>1, PTL

\* The executor changes the tunnel only with the proxy closed (the order of
\* quiesceMihomo and wireGuard.Apply or Disable, and every early return).
THEOREM TunnelQuiet == Spec => TunnelChangesWhenQuiet
<1>1. ExecutorInv /\ [Next]_vars => [tunnel' # tunnel /\ pc' # pc /\ "down" \notin {pc, pc'}
                                         => proxy = None]_tunnel
  BY TunnelStep DEF ExecutorInv
<1> QED
  BY ExecutorInvariant, <1>1, PTL DEF Spec, TunnelChangesWhenQuiet

\* Unless a cleanup is owed, a proxy that starts runs the configuration last
\* given to Apply and not disabled since (appDesired is reset in time).
THEOREM ProxyUnderPolicy == Spec => StartedUnderPolicy
<1>1. TypeOK /\ ExecutorInv /\ [Next]_vars =>
        [proxy' # proxy /\ proxy' # None => owed \/ proxy'.config = policy]_proxy
  BY ProxyStep DEF ExecutorInv
<1> QED
  BY ExecutorInvariant, <1>1, PTL DEF Spec, StartedUnderPolicy

\* Every step of a call keeps cleared profiles out of the proxy and the file.
LEMMA CallStepClearInv == TypeOK /\ CallInv /\ ClearInv /\ Step => ClearInv'
<1> SUFFICES ASSUME TypeOK, CallInv, ClearInv, Step PROVE ClearInv'
  OBVIOUS
<1> USE FieldsTyped DEF TypeOK, CallInv, ClearInv, ClearedStaysCleared, NoFile
<1>1. CASE Quiesce
  BY <1>1 DEF Quiesce, ProxyClosed, ProxyNotClosed, Goto, Failed, Return
<1>2. CASE TunnelDown
  BY <1>2 DEF TunnelDown, AfterTunnel, Applied, Failed, Return, Goto
<1>3. CASE TunnelUp
  BY <1>3 DEF TunnelUp, AfterTunnel, Applied, Failed, Return, Goto
<1>4. CASE Rollback
  BY <1>4 DEF Rollback, Failed, Return
<1>5. CASE ProxyRefused
  BY <1>5 DEF ProxyRefused, Failed, Return, Goto
<1>6. CASE ManagedProxy
  BY <1>6 DEF ManagedProxy, Starts, StartFails, Applied, Return, Goto
<1>7. CASE AppProxy
  BY <1>7 DEF AppProxy, Usable, Applied, Failed, Return
<1>8. CASE Subscribe
  BY <1>8 DEF Subscribe, Starts, StartFails, Goto
<1>9. CASE Save
  BY <1>9 DEF Save, Applied, Return, Goto
<1>10. CASE Recover
  BY <1>10 DEF Recover, ProxyClosed, ProxyNotClosed, Failed, Return
<1>11. CASE ClearFile
  BY <1>11 DEF ClearFile
<1>12. CASE ClearProxy
  BY <1>12 DEF ClearProxy, ProxyClosed, ProxyNotClosed, Return
<1> QED
  BY <1>1, <1>2, <1>3, <1>4, <1>5, <1>6, <1>7, <1>8, <1>9, <1>10, <1>11, <1>12 DEF Step

\* Every step of the user, the manager and the machine does.
LEMMA StepClearInv == TypeOK /\ CallInv /\ ClearInv /\ [Next]_vars => ClearInv'
<1> SUFFICES ASSUME TypeOK, CallInv, ClearInv, [Next]_vars PROVE ClearInv'
  OBVIOUS
<1> USE FieldsTyped DEF TypeOK, CallInv, ClearInv, ClearedStaysCleared, NoFile
<1>1. CASE \E c \in Configs : ApplyStart(c)
  BY <1>1 DEF ApplyStart, Enter
<1>2. CASE DisableStart \/ Verify
  BY <1>2 DEF DisableStart, Verify, Enter
<1>3. CASE App
  BY <1>3 DEF App, ClearStart, ConfigureStart, SelectStart, Usable, Enter
<1>4. CASE Step
  BY <1>4, CallStepClearInv
<1>5. CASE Crash \/ Boot \/ Drift \/ Heal \/ UNCHANGED vars
  BY <1>5 DEF Crash, Boot, Drift, Heal, vars, call
<1> QED
  BY <1>1, <1>2, <1>3, <1>4, <1>5 DEF Next

\* A subscription whose Clear was confirmed stays out of force until the user
\* supplies one again, also when a crash forgets appClearPending (ClearMihomoApp).
THEOREM ClearIsFinal == Spec => []ClearedStaysCleared
<1>1. Init => ClearInv
  BY DEF Init, ClearInv, ClearedStaysCleared, NoFile
<1>2. TypeOK /\ ExecutorInv /\ ClearInv /\ [Next]_vars => ClearInv'
  BY StepClearInv DEF ExecutorInv
<1>3. ClearInv => ClearedStaysCleared
  BY DEF ClearInv
<1> QED
  BY <1>1, <1>2, <1>3, ExecutorInvariant, PTL DEF Spec
=============================================================================
