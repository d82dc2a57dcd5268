------------------------ MODULE EndpointManager_proofs ------------------------
(***************************************************************************)
(* What holds of the endpoint network manager for every set of             *)
(* configurations, sessions and leases.                                    *)
(***************************************************************************)
EXTENDS EndpointManager, TLAPS

-----------------------------------------------------------------------------
(***************************************************************************)
(* Types of the operators the actions are built from                       *)
(***************************************************************************)
\* A configuration carries versions the code compares and the leases it uses.
LEMMA ConfigTyped ==
    ASSUME NEW c \in Configs
    PROVE  /\ c.version \in Nat /\ c.policy \in Nat
           /\ c.leases \in SUBSET Leases
           /\ c.wireGuard \in BOOLEAN /\ c.mihomo \in BOOLEAN
BY ConfigsAssumption DEF ConfigurationDesired

\* None is no configuration, no session and no owed cleanup.
LEMMA NoneApart ==
    /\ \A c \in Configs : c # None
    /\ \A s \in Sessions : s # None
    /\ \A p \in Pending : p # None
BY NoneAssumption DEF Pending

\* The local variables an operation starts with, and those of a cleanup, are typed.
LEMMA TaskTyped ==
    /\ NoTask \in Task
    /\ \A then \in {"idle", "down", "enforce", "begin"}, reject \in Diagnostics :
          CleanupTask(then, reject) \in Task
BY DEF NoTask, CleanupTask, Task, Diagnostics

\* The reported status keeps its type when a configuration takes over or fails.
LEMMA StatusTyped ==
    /\ Disconnected \in Status
    /\ \A s \in Status, c \in Configs : ApplyDesiredStatus(s, c) \in Status
    /\ \A s \in Status, d \in Diagnostics : Degrade(s, d) \in Status
<1>1. Disconnected \in Status
  BY DEF Disconnected, Status, States, Diagnostics
<1>2. ASSUME NEW s \in Status, NEW c \in Configs
      PROVE  ApplyDesiredStatus(s, c) \in Status
  BY ConfigTyped DEF ApplyDesiredStatus, Status, States, Diagnostics
<1>3. ASSUME NEW s \in Status, NEW d \in Diagnostics
      PROVE  Degrade(s, d) \in Status
  BY DEF Degrade, Status, States, Diagnostics
<1> QED
  BY <1>1, <1>2, <1>3

\* A configuration floor that was never written is a floor.
LEMMA FloorTyped == EmptyFloor \in Floor
BY DEF EmptyFloor, Floor

-----------------------------------------------------------------------------
(***************************************************************************)
(* Type correctness                                                        *)
(***************************************************************************)
\* A new manager, on a machine where nothing is in force, is well typed.
LEMMA InitTyped == Init => TypeOK
<1> SUFFICES ASSUME Init PROVE TypeOK
  OBVIOUS
<1>1. pc \in Steps /\ sessionUntil \in Deadlines
  BY DEF Init, Steps, Deadlines
<1>2. task \in Task /\ status \in Status /\ floor \in Floor /\ disk \in Floor
  BY StatusTyped, TaskTyped, FloorTyped DEF Init
<1>3. applied \in [version: Nat, hash: Configs \cup {None}]
  BY DEF Init, NotApplied
<1>4. live \in [Sessions -> SUBSET Leases]
  BY DEF Init
<1> QED
  BY <1>1, <1>2, <1>3, <1>4 DEF Init, TypeOK

\* disconnectLocked and the ways in which an operation ends.
LEMMA FlowTyped ==
    ASSUME TypeOK,
           \/ Done \/ Fail \/ Succeed
           \/ \E d \in Diagnostics : Reject(d)
           \/ \E then \in {"idle", "down", "enforce", "begin"}, d \in Diagnostics :
                 StartCleanup(then, d)
    PROVE  pc' \in Steps /\ task' \in Task
BY TaskTyped DEF TypeOK, Done, Fail, Succeed, Reject, StartCleanup, Steps,
                 CleanupSteps, Task, Diagnostics

\* Recording and discharging an owed cleanup keeps memory and file typed.
LEMMA CleanupTyped ==
    ASSUME TypeOK, NEW saved \in BOOLEAN, BeginCleanup(saved) \/ FinishCleanup(saved)
    PROVE  floor' \in Floor /\ disk' \in Floor
BY DEF TypeOK, BeginCleanup, FinishCleanup, Floor, Pending, Owing, Status

\* A revocation, answered or not, leaves every session with a set of leases.
LEMMA RevokeTyped ==
    ASSUME TypeOK, NEW ok \in BOOLEAN, Revoke(ok)
    PROVE  live' \in [Sessions -> SUBSET Leases]
BY DEF TypeOK, Revoke

\* What restoreConfigurationFloor makes of a file is a well-typed manager.
LEMMA LoadTyped ==
    ASSUME NEW file \in Floor, Load(file)
    PROVE  /\ floor' \in Floor /\ status' \in Status /\ leaseIDs' \in SUBSET Leases
           /\ cleanup' \in BOOLEAN /\ sessionUntil' \in Deadlines
           /\ applied' \in [version: Nat, hash: Configs \cup {None}]
           /\ disabled' \in BOOLEAN
BY StatusTyped DEF Load, Floor, Pending, Deadlines, NotApplied, Status, States,
   Diagnostics, Degrade, Disconnected

\* A process that stops or crashes leaves well-typed state behind.
LEMMA StopTyped == TypeOK /\ Stop => TypeOK'
BY LoadTyped, TaskTyped, FloorTyped DEF Stop, TypeOK, Steps

\* What a configuration puts in force is that configuration or nothing.
LEMMA PlaneTyped == \A c \in Configs : PlaneOf(c) \in Configs \cup {None}
BY DEF PlaneOf

\* Every step of the manager and of its environment keeps the types.
LEMMA StepTyped == TypeOK /\ GuardInv /\ [Next]_vars => TypeOK'
<1> SUFFICES ASSUME TypeOK, GuardInv, [Next]_vars
             PROVE  TypeOK'
  OBVIOUS
<1>1. ASSUME NEW managed \in BOOLEAN, ConnectStart(managed)
      PROVE  TypeOK'
  <2>1. pc' \in Steps
    BY <1>1 DEF ConnectStart, Steps, ConnectSteps
  <2>2. task' \in Task
    BY <1>1, TaskTyped DEF ConnectStart, Task
  <2>3. status' \in Status
    BY <1>1 DEF ConnectStart, TypeOK, Status, States, Diagnostics
  <2> QED
    BY <1>1, <2>1, <2>2, <2>3 DEF ConnectStart, TypeOK, external
<1>2. CASE Prepare
  BY <1>2, FlowTyped
     DEF Prepare, ConnectFails, Steps, ConnectSteps, Status, States, Diagnostics, TypeOK,
         volatile, external
<1>3. CASE Probe
  BY <1>3, FlowTyped
     DEF Probe, ConnectFails, Steps, ConnectSteps, Status, States, Diagnostics, TypeOK,
         volatile, external
<1>4. CASE RequestRefused
  BY <1>4, FlowTyped
     DEF RequestRefused, ConnectFails, Status, States, Diagnostics, TypeOK, volatile,
         external
<1>5. CASE RequestLost
  <2>1. used' \in SUBSET Sessions /\ live' \in [Sessions -> SUBSET Leases]
    BY <1>5, GrantsAssumption DEF RequestLost, Grant, TypeOK
  <2>2. status' \in Status
    BY <1>5 DEF RequestLost, ConnectFails, TypeOK, Status, States, Diagnostics
  <2>3. pc' \in Steps /\ task' \in Task
    BY <1>5, FlowTyped DEF RequestLost, ConnectFails
  <2> QED
    BY <1>5, <2>1, <2>2, <2>3 DEF RequestLost, ConnectFails, TypeOK
<1>6. CASE RequestGranted
  <2>1. used' \in SUBSET Sessions /\ live' \in [Sessions -> SUBSET Leases]
    BY <1>6, GrantsAssumption DEF RequestGranted, Grant, TypeOK
  <2>2. status' \in Status
    BY <1>6, ConfigTyped DEF RequestGranted, TypeOK, Status
  <2>3. leaseIDs' \in SUBSET Leases
    BY <1>6, GrantsAssumption DEF RequestGranted
  <2>4. pc' \in Steps /\ sessionUntil' \in Deadlines
    BY <1>6 DEF RequestGranted, Steps, SyncSteps, Deadlines
  <2> QED
    BY <1>6, <2>1, <2>2, <2>3, <2>4 DEF RequestGranted, TypeOK
<1>7. CASE CycleStart
  BY <1>7, TaskTyped
     DEF CycleStart, Steps, SyncSteps, CleanupSteps, TypeOK, volatile, external
<1>8. CASE DisconnectStart
  BY <1>8, TaskTyped DEF DisconnectStart, Steps, CleanupSteps, TypeOK, volatile, external
<1>9. CASE ShutdownStart
  BY <1>9, TaskTyped
     DEF ShutdownStart, Steps, CleanupSteps, Diagnostics, TypeOK, volatile, external
<1>10. CASE RenewFails
  BY <1>10, FlowTyped, StatusTyped, GrantsAssumption
     DEF RenewFails, Diagnostics, TypeOK, volatile, external
<1>11. CASE RenewRevoked
  BY <1>11, FlowTyped DEF RenewRevoked, Diagnostics, TypeOK, volatile, external
<1>12. CASE Renewed
  <2>1. leaseIDs' \in SUBSET Leases /\ live' \in [Sessions -> SUBSET Leases]
    BY <1>12, GrantsAssumption, ZenonT(30) DEF Renewed, TypeOK
  <2>2. pc' \in Steps /\ sessionUntil' \in Deadlines
    BY <1>12 DEF Renewed, Steps, SyncSteps, Deadlines
  <2> QED
    BY <1>12, <2>1, <2>2 DEF Renewed, TypeOK
<1>13. CASE Health
  <2>1. (\E d \in Diagnostics : Reject(d)) \/ (pc' = "enforce" /\ task' = NoTask)
    BY <1>13 DEF Health, Diagnostics
  <2>2. pc' \in Steps /\ task' \in Task
    BY <2>1, FlowTyped, TaskTyped DEF Steps
  <2> QED
    BY <1>13, <2>2 DEF Health, TypeOK, volatile, external
<1>14. CASE EnforceExpiry
  BY <1>14, FlowTyped DEF EnforceExpiry, Diagnostics, TypeOK, volatile, external
<1>15. CASE PollFails
  BY <1>15, FlowTyped, StatusTyped DEF PollFails, Diagnostics, TypeOK, volatile, external
<1>16. CASE Poll
  BY <1>16 DEF Poll, Steps, SyncSteps, Task, TypeOK, volatile, external
<1>17. CASE RememberRefused
  BY <1>17, FlowTyped DEF RememberRefused, Diagnostics, TypeOK, volatile, external
<1>18. CASE Remember
  BY <1>18 DEF Remember, Recorded, Steps, SyncSteps, Floor, Task, TypeOK, volatile, external
<1>19. CASE CheckRejects
  BY <1>19, FlowTyped DEF CheckRejects, Diagnostics, TypeOK, volatile, external
<1>20. CASE CheckFails
  BY <1>20, FlowTyped, StatusTyped DEF CheckFails, Diagnostics, TypeOK, volatile, external
<1>21. CASE CheckPasses
  BY <1>21
     DEF CheckPasses, ManagedConfigurationRevoked, Steps, SyncSteps, Task, TypeOK,
         volatile, external
<1>22. CASE Verified
  <2>1. status' \in Status
    BY <1>22, StatusTyped DEF Verified, TypeOK, GuardInv, SyncSteps
  <2>2. pc' \in Steps /\ task' \in Task
    BY <1>22, FlowTyped DEF Verified
  <2> QED
    BY <1>22, <2>1, <2>2 DEF Verified, TypeOK, external
<1>23. CASE Drifted
  BY <1>23, FlowTyped, StatusTyped DEF Drifted, Diagnostics, TypeOK, volatile, external
<1>24. CASE RecordRevocation
  BY <1>24, FlowTyped, CleanupTyped
     DEF RecordRevocation, Steps, SyncSteps, Diagnostics, TypeOK, volatile, external
<1>25. CASE ApplySucceeds
  <2>1. plane' \in Configs \cup {None}
    BY <1>25, PlaneTyped DEF ApplySucceeds, GuardInv, SyncSteps
  <2> QED
    BY <1>25, <2>1 DEF ApplySucceeds, TypeOK, volatile, Steps, SyncSteps
<1>26. CASE ApplyFails
  <2>1. plane' \in Configs \cup {None}
    BY <1>26, PlaneTyped DEF ApplyFails, TypeOK, GuardInv, SyncSteps
  <2>2. status' \in Status
    BY <1>26, StatusTyped DEF ApplyFails, TypeOK, Diagnostics
  <2>3. pc' \in Steps /\ task' \in Task
    BY <1>26, FlowTyped DEF ApplyFails, Diagnostics
  <2> QED
    BY <1>26, <2>1, <2>2, <2>3 DEF ApplyFails, TypeOK
<1>27. CASE Report
  BY <1>27 DEF Report, Steps, SyncSteps, Task, TypeOK, volatile, external
<1>28. CASE RevokeSession
  BY <1>28, RevokeTyped
     DEF RevokeSession, Steps, SyncSteps, Task, TypeOK, volatile, external
<1>29. CASE FinishRevocation
  BY <1>29, CleanupTyped
     DEF FinishRevocation, Steps, SyncSteps, Task, TypeOK, volatile, external
<1>30. CASE Commit
  <2>1. task.config \in Configs
    BY <1>30 DEF Commit, GuardInv, SyncSteps
  <2>2. status' \in Status
    <3> DEFINE desired == ApplyDesiredStatus(status, task.config)
               revokeErr == task.remoteErr \/ task.stateErr
               settled == CASE revokeErr -> Degrade(desired, "other")
                            [] ~revokeErr /\ task.revoking ->
                                  [desired EXCEPT !.session = None, !.diagnostic = "other"]
                            [] OTHER -> desired
    <3>1. desired \in Status
      BY <2>1, StatusTyped DEF TypeOK
    <3>2. settled \in Status
      BY <3>1, StatusTyped DEF Status, Diagnostics
    <3>3. status' = IF task.reportErr THEN Degrade(settled, "other") ELSE settled
      BY <1>30 DEF Commit
    <3> QED
      BY <3>2, <3>3, StatusTyped DEF Diagnostics
  <2>3. applied' \in [version: Nat, hash: Configs \cup {None}]
    BY <1>30, <2>1, ConfigTyped DEF Commit
  <2>4. disabled' \in BOOLEAN /\ cleanup' \in BOOLEAN
    BY <1>30 DEF Commit, Closes, TypeOK
  <2>5. leaseIDs' \in SUBSET Leases /\ sessionUntil' \in Deadlines
    BY <1>30, <2>1, ConfigTyped DEF Commit, TypeOK, Deadlines
  <2>6. pc' \in Steps /\ task' \in Task
    BY <1>30, FlowTyped DEF Commit
  <2> QED
    BY <1>30, <2>2, <2>3, <2>4, <2>5, <2>6 DEF Commit, TypeOK, external
<1>31. CASE Begin
  BY <1>31, CleanupTyped DEF Begin, Steps, CleanupSteps, Task, TypeOK, volatile, external
<1>32. CASE Disable
  BY <1>32 DEF Disable, Steps, CleanupSteps, Task, TypeOK, volatile, external
<1>33. CASE RevokeLeases
  BY <1>33, RevokeTyped
     DEF RevokeLeases, Steps, CleanupSteps, Task, TypeOK, volatile, external
<1>34. CASE Finish
  BY <1>34, CleanupTyped DEF Finish, Steps, CleanupSteps, Task, TypeOK, volatile, external
<1>35. CASE Settle
  <2>1. status' \in Status
    BY <1>35, StatusTyped DEF Settle, TypeOK, Task, Diagnostics
  <2>2. pc' \in Steps
    BY <1>35 DEF Settle, TypeOK, Task, Steps, CleanupSteps
  <2>3. task' \in Task
    BY <1>35, TaskTyped DEF Settle, Task
  <2>4. leaseIDs' \in SUBSET Leases /\ sessionUntil' \in Deadlines
    BY <1>35 DEF Settle, TypeOK, Deadlines
  <2>5. applied' \in [version: Nat, hash: Configs \cup {None}]
    BY <1>35 DEF Settle, TypeOK
  <2>6. disabled' \in BOOLEAN /\ cleanup' \in BOOLEAN
    BY <1>35 DEF Settle, Incomplete, TypeOK, Task
  <2> QED
    BY <1>35, <2>1, <2>2, <2>3, <2>4, <2>5, <2>6 DEF Settle, TypeOK, external
<1>36. CASE Exit
  BY <1>36, StopTyped DEF Exit
<1>37. CASE Crash
  BY <1>37, StopTyped DEF Crash
<1>38. CASE Boot
  BY <1>38, LoadTyped, TaskTyped DEF Boot, TypeOK, Steps
<1>39. CASE Lapse
  <2>1. sessionUntil' \in Deadlines /\ lapsed' \in SUBSET Configs
    <3>1. \A c \in {status.until, task.config, plane} \ (lapsed \cup {None}) : c \in Configs
      BY DEF TypeOK, Status, Task
    <3> QED
      BY <1>39, <3>1 DEF Lapse, TypeOK, Deadlines
  <2> QED
    BY <1>39, <2>1 DEF Lapse, TypeOK
<1>40. CASE Drift
  BY <1>40 DEF Drift, TypeOK, volatile, external
<1>41. CASE Heal
  BY <1>41 DEF Heal, TypeOK, volatile, external
<1>42. CASE UNCHANGED vars
  BY <1>42 DEF vars, TypeOK, volatile, external
<1> QED
  BY <1>1, <1>2, <1>3, <1>4, <1>5, <1>6, <1>7, <1>8, <1>9, <1>10, <1>11, <1>12, <1>13,
     <1>14, <1>15, <1>16, <1>17, <1>18, <1>19, <1>20, <1>21, <1>22, <1>23, <1>24, <1>25,
     <1>26, <1>27, <1>28, <1>29, <1>30, <1>31, <1>32, <1>33, <1>34, <1>35, <1>36, <1>37,
     <1>38, <1>39, <1>40, <1>41, <1>42
     DEF Next, Step, ConnectStep, CycleStep, SyncStep, CleanupStep

-----------------------------------------------------------------------------
(***************************************************************************)
(* The cleanup invariant                                                   *)
(***************************************************************************)
\* Memory and the protected file agree on the owed cleanup after every step.
LEMMA MemoryStep == TypeOK /\ MemoryInv /\ PendingInv /\ [Next]_vars => MemoryInv'
<1> SUFFICES ASSUME TypeOK, MemoryInv, PendingInv, [Next]_vars
             PROVE  MemoryInv'
  OBVIOUS
<1> USE NoneApart
   DEF TypeOK, MemoryInv, PendingInv, Owing, Floor, Status, Pending, volatile, external
<1> USE DEF Done, Fail, Reject, Succeed, StartCleanup, CleanupTask, NoTask, Degrade
<1>1. ASSUME NEW managed \in BOOLEAN, ConnectStart(managed)
      PROVE  MemoryInv'
  BY <1>1 DEF ConnectStart
<1>2. CASE Prepare
  BY <1>2 DEF Prepare, ConnectFails
<1>3. CASE Probe
  BY <1>3 DEF Probe, ConnectFails
<1>4. CASE RequestRefused
  BY <1>4 DEF RequestRefused, ConnectFails
<1>5. CASE RequestLost
  BY <1>5 DEF RequestLost, Grant, ConnectFails
<1>6. CASE RequestGranted
  BY <1>6 DEF RequestGranted, Grant
<1>7. CASE CycleStart
  BY <1>7 DEF CycleStart
<1>8. CASE DisconnectStart
  BY <1>8 DEF DisconnectStart
<1>9. CASE ShutdownStart
  BY <1>9 DEF ShutdownStart
<1>10. CASE RenewFails
  BY <1>10 DEF RenewFails
<1>11. CASE RenewRevoked
  BY <1>11 DEF RenewRevoked
<1>12. CASE Renewed
  BY <1>12 DEF Renewed
<1>13. CASE Health
  BY <1>13 DEF Health
<1>14. CASE EnforceExpiry
  BY <1>14 DEF EnforceExpiry
<1>15. CASE PollFails
  BY <1>15 DEF PollFails
<1>16. CASE Poll
  BY <1>16 DEF Poll
<1>17. CASE RememberRefused
  BY <1>17 DEF RememberRefused
<1>18. CASE Remember
  BY <1>18 DEF Remember, Regressed, Recorded
<1>19. CASE CheckRejects
  BY <1>19 DEF CheckRejects
<1>20. CASE CheckFails
  BY <1>20 DEF CheckFails
<1>21. CASE CheckPasses
  BY <1>21 DEF CheckPasses, ManagedConfigurationRevoked
<1>22. CASE Verified
  BY <1>22 DEF Verified, ApplyDesiredStatus
<1>23. CASE Drifted
  BY <1>23 DEF Drifted
<1>24. CASE RecordRevocation
  BY <1>24 DEF RecordRevocation, BeginCleanup
<1>25. CASE ApplySucceeds
  BY <1>25 DEF ApplySucceeds
<1>26. CASE ApplyFails
  BY <1>26 DEF ApplyFails
<1>27. CASE Report
  BY <1>27 DEF Report
<1>28. CASE RevokeSession
  BY <1>28 DEF RevokeSession, Revoke
<1>29. CASE FinishRevocation
  BY <1>29 DEF FinishRevocation, FinishCleanup
<1>30. CASE Commit
  BY <1>30 DEF Commit, ApplyDesiredStatus
<1>31. CASE Begin
  BY <1>31 DEF Begin, BeginCleanup
<1>32. CASE Disable
  BY <1>32 DEF Disable
<1>33. CASE RevokeLeases
  BY <1>33 DEF RevokeLeases, Revoke
<1>34. CASE Finish
  BY <1>34 DEF Finish, FinishCleanup
<1>35. CASE Settle
  BY <1>35 DEF Settle, Disconnected
<1>36. CASE Exit
  BY <1>36 DEF Exit, Stop, Load, EmptyFloor, Disconnected
<1>37. CASE Crash
  BY <1>37 DEF Crash, Stop, Load, EmptyFloor, Disconnected
<1>38. CASE Boot
  BY <1>38 DEF Boot, Load, EmptyFloor, Disconnected
<1>39. CASE Lapse \/ Drift \/ Heal \/ UNCHANGED vars
  BY <1>39 DEF Lapse, Drift, Heal, vars
<1> QED
  BY <1>1, <1>2, <1>3, <1>4, <1>5, <1>6, <1>7, <1>8, <1>9, <1>10, <1>11, <1>12, <1>13,
     <1>14, <1>15, <1>16, <1>17, <1>18, <1>19, <1>20, <1>21, <1>22, <1>23, <1>24, <1>25,
     <1>26, <1>27, <1>28, <1>29, <1>30, <1>31, <1>32, <1>33, <1>34, <1>35, <1>36, <1>37,
     <1>38, <1>39
     DEF Next, Step, ConnectStep, CycleStep, SyncStep, CleanupStep

\* A recorded cleanup stays known to the operation that runs, after every step.
LEMMA PendingStep == TypeOK /\ CleanupInv /\ [Next]_vars => PendingInv'
<1> SUFFICES ASSUME TypeOK, CleanupInv, [Next]_vars
             PROVE  PendingInv'
  OBVIOUS
<1> USE NoneApart
   DEF CleanupInv, TypeOK, MemoryInv, PendingInv, GuardInv, Owing, Incomplete, Floor,
       Status, Pending, Task, ConnectSteps, volatile, external
<1> USE DEF Done, Fail, Reject, Succeed, StartCleanup, CleanupTask, NoTask, Degrade
<1>1. ASSUME NEW managed \in BOOLEAN, ConnectStart(managed)
      PROVE  PendingInv'
  BY <1>1 DEF ConnectStart
<1>2. CASE Prepare
  BY <1>2 DEF Prepare, ConnectFails
<1>3. CASE Probe
  BY <1>3 DEF Probe, ConnectFails
<1>4. CASE RequestRefused
  BY <1>4 DEF RequestRefused, ConnectFails
<1>5. CASE RequestLost
  BY <1>5 DEF RequestLost, Grant, ConnectFails
<1>6. CASE RequestGranted
  BY <1>6 DEF RequestGranted, Grant
<1>7. CASE CycleStart
  BY <1>7 DEF CycleStart
<1>8. CASE DisconnectStart
  BY <1>8 DEF DisconnectStart
<1>9. CASE ShutdownStart
  BY <1>9 DEF ShutdownStart
<1>10. CASE RenewFails
  BY <1>10 DEF RenewFails
<1>11. CASE RenewRevoked
  BY <1>11 DEF RenewRevoked
<1>12. CASE Renewed
  BY <1>12 DEF Renewed
<1>13. CASE Health
  BY <1>13 DEF Health
<1>14. CASE EnforceExpiry
  BY <1>14 DEF EnforceExpiry
<1>15. CASE PollFails
  BY <1>15 DEF PollFails
<1>16. CASE Poll
  BY <1>16 DEF Poll
<1>17. CASE RememberRefused
  BY <1>17 DEF RememberRefused
<1>18. CASE Remember
  BY <1>18 DEF Remember, Regressed, Recorded
<1>19. CASE CheckRejects
  BY <1>19 DEF CheckRejects
<1>20. CASE CheckFails
  BY <1>20 DEF CheckFails
<1>21. CASE CheckPasses
  BY <1>21 DEF CheckPasses, ManagedConfigurationRevoked
<1>22. CASE Verified
  BY <1>22 DEF Verified, ApplyDesiredStatus
<1>23. CASE Drifted
  BY <1>23 DEF Drifted
<1>24. CASE RecordRevocation
  BY <1>24 DEF RecordRevocation, BeginCleanup
<1>25. CASE ApplySucceeds
  BY <1>25 DEF ApplySucceeds
<1>26. CASE ApplyFails
  BY <1>26 DEF ApplyFails
<1>27. CASE Report
  BY <1>27 DEF Report
<1>28. CASE RevokeSession
  BY <1>28 DEF RevokeSession, Revoke
<1>29. CASE FinishRevocation
  BY <1>29 DEF FinishRevocation, FinishCleanup
<1>30. CASE Commit
  BY <1>30 DEF Commit, ApplyDesiredStatus
<1>31. CASE Begin
  BY <1>31 DEF Begin, BeginCleanup
<1>32. CASE Disable
  BY <1>32 DEF Disable
<1>33. CASE RevokeLeases
  BY <1>33 DEF RevokeLeases, Revoke
<1>34. CASE Finish
  BY <1>34, ZenonT(30) DEF Finish, FinishCleanup
<1>35. CASE Settle
  BY <1>35 DEF Settle, Disconnected
<1>36. CASE Exit
  BY <1>36 DEF Exit, Stop, Load, EmptyFloor, Disconnected
<1>37. CASE Crash
  BY <1>37 DEF Crash, Stop, Load, EmptyFloor, Disconnected
<1>38. CASE Boot
  BY <1>38 DEF Boot, Load, EmptyFloor, Disconnected
<1>39. CASE Lapse \/ Drift \/ Heal \/ UNCHANGED vars
  BY <1>39 DEF Lapse, Drift, Heal, vars
<1> QED
  BY <1>1, <1>2, <1>3, <1>4, <1>5, <1>6, <1>7, <1>8, <1>9, <1>10, <1>11, <1>12, <1>13,
     <1>14, <1>15, <1>16, <1>17, <1>18, <1>19, <1>20, <1>21, <1>22, <1>23, <1>24, <1>25,
     <1>26, <1>27, <1>28, <1>29, <1>30, <1>31, <1>32, <1>33, <1>34, <1>35, <1>36, <1>37,
     <1>38, <1>39
     DEF Next, Step, ConnectStep, CycleStep, SyncStep, CleanupStep

\* No operation gets past the check of cleanupReason while a cleanup is owed.
LEMMA GuardStep == TypeOK /\ GuardInv /\ [Next]_vars => GuardInv'
<1> SUFFICES ASSUME TypeOK, GuardInv, [Next]_vars
             PROVE  GuardInv'
  OBVIOUS
<1> USE NoneApart
   DEF TypeOK, GuardInv, Active, ConnectSteps, SyncSteps, Status, Task, volatile, external
<1> USE DEF Done, Fail, Reject, Succeed, StartCleanup, CleanupTask, NoTask, Degrade
<1>1. ASSUME NEW managed \in BOOLEAN, ConnectStart(managed)
      PROVE  GuardInv'
  BY <1>1 DEF ConnectStart
<1>2. CASE Prepare
  BY <1>2 DEF Prepare, ConnectFails
<1>3. CASE Probe
  BY <1>3 DEF Probe, ConnectFails
<1>4. CASE RequestRefused
  BY <1>4 DEF RequestRefused, ConnectFails
<1>5. CASE RequestLost
  BY <1>5 DEF RequestLost, Grant, ConnectFails
<1>6. CASE RequestGranted
  BY <1>6 DEF RequestGranted, Grant
<1>7. CASE CycleStart
  BY <1>7 DEF CycleStart
<1>8. CASE DisconnectStart
  BY <1>8 DEF DisconnectStart
<1>9. CASE ShutdownStart
  BY <1>9 DEF ShutdownStart
<1>10. CASE RenewFails
  BY <1>10 DEF RenewFails
<1>11. CASE RenewRevoked
  BY <1>11 DEF RenewRevoked
<1>12. CASE Renewed
  BY <1>12 DEF Renewed
<1>13. CASE Health
  BY <1>13 DEF Health
<1>14. CASE EnforceExpiry
  BY <1>14 DEF EnforceExpiry
<1>15. CASE PollFails
  BY <1>15 DEF PollFails
<1>16. CASE Poll
  BY <1>16 DEF Poll
<1>17. CASE RememberRefused
  BY <1>17 DEF RememberRefused
<1>18. CASE Remember
  BY <1>18 DEF Remember, Regressed, Recorded
<1>19. CASE CheckRejects
  BY <1>19 DEF CheckRejects
<1>20. CASE CheckFails
  BY <1>20 DEF CheckFails
<1>21. CASE CheckPasses
  BY <1>21 DEF CheckPasses, ManagedConfigurationRevoked
<1>22. CASE Verified
  BY <1>22 DEF Verified, ApplyDesiredStatus
<1>23. CASE Drifted
  BY <1>23 DEF Drifted
<1>24. CASE RecordRevocation
  BY <1>24 DEF RecordRevocation, BeginCleanup
<1>25. CASE ApplySucceeds
  BY <1>25 DEF ApplySucceeds
<1>26. CASE ApplyFails
  BY <1>26 DEF ApplyFails
<1>27. CASE Report
  BY <1>27 DEF Report
<1>28. CASE RevokeSession
  BY <1>28 DEF RevokeSession, Revoke
<1>29. CASE FinishRevocation
  BY <1>29 DEF FinishRevocation, FinishCleanup
<1>30. CASE Commit
  BY <1>30 DEF Commit, ApplyDesiredStatus
<1>31. CASE Begin
  BY <1>31 DEF Begin, BeginCleanup
<1>32. CASE Disable
  BY <1>32 DEF Disable
<1>33. CASE RevokeLeases
  BY <1>33 DEF RevokeLeases, Revoke
<1>34. CASE Finish
  BY <1>34 DEF Finish, FinishCleanup
<1>35. CASE Settle
  BY <1>35 DEF Settle, Disconnected
<1>36. CASE Exit
  BY <1>36 DEF Exit, Stop, Load, EmptyFloor, Disconnected
<1>37. CASE Crash
  BY <1>37 DEF Crash, Stop, Load, EmptyFloor, Disconnected
<1>38. CASE Boot
  BY <1>38 DEF Boot, Load, EmptyFloor, Disconnected
<1>39. CASE Lapse \/ Drift \/ Heal \/ UNCHANGED vars
  BY <1>39 DEF Lapse, Drift, Heal, vars
<1> QED
  BY <1>1, <1>2, <1>3, <1>4, <1>5, <1>6, <1>7, <1>8, <1>9, <1>10, <1>11, <1>12, <1>13,
     <1>14, <1>15, <1>16, <1>17, <1>18, <1>19, <1>20, <1>21, <1>22, <1>23, <1>24, <1>25,
     <1>26, <1>27, <1>28, <1>29, <1>30, <1>31, <1>32, <1>33, <1>34, <1>35, <1>36, <1>37,
     <1>38, <1>39
     DEF Next, Step, ConnectStep, CycleStep, SyncStep, CleanupStep

\* A confirmed revocation is what lets the session go, after every step.
LEMMA RevokedStep == TypeOK /\ CleanupInv /\ [Next]_vars => RevokedInv'
<1> SUFFICES ASSUME TypeOK, CleanupInv, [Next]_vars
             PROVE  RevokedInv'
  OBVIOUS
<1> USE NoneApart
   DEF CleanupInv, TypeOK, MemoryInv, PendingInv, GuardInv, RevokedInv, Revoked, Owing,
       Incomplete, Floor, Status, Pending, Task, ConnectSteps, SyncSteps, volatile,
       external
<1> USE DEF Done, Fail, Reject, Succeed, StartCleanup, CleanupTask, NoTask, Degrade
<1>1. ASSUME NEW managed \in BOOLEAN, ConnectStart(managed)
      PROVE  RevokedInv'
  BY <1>1 DEF ConnectStart
<1>2. CASE Prepare
  BY <1>2 DEF Prepare, ConnectFails
<1>3. CASE Probe
  BY <1>3 DEF Probe, ConnectFails
<1>4. CASE RequestRefused
  BY <1>4 DEF RequestRefused, ConnectFails
<1>5. CASE RequestLost
  BY <1>5 DEF RequestLost, Grant, ConnectFails
<1>6. CASE RequestGranted
  BY <1>6 DEF RequestGranted, Grant
<1>7. CASE CycleStart
  BY <1>7 DEF CycleStart
<1>8. CASE DisconnectStart
  BY <1>8 DEF DisconnectStart
<1>9. CASE ShutdownStart
  BY <1>9 DEF ShutdownStart
<1>10. CASE RenewFails
  BY <1>10 DEF RenewFails
<1>11. CASE RenewRevoked
  BY <1>11 DEF RenewRevoked
<1>12. CASE Renewed
  BY <1>12 DEF Renewed
<1>13. CASE Health
  BY <1>13 DEF Health
<1>14. CASE EnforceExpiry
  BY <1>14 DEF EnforceExpiry
<1>15. CASE PollFails
  BY <1>15 DEF PollFails
<1>16. CASE Poll
  BY <1>16 DEF Poll
<1>17. CASE RememberRefused
  BY <1>17 DEF RememberRefused
<1>18. CASE Remember
  BY <1>18 DEF Remember, Regressed, Recorded
<1>19. CASE CheckRejects
  BY <1>19 DEF CheckRejects
<1>20. CASE CheckFails
  BY <1>20 DEF CheckFails
<1>21. CASE CheckPasses
  BY <1>21 DEF CheckPasses, ManagedConfigurationRevoked
<1>22. CASE Verified
  BY <1>22 DEF Verified, ApplyDesiredStatus
<1>23. CASE Drifted
  BY <1>23 DEF Drifted
<1>24. CASE RecordRevocation
  BY <1>24 DEF RecordRevocation, BeginCleanup
<1>25. CASE ApplySucceeds
  BY <1>25 DEF ApplySucceeds
<1>26. CASE ApplyFails
  BY <1>26 DEF ApplyFails
<1>27. CASE Report
  BY <1>27 DEF Report
<1>28. CASE RevokeSession
  BY <1>28 DEF RevokeSession, Revoke
<1>29. CASE FinishRevocation
  BY <1>29 DEF FinishRevocation, FinishCleanup
<1>30. CASE Commit
  BY <1>30 DEF Commit, ApplyDesiredStatus
<1>31. CASE Begin
  <2>1. pc' = "disable" /\ UNCHANGED <<status, leaseIDs, cleanup>>
    BY <1>31 DEF Begin
  <2>2. PICK saved \in BOOLEAN : /\ BeginCleanup(saved)
                                 /\ task' = [task EXCEPT !.stateErr = ~saved]
    BY <1>31 DEF Begin
  <2>3. CASE saved /\ Owing
    <3>1. [session |-> status.session, leases |-> leaseIDs] # None
      BY <2>3, NoneApart DEF Owing, Pending, TypeOK, Status
    <3>2. disk'.pending # None
      BY <2>2, <2>3, <3>1 DEF BeginCleanup, TypeOK, Floor
    <3> QED
      BY <2>1, <3>2 DEF RevokedInv
  <2>4. CASE ~saved
    BY <2>1, <2>2, <2>4 DEF RevokedInv, TypeOK, Task
  <2>5. CASE ~Owing
    BY <2>1, <2>5 DEF RevokedInv, Owing
  <2> QED
    BY <2>3, <2>4, <2>5
<1>32. CASE Disable
  BY <1>32 DEF Disable
<1>33. CASE RevokeLeases
  <2>1. UNCHANGED <<status, leaseIDs, disk>>
    BY <1>33 DEF RevokeLeases, volatile
  <2>2. PICK ok \in BOOLEAN : /\ Revoke(ok)
                              /\ task' = [task EXCEPT !.remoteErr = ~ok]
                              /\ pc' = IF ok /\ ~task.localErr THEN "finish" ELSE "settle"
    BY <1>33 DEF RevokeLeases
  <2>3. task'.remoteErr = ~ok /\ task'.localErr = task.localErr /\ task'.stateErr = task.stateErr
    BY <2>2 DEF TypeOK, Task
  <2>4. ASSUME ok, Owing
        PROVE  Revoked'
    BY <2>1, <2>2, <2>4 DEF Revoke, Revoked, Owing, TypeOK, Status
  <2>5. Owing => task'.stateErr \/ disk'.pending # None
    BY <1>33, <2>1, <2>3 DEF RevokeLeases, CleanupInv, RevokedInv
  <2> QED
    BY <2>1, <2>2, <2>3, <2>4, <2>5 DEF RevokedInv, Incomplete, Owing
<1>34. CASE Finish
  BY <1>34 DEF Finish, FinishCleanup
<1>35. CASE Settle
  BY <1>35 DEF Settle, Disconnected
<1>36. CASE Exit
  BY <1>36 DEF Exit, Stop, Load, EmptyFloor, Disconnected
<1>37. CASE Crash
  BY <1>37 DEF Crash, Stop, Load, EmptyFloor, Disconnected
<1>38. CASE Boot
  BY <1>38 DEF Boot, Load, EmptyFloor, Disconnected
<1>39. CASE Lapse \/ Drift \/ Heal \/ UNCHANGED vars
  BY <1>39 DEF Lapse, Drift, Heal, vars
<1> QED
  BY <1>1, <1>2, <1>3, <1>4, <1>5, <1>6, <1>7, <1>8, <1>9, <1>10, <1>11, <1>12, <1>13,
     <1>14, <1>15, <1>16, <1>17, <1>18, <1>19, <1>20, <1>21, <1>22, <1>23, <1>24, <1>25,
     <1>26, <1>27, <1>28, <1>29, <1>30, <1>31, <1>32, <1>33, <1>34, <1>35, <1>36, <1>37,
     <1>38, <1>39
     DEF Next, Step, ConnectStep, CycleStep, SyncStep, CleanupStep

-----------------------------------------------------------------------------
(***************************************************************************)
(* Theorems                                                                *)
(***************************************************************************)
\* Initially nothing is owed and no operation runs.
LEMMA InitCleanupInv == Init => CleanupInv
BY NoneApart DEF Init, CleanupInv, MemoryInv, PendingInv, GuardInv, RevokedInv,
   ConnectSteps, SyncSteps, NoTask, CleanupTask, EmptyFloor, Disconnected

\* The manager's state keeps its types (manager.go:121-153), and every control
\* point of its operations keeps what it knows of an owed cleanup.
THEOREM TypeCorrect == Spec => []TypeOK /\ []CleanupInv
<1>1. Init => TypeOK /\ CleanupInv
  BY InitTyped, InitCleanupInv
<1>2. TypeOK /\ CleanupInv /\ [Next]_vars => TypeOK' /\ CleanupInv'
  BY StepTyped, MemoryStep, PendingStep, GuardStep, RevokedStep DEF CleanupInv
<1> QED
  BY <1>1, <1>2, PTL DEF Spec

\* A recorded cleanup is never at odds with memory, and an idle manager that
\* owes one knows it must retry (beginVPNCleanup, restoreConfigurationFloor).
THEOREM CleanupIsHeld == Spec => []CleanupHeld
<1>1. CleanupInv => CleanupHeld
  BY DEF CleanupInv, MemoryInv, PendingInv, CleanupHeld
<1> QED
  BY <1>1, TypeCorrect, PTL

\* No tunnel comes up while a cleanup is owed, in memory or in the file: what
\* Connect's check of cleanupReason and the revocation's own record protect.
THEOREM TunnelNeedsCleanup == Spec => NoTunnelWhileCleanupOwed
<1>1. ASSUME TypeOK, CleanupInv, [Next]_vars,
             plane' # plane, plane' # None, plane'.wireGuard
      PROVE  ~cleanup /\ floor.pending = None /\ disk.pending = None
  <2>1. CASE ApplySucceeds \/ ApplyFails
    <3>1. pc = "apply" /\ task.config \in Configs
      BY <1>1, <2>1 DEF ApplySucceeds, ApplyFails, CleanupInv, GuardInv, SyncSteps
    <3>2. plane' = PlaneOf(task.config)
      BY <1>1, <2>1 DEF ApplySucceeds, ApplyFails
    <3>3. task.config.wireGuard
      BY <1>1, <3>1, <3>2 DEF PlaneOf
    <3> QED
      BY <1>1, <3>1, <3>3 DEF CleanupInv, MemoryInv, PendingInv, GuardInv, SyncSteps
  <2>2. CASE Drifted \/ Disable \/ Stop \/ Boot \/ Drift
    BY <1>1, <2>2 DEF Drifted, Disable, Stop, Boot, Drift
  <2>3. CASE UNCHANGED plane
    BY <1>1, <2>3
  <2> QED
    BY <1>1, <2>1, <2>2, <2>3
       DEF Next, Step, ConnectStep, CycleStep, SyncStep, CleanupStep, external, vars,
           ConnectStart, Prepare, Probe, RequestRefused, RequestLost, RequestGranted,
           CycleStart, DisconnectStart, ShutdownStart, RenewFails, RenewRevoked, Renewed,
           Health, EnforceExpiry, PollFails, Poll, RememberRefused, Remember, CheckRejects,
           CheckFails, CheckPasses, Verified, RecordRevocation, Report, RevokeSession,
           FinishRevocation, Commit, Begin, RevokeLeases, Finish, Settle, Exit, Crash,
           Lapse, Heal
<1> QED
  BY <1>1, TypeCorrect, PTL DEF Spec, NoTunnelWhileCleanupOwed

\* Only five actions can take a session from the manager.
LEMMA SessionKept ==
    ASSUME TypeOK, [Next]_vars, status'.session # status.session
    PROVE  RequestGranted \/ Commit \/ Settle \/ Stop \/ Boot
<1> USE DEF TypeOK, Status, ConnectFails, Degrade, ApplyDesiredStatus, volatile
<1>1. CASE \E managed \in BOOLEAN : ConnectStart(managed)
  BY <1>1 DEF ConnectStart
<1>2. CASE ConnectStep
  BY <1>2 DEF ConnectStep, Prepare, Probe, RequestRefused, RequestLost
<1>3. CASE CycleStart \/ DisconnectStart \/ ShutdownStart
  BY <1>3 DEF CycleStart, DisconnectStart, ShutdownStart
<1>4. CASE CycleStep
  BY <1>4 DEF CycleStep, RenewFails, RenewRevoked, Renewed, Health, EnforceExpiry
<1>5. CASE SyncStep
  <2>1. CASE Verified
    BY <2>1 DEF Verified
  <2> QED
    BY <1>5, <2>1 DEF SyncStep, PollFails, Poll, RememberRefused, Remember, CheckRejects,
       CheckFails, CheckPasses, Drifted, RecordRevocation, ApplySucceeds, ApplyFails,
       Report, RevokeSession, FinishRevocation
<1>6. CASE CleanupStep
  BY <1>6 DEF CleanupStep, Begin, Disable, RevokeLeases, Finish, Exit
<1>7. CASE Crash \/ Boot \/ Lapse \/ Drift \/ Heal \/ UNCHANGED vars
  BY <1>7 DEF Crash, Lapse, Drift, Heal, vars
<1> QED
  BY <1>1, <1>2, <1>3, <1>4, <1>5, <1>6, <1>7 DEF Next, Step

\* The manager lets go of a session that holds leases only after the control
\* confirmed the revocation; a shutdown leaves the cleanup in the file
\* (disconnectLocked, beginVPNCleanup, finishVPNCleanup).
THEOREM SessionIsCleanedUp == Spec => SessionNotAbandoned
<1>1. ASSUME TypeOK, CleanupInv, [Next]_vars,
             Active, leaseIDs # {}, status'.session # status.session
      PROVE  \/ live[status.session] \cap leaseIDs = {}
             \/ pc' = "down" /\ (disk.pending # None \/ pc # "settle" \/ task.stateErr)
  <2>1. Owing
    BY <1>1 DEF Owing, Active
  <2>2. CASE RequestGranted
    BY <1>1, <2>2 DEF RequestGranted, CleanupInv, GuardInv, ConnectSteps
  <2>3. CASE Commit
    <3>1. pc = "commit" /\ task.revoking /\ ~task.remoteErr /\ ~task.stateErr
      BY <1>1, <2>3 DEF Commit, Degrade, ApplyDesiredStatus, TypeOK, Status, Task
    <3> QED
      BY <1>1, <2>1, <3>1 DEF CleanupInv, RevokedInv, Revoked
  <2>4. CASE Settle
    <3>1. pc = "settle" /\ ~Incomplete
      BY <1>1, <2>4 DEF Settle, Degrade, TypeOK, Status
    <3> QED
      BY <1>1, <2>1, <3>1 DEF CleanupInv, RevokedInv, Revoked
  <2>5. CASE Stop
    BY <1>1, <2>1, <2>5 DEF Stop, CleanupInv, RevokedInv, Revoked
  <2>6. CASE Boot
    BY <1>1, <2>6 DEF Boot, CleanupInv, MemoryInv, Active, Disconnected
  <2> QED
    BY <1>1, <2>2, <2>3, <2>4, <2>5, <2>6, SessionKept
<1> QED
  BY <1>1, TypeCorrect, PTL DEF Spec, SessionNotAbandoned

-----------------------------------------------------------------------------
(***************************************************************************)
(* The protected file implements the durable ledger                        *)
(***************************************************************************)
\* While an operation connects, renews or synchronises, nothing is owed.
LEMMA NothingOwed ==
    ASSUME CleanupInv,
           pc \in ConnectSteps \cup {"renew", "poll", "remember", "check", "verify"}
    PROVE  floor.pending = None /\ disk.pending = None
BY DEF CleanupInv, PendingInv, MemoryInv, ConnectSteps

\* beginVPNCleanup writes a debt for a session that holds leases, or nothing new.
LEMMA BeginOwes ==
    ASSUME TypeOK, CleanupInv, pc # "down", UNCHANGED live,
           NEW saved \in BOOLEAN, BeginCleanup(saved)
    PROVE  [Ledger!Next]_<<disk.pending, live>>
<1>1. CASE ~saved \/ ~Owing
  BY <1>1 DEF BeginCleanup
<1>2. CASE saved /\ Owing
  <2>1. disk'.pending = [session |-> status.session, leases |-> leaseIDs]
    BY <1>2 DEF BeginCleanup, TypeOK, Floor
  <2>2. CASE disk.pending # None
    BY <2>1, <2>2 DEF CleanupInv, MemoryInv, PendingInv
  <2>3. CASE disk.pending = None
    <3>1. status.session \in Sessions /\ leaseIDs \in SUBSET Leases /\ leaseIDs # {}
      BY <1>2 DEF Owing, TypeOK, Status
    <3>2. Ledger!Owe(status.session, leaseIDs)
      BY <2>1, <2>3, <3>1 DEF Ledger!Owe
    <3> QED
      BY <3>1, <3>2 DEF Ledger!Next
  <2> QED
    BY <2>2, <2>3
<1> QED
  BY <1>1, <1>2

\* finishVPNCleanup discharges a debt only when the leases are gone.
LEMMA FinishDischarges ==
    ASSUME TypeOK, CleanupInv, pc \in {"finish", "finishRevocation"}, UNCHANGED live,
           NEW saved \in BOOLEAN, FinishCleanup(saved)
    PROVE  [Ledger!Next]_<<disk.pending, live>>
<1>1. CASE ~saved \/ floor.pending = None
  BY <1>1 DEF FinishCleanup
<1>2. CASE saved /\ floor.pending # None
  <2>1. disk'.pending = None
    BY <1>2 DEF FinishCleanup, TypeOK, Floor
  <2>2. CASE disk.pending = None
    BY <2>1, <2>2
  <2>3. CASE disk.pending # None
    <3>1. /\ disk.pending = [session |-> status.session, leases |-> leaseIDs]
          /\ leaseIDs # {}
      BY <2>3 DEF CleanupInv, MemoryInv, PendingInv
    <3>2. status.session # None
      BY <2>3, <3>1, NoneAssumption DEF TypeOK, Floor, Pending
    <3>3. Revoked
      BY <3>1, <3>2 DEF CleanupInv, RevokedInv, Owing
    <3>4. Ledger!Discharge
      BY <2>1, <2>3, <3>1, <3>3 DEF Ledger!Discharge, Revoked
    <3> QED
      BY <3>4 DEF Ledger!Next
  <2> QED
    BY <2>2, <2>3
<1> QED
  BY <1>1, <1>2

\* A revocation withdraws leases, which the ledger permits at any time.
LEMMA RevokeWithdraws ==
    ASSUME TypeOK, UNCHANGED disk, NEW ok \in BOOLEAN, Revoke(ok)
    PROVE  [Ledger!Next]_<<disk.pending, live>>
<1>1. CASE UNCHANGED live
  BY <1>1
<1>2. CASE live' = [live EXCEPT ![status.session] = @ \ leaseIDs]
  <2>1. CASE status.session \notin Sessions
    BY <1>2, <2>1 DEF TypeOK
  <2>2. CASE status.session \in Sessions
    <3> DEFINE L == live[status.session] \ leaseIDs
    <3>1. L \in SUBSET Leases /\ L \subseteq live[status.session]
      BY <2>2 DEF TypeOK
    <3>2. Ledger!Withdraw(status.session, L)
      BY <1>2, <2>2, <3>1 DEF Ledger!Withdraw, TypeOK
    <3> QED
      BY <2>2, <3>1, <3>2 DEF Ledger!Next
  <2> QED
    BY <2>1, <2>2
<1> QED
  BY <1>1, <1>2 DEF Revoke

\* A grant or renewal adds leases only to a session whose cleanup is not owed.
LEMMA GrantExtends ==
    ASSUME TypeOK, disk.pending = None, UNCHANGED disk,
           NEW s \in Sessions \cup {None}, NEW L \in SUBSET Leases,
           live' = [live EXCEPT ![s] = L]
    PROVE  [Ledger!Next]_<<disk.pending, live>>
<1>1. CASE s \in Sessions
  <2>1. Ledger!Extend(s, L)
    BY DEF Ledger!Extend
  <2> QED
    BY <1>1, <2>1 DEF Ledger!Next
<1>2. CASE s \notin Sessions
  BY <1>2 DEF TypeOK
<1> QED
  BY <1>1, <1>2

\* Every step of the manager is a step of the ledger, or leaves it alone.
LEMMA LedgerStep == TypeOK /\ CleanupInv /\ [Next]_vars => [Ledger!Next]_<<disk.pending, live>>
<1> SUFFICES ASSUME TypeOK, CleanupInv, [Next]_vars
             PROVE  [Ledger!Next]_<<disk.pending, live>>
  OBVIOUS
<1>1. CASE RequestLost \/ RequestGranted
  <2>1. disk.pending = None /\ UNCHANGED disk
    BY <1>1, NothingOwed DEF RequestLost, RequestGranted, ConnectFails, ConnectSteps
  <2>2. \E s \in Sessions, L \in SUBSET Leases : live' = [live EXCEPT ![s] = L]
    BY <1>1, GrantsAssumption DEF RequestLost, RequestGranted, Grant
  <2> QED
    BY <2>1, <2>2, GrantExtends
<1>2. CASE RenewFails \/ RenewRevoked \/ Renewed
  <2>1. disk.pending = None /\ UNCHANGED disk
    BY <1>2, NothingOwed DEF RenewFails, RenewRevoked, Renewed
  <2>2. \/ UNCHANGED live
        \/ \E L \in SUBSET Leases : live' = [live EXCEPT ![status.session] = L]
    BY <1>2, GrantsAssumption DEF RenewFails, RenewRevoked, Renewed
  <2> QED
    BY <2>1, <2>2, GrantExtends DEF TypeOK, Status
<1>3. CASE RecordRevocation \/ Begin
  <2>1. pc # "down" /\ UNCHANGED live /\ \E saved \in BOOLEAN : BeginCleanup(saved)
    BY <1>3 DEF RecordRevocation, Begin, external
  <2> QED
    BY <2>1, BeginOwes
<1>4. CASE FinishRevocation \/ Finish
  <2>1. /\ pc \in {"finish", "finishRevocation"} /\ UNCHANGED live
        /\ \E saved \in BOOLEAN : FinishCleanup(saved)
    BY <1>4 DEF FinishRevocation, Finish, external
  <2> QED
    BY <2>1, FinishDischarges
<1>5. CASE RevokeSession \/ RevokeLeases
  <2>1. UNCHANGED disk /\ \E ok \in BOOLEAN : Revoke(ok)
    BY <1>5 DEF RevokeSession, RevokeLeases
  <2> QED
    BY <2>1, RevokeWithdraws
<1>6. CASE Remember
  <2>1. disk.pending = None /\ UNCHANGED live
    BY <1>6, NothingOwed DEF Remember, external
  <2>2. disk'.pending = None
    BY <1>6, <2>1, NothingOwed DEF Remember
  <2> QED
    BY <2>1, <2>2
<1>7. CASE UNCHANGED <<disk, live>>
  BY <1>7
<1> QED
  BY <1>1, <1>2, <1>3, <1>4, <1>5, <1>6, <1>7
     DEF Next, Step, ConnectStep, CycleStep, SyncStep, CleanupStep, external, vars,
         ConnectStart, Prepare, Probe, RequestRefused, ConnectFails, CycleStart,
         DisconnectStart, ShutdownStart, Health, EnforceExpiry, PollFails, Poll,
         RememberRefused, CheckRejects, CheckFails, CheckPasses, Verified, Drifted,
         ApplySucceeds, ApplyFails, Report, Commit, Disable, Settle, Exit, Crash, Stop,
         Boot, Lapse, Drift, Heal

\* The protected configuration-floor file is a durable ledger of cleanups:
\* across every crash, lost answer and failed save, what is owed stays owed
\* until the control has dropped the leases (configuration_floor.go).
THEOREM FileImplementsLedger == Spec => LedgerSpec
<1>1. Init => Ledger!Init
  BY DEF Init, Ledger!Init, EmptyFloor
<1> QED
  BY <1>1, LedgerStep, TypeCorrect, PTL DEF Spec, LedgerSpec, Ledger!Spec

-----------------------------------------------------------------------------
(***************************************************************************)
(* The recorded configuration                                              *)
(***************************************************************************)
\* beginVPNCleanup and finishVPNCleanup leave the recorded configuration alone.
LEMMA RecordUntouched ==
    ASSUME TypeOK, NEW saved \in BOOLEAN, BeginCleanup(saved) \/ FinishCleanup(saved)
    PROVE  /\ floor'.recorded = floor.recorded
           /\ disk'.recorded = disk.recorded \/ disk'.recorded = floor.recorded
BY DEF BeginCleanup, FinishCleanup, TypeOK, Floor

\* rememberConfiguration accepts the recorded configuration, or writes one with
\* a newer version and no older policy.
LEMMA RememberAdvances ==
    ASSUME TypeOK, GuardInv, RecordInv, Remember
    PROVE  /\ disk'.recorded = task.config /\ floor'.recorded = task.config
           /\ disk.recorded # None /\ disk.recorded # disk'.recorded =>
                 /\ disk'.recorded.version > disk.recorded.version
                 /\ disk'.recorded.policy >= disk.recorded.policy
<1>1. /\ pc = "remember" /\ task.config \in Configs /\ floor.recorded = disk.recorded
      /\ floor.recorded \in Configs \cup {None} /\ ~Regressed(task.config)
  BY DEF Remember, GuardInv, SyncSteps, RecordInv, TypeOK, Floor
<1>2. CASE Recorded(task.config)
  BY <1>1, <1>2 DEF Recorded, Regressed, Remember
<1>3. CASE ~Recorded(task.config)
  <2>1. disk'.recorded = task.config /\ floor'.recorded = task.config
    BY <1>3 DEF Remember
  <2>2. ASSUME disk.recorded # None
        PROVE  /\ task.config.version > disk.recorded.version
               /\ task.config.policy >= disk.recorded.policy
    <3>1. disk.recorded \in Configs
      BY <1>1, <2>2
    <3>2. /\ task.config.version \in Nat /\ task.config.policy \in Nat
          /\ disk.recorded.version \in Nat /\ disk.recorded.policy \in Nat
      BY <1>1, <3>1, ConfigTyped
    <3> QED
      BY <1>1, <1>3, <2>2, <3>2 DEF Recorded, Regressed
  <2> QED
    BY <2>1, <2>2
<1> QED
  BY <1>2, <1>3

\* The steps that change what is in force put nothing there but the recorded
\* configuration.
LEMMA PlaneRecorded ==
    ASSUME TypeOK, RecordInv, [Next]_vars, plane' # plane, plane' # None
    PROVE  plane' = disk.recorded /\ UNCHANGED disk
<1>1. CASE ApplySucceeds \/ ApplyFails
  <2>1. pc = "apply" /\ UNCHANGED disk
    BY <1>1 DEF ApplySucceeds, ApplyFails
  <2>2. plane' = PlaneOf(task.config)
    BY <1>1 DEF ApplySucceeds, ApplyFails
  <2> QED
    BY <2>1, <2>2 DEF RecordInv, SyncSteps, PlaneOf
<1>2. CASE Drifted \/ Disable \/ Stop \/ Boot \/ Drift
  BY <1>2 DEF Drifted, Disable, Stop, Boot, Drift
<1>3. CASE UNCHANGED plane
  BY <1>3
<1> QED
  BY <1>1, <1>2, <1>3
     DEF Next, Step, ConnectStep, CycleStep, SyncStep, CleanupStep, external, vars,
         ConnectStart, Prepare, Probe, RequestRefused, RequestLost, RequestGranted,
         CycleStart, DisconnectStart, ShutdownStart, RenewFails, RenewRevoked, Renewed,
         Health, EnforceExpiry, PollFails, Poll, RememberRefused, Remember, CheckRejects,
         CheckFails, CheckPasses, Verified, RecordRevocation, Report, RevokeSession,
         FinishRevocation, Commit, Begin, RevokeLeases, Finish, Settle, Exit, Crash,
         Lapse, Heal

\* Only rememberConfiguration changes what the file records.
LEMMA RecordChanges ==
    ASSUME TypeOK, RecordInv, [Next]_vars, ~Remember
    PROVE  /\ disk'.recorded = disk.recorded
           /\ pc' # "down" => floor'.recorded = disk'.recorded
<1> USE DEF RecordInv, volatile, external
<1>1. CASE \/ RecordRevocation \/ FinishRevocation \/ Begin \/ Finish
  <2>1. pc # "down" /\ \E saved \in BOOLEAN : BeginCleanup(saved) \/ FinishCleanup(saved)
    BY <1>1 DEF RecordRevocation, FinishRevocation, Begin, Finish
  <2> QED
    BY <2>1, RecordUntouched
<1>2. CASE Stop \/ Boot
  BY <1>2 DEF Stop, Boot, Load
<1>3. CASE UNCHANGED <<floor, disk>> /\ (pc = "down" => pc' = "down")
  BY <1>3
<1> QED
  BY <1>1, <1>2, <1>3
     DEF Next, Step, ConnectStep, CycleStep, SyncStep, CleanupStep, vars, ConnectFails,
         ConnectStart, Prepare, Probe, RequestRefused, RequestLost, RequestGranted,
         CycleStart, DisconnectStart, ShutdownStart, RenewFails, RenewRevoked, Renewed,
         Health, EnforceExpiry, PollFails, Poll, RememberRefused, CheckRejects,
         CheckFails, CheckPasses, Verified, Drifted, ApplySucceeds, ApplyFails, Report,
         RevokeSession, Commit, Disable, RevokeLeases, Settle, Exit, Crash, Lapse,
         Drift, Heal

\* A synchronisation that is past rememberConfiguration keeps its configuration.
LEMMA SyncKeeps ==
    ASSUME TypeOK, [Next]_vars, ~Remember, pc' \in SyncSteps \ {"poll", "remember"}
    PROVE  pc \in SyncSteps \ {"poll", "remember"} /\ task'.config = task.config
<1> USE DEF TypeOK, Task, SyncSteps
<1>1. CASE CheckPasses \/ RecordRevocation \/ Report \/ RevokeSession \/ FinishRevocation
  BY <1>1 DEF CheckPasses, RecordRevocation, Reject, StartCleanup, Report, RevokeSession,
              FinishRevocation
<1>2. CASE ApplySucceeds
  BY <1>2 DEF ApplySucceeds
<1>3. CASE \/ (\E managed \in BOOLEAN : ConnectStart(managed)) \/ ConnectStep \/ CycleStart
           \/ DisconnectStart \/ ShutdownStart
  BY <1>3 DEF ConnectStart, ConnectStep, Prepare, Probe, RequestRefused, RequestLost,
              RequestGranted, ConnectFails, CycleStart, DisconnectStart, ShutdownStart, Done
<1>4. CASE CycleStep
  BY <1>4 DEF CycleStep, RenewFails, RenewRevoked, Renewed, Health, EnforceExpiry, Reject,
              StartCleanup, Fail, Done
<1>5. CASE PollFails \/ Poll \/ RememberRefused \/ CheckRejects \/ CheckFails
  BY <1>5 DEF PollFails, Poll, RememberRefused, CheckRejects, CheckFails, Reject,
              StartCleanup, Fail
<1>6. CASE Verified \/ Drifted \/ ApplyFails \/ Commit
  <2>1. Succeed \/ Fail \/ \E d \in Diagnostics : Reject(d)
    BY <1>6 DEF Verified, Drifted, ApplyFails, Commit, Diagnostics
  <2> QED
    BY <2>1 DEF Succeed, Fail, Done, Reject, StartCleanup
<1>7. CASE CleanupStep
  BY <1>7 DEF CleanupStep, Begin, Disable, RevokeLeases, Finish, Settle, Exit, Stop
<1>8. CASE Crash \/ Boot
  BY <1>8 DEF Crash, Stop, Boot
<1>9. CASE Lapse \/ Drift \/ Heal \/ UNCHANGED vars
  BY <1>9 DEF Lapse, Drift, Heal, vars
<1> QED
  BY <1>1, <1>2, <1>3, <1>4, <1>5, <1>6, <1>7, <1>8, <1>9 DEF Next, Step, SyncStep

\* Every step keeps what is in force behind what the file records.
LEMMA RecordStep == TypeOK /\ GuardInv /\ RecordInv /\ [Next]_vars => RecordInv'
<1> SUFFICES ASSUME TypeOK, GuardInv, RecordInv, [Next]_vars
             PROVE  RecordInv'
  OBVIOUS
<1>1. disk.recorded \in Configs \cup {None} /\ plane \in Configs \cup {None}
  BY DEF TypeOK, Floor
<1>2. CASE Remember
  <2>1. /\ pc' = "check" /\ task' = task /\ plane' = plane
        /\ task.config \in Configs
    BY <1>2 DEF Remember, external, GuardInv, SyncSteps
  <2>2. disk'.recorded = task.config /\ floor'.recorded = task.config
    BY <1>2, RememberAdvances
  <2>3. ASSUME plane # None
        PROVE  /\ plane.version <= task.config.version
               /\ plane.version = task.config.version => plane = task.config
    <3>1. /\ disk.recorded \in Configs /\ plane.version <= disk.recorded.version
          /\ plane.version = disk.recorded.version => plane = disk.recorded
      BY <1>1, <2>3 DEF RecordInv, EnforcedIsRecorded
    <3>2. /\ plane.version \in Nat /\ disk.recorded.version \in Nat
          /\ task.config.version \in Nat
      BY <1>1, <2>1, <2>3, <3>1, ConfigTyped
    <3>3. disk.recorded = task.config \/ disk.recorded.version < task.config.version
      BY <1>2, <2>2, <3>1, NoneApart, RememberAdvances
    <3> QED
      BY <3>1, <3>2, <3>3
  <2> QED
    BY <2>1, <2>2, <2>3, NoneApart DEF RecordInv, EnforcedIsRecorded
<1>3. CASE ~Remember
  <2>1. /\ disk'.recorded = disk.recorded
        /\ pc' # "down" => floor'.recorded = disk'.recorded
    BY <1>3, RecordChanges
  <2>2. pc' \in SyncSteps \ {"poll", "remember"} => task'.config = disk'.recorded
    BY <1>3, <2>1, SyncKeeps DEF RecordInv
  <2>3. CASE plane' = plane \/ plane' = None
    BY <2>1, <2>2, <2>3 DEF RecordInv, EnforcedIsRecorded
  <2>4. CASE plane' # plane /\ plane' # None
    <3>1. plane' = disk.recorded
      BY <2>4, PlaneRecorded
    <3>2. disk.recorded.version \in Nat
      BY <1>1, <2>4, <3>1, ConfigTyped
    <3> QED
      BY <2>1, <2>2, <2>4, <3>1, <3>2 DEF RecordInv, EnforcedIsRecorded
  <2> QED
    BY <2>3, <2>4
<1> QED
  BY <1>2, <1>3

\* The recorded configuration bounds what is in force at all times.
LEMMA RecordInvariant == Spec => []RecordInv
<1>1. Init => RecordInv
  BY DEF Init, RecordInv, EnforcedIsRecorded, SyncSteps, EmptyFloor
<1>2. TypeOK /\ CleanupInv /\ RecordInv /\ [Next]_vars => RecordInv'
  BY RecordStep DEF CleanupInv
<1> QED
  BY <1>1, <1>2, TypeCorrect, PTL DEF Spec

\* Whatever is in force was written to the protected file first, and nothing
\* newer or different was since (rememberConfiguration before executor.Apply).
THEOREM RecordedBeforeEnforced == Spec => []EnforcedIsRecorded
<1>1. RecordInv => EnforcedIsRecorded
  BY DEF RecordInv
<1> QED
  BY <1>1, RecordInvariant, PTL

\* No sequence of failures, crashes and restarts takes the endpoint back to an
\* older version or policy, or to another content of a version
\* (configuration_floor.go).
THEOREM NeverRollsBack == Spec => NoRollback
<1> DEFINE Advances ==
       /\ disk.recorded # None =>
             /\ disk'.recorded # None
             /\ disk'.recorded.version >= disk.recorded.version
             /\ disk'.recorded.policy >= disk.recorded.policy
             /\ disk'.recorded.version = disk.recorded.version =>
                    disk'.recorded = disk.recorded
       /\ plane' # plane /\ plane' # None => plane' = disk.recorded
<1>1. ASSUME TypeOK, CleanupInv, RecordInv, [Next]_vars
      PROVE  Advances
  <2>1. plane' # plane /\ plane' # None => plane' = disk.recorded
    BY <1>1, PlaneRecorded
  <2>2. ASSUME disk.recorded # None
        PROVE  disk.recorded.version \in Nat /\ disk.recorded.policy \in Nat
    BY <1>1, <2>2, ConfigTyped DEF TypeOK, Floor
  <2>3. CASE ~Remember
    BY <1>1, <2>1, <2>2, <2>3, RecordChanges
  <2>4. CASE Remember
    <3>1. disk'.recorded = task.config /\ task.config \in Configs
      BY <1>1, <2>4, RememberAdvances DEF CleanupInv, GuardInv, Remember, SyncSteps
    <3>2. task.config.version \in Nat /\ task.config # None
      BY <3>1, ConfigTyped, NoneApart
    <3>3. disk.recorded # None /\ disk.recorded # disk'.recorded =>
             /\ disk'.recorded.version > disk.recorded.version
             /\ disk'.recorded.policy >= disk.recorded.policy
      BY <1>1, <2>4, RememberAdvances DEF CleanupInv
    <3> QED
      BY <2>1, <2>2, <3>1, <3>2, <3>3
  <2> QED
    BY <2>3, <2>4
<1>2. TypeOK /\ CleanupInv /\ RecordInv /\ [Next]_vars => [Advances]_<<disk, plane>>
  BY <1>1
<1> QED
  BY <1>2, TypeCorrect, RecordInvariant, PTL DEF Spec, NoRollback

-----------------------------------------------------------------------------
(***************************************************************************)
(* What the manager knows of the endpoint being closed                     *)
(***************************************************************************)
\* The ways in which an operation ends, and where a cleanup begins.
LEMMA FlowAway ==
    ASSUME Done \/ Fail \/ Succeed \/ \E d \in Diagnostics : Reject(d)
    PROVE  pc' \in {"idle", "enforce", "health", "begin"}
BY DEF Done, Fail, Succeed, Reject, StartCleanup

\* disabled is wrong only between Apply and the commit, or inside a cleanup.
LEMMA ClosedStep == TypeOK /\ GuardInv /\ ClosedInv /\ [Next]_vars => ClosedInv'
<1> SUFFICES ASSUME TypeOK, GuardInv, ClosedInv, [Next]_vars
             PROVE  ClosedInv'
  OBVIOUS
<1> USE DEF ClosedInv, CleanupSteps, volatile, external
<1>1. CASE \E managed \in BOOLEAN : ConnectStart(managed)
  BY <1>1 DEF ConnectStart
<1>2. CASE ConnectStep
  <2>1. /\ pc \in {"prepare", "probe", "request"}
        /\ pc' \in {"idle", "probe", "request", "poll"}
        /\ UNCHANGED <<plane, disabled>>
    BY <1>2 DEF ConnectStep, Prepare, Probe, RequestRefused, RequestLost, RequestGranted,
                ConnectFails, Done
  <2> QED
    BY <2>1
<1>3. CASE CycleStart \/ DisconnectStart \/ ShutdownStart
  BY <1>3 DEF CycleStart, DisconnectStart, ShutdownStart
<1>4. CASE CycleStep
  BY <1>4 DEF CycleStep, RenewFails, RenewRevoked, Renewed, Health, EnforceExpiry, Reject,
              StartCleanup, Fail, Done
<1>5. CASE PollFails \/ Poll \/ RememberRefused \/ Remember \/ CheckRejects \/ CheckFails
           \/ CheckPasses
  BY <1>5 DEF PollFails, Poll, RememberRefused, Remember, CheckRejects, CheckFails,
              CheckPasses, Reject, StartCleanup, Fail, Done
<1>6. CASE Verified
  <2>1. pc' \in {"idle", "enforce", "health", "begin"}
    BY <1>6, FlowAway DEF Verified
  <2> QED
    BY <1>6, <2>1 DEF Verified
<1>7. CASE Drifted \/ ApplyFails
  <2>1. pc' = "begin"
    BY <1>7 DEF Drifted, ApplyFails, Reject, StartCleanup
  <2> QED
    BY <2>1
<1>8. CASE RecordRevocation
  BY <1>8 DEF RecordRevocation, Reject, StartCleanup
<1>9. CASE ApplySucceeds
  BY <1>9 DEF ApplySucceeds
<1>10. CASE Report
  <2>1. task'.config = task.config
    BY <1>10 DEF Report, TypeOK, Task
  <2> QED
    BY <1>10, <2>1 DEF Report
<1>11. CASE RevokeSession
  <2>1. task'.config = task.config
    BY <1>11 DEF RevokeSession, TypeOK, Task
  <2> QED
    BY <1>11, <2>1 DEF RevokeSession
<1>12. CASE FinishRevocation
  <2>1. task'.config = task.config
    BY <1>12 DEF FinishRevocation, TypeOK, Task
  <2> QED
    BY <1>12, <2>1 DEF FinishRevocation
<1>13. CASE Commit
  <2>1. pc' \in {"idle", "enforce", "health", "begin"}
    BY <1>13, FlowAway DEF Commit
  <2>2. disabled' => PlaneOf(task.config) = None
    BY <1>13 DEF Commit, Closes, PlaneOf
  <2>3. plane' \in {None, PlaneOf(task.config)}
    BY <1>13 DEF Commit
  <2> QED
    BY <2>1, <2>2, <2>3
<1>14. CASE Begin
  BY <1>14 DEF Begin
<1>15. CASE Disable
  <2>1. /\ pc' \in {"revoke", "finish", "settle"}
        /\ ~task'.localErr => plane' = None
    BY <1>15 DEF Disable, TypeOK, Task
  <2> QED
    BY <2>1
<1>16. CASE RevokeLeases
  <2>1. task'.localErr = task.localErr
    BY <1>16 DEF RevokeLeases, TypeOK, Task
  <2> QED
    BY <1>16, <2>1 DEF RevokeLeases
<1>17. CASE Finish
  <2>1. task'.localErr = task.localErr
    BY <1>17 DEF Finish, TypeOK, Task
  <2> QED
    BY <1>17, <2>1 DEF Finish
<1>18. CASE Settle
  <2>1. pc' \in {"idle", "enforce", "begin"} /\ UNCHANGED plane
    BY <1>18 DEF Settle, TypeOK, Task
  <2>2. disabled' => plane' = None
    BY <1>18 DEF Settle
  <2> QED
    BY <2>1, <2>2
<1>19. CASE Exit \/ Crash
  BY <1>19 DEF Exit, Crash, Stop
<1>20. CASE Boot
  BY <1>20 DEF Boot
<1>21. CASE Lapse \/ Drift \/ Heal \/ UNCHANGED vars
  BY <1>21 DEF Lapse, Drift, Heal, vars
<1> QED
  BY <1>1, <1>2, <1>3, <1>4, <1>5, <1>6, <1>7, <1>8, <1>9, <1>10, <1>11, <1>12, <1>13,
     <1>14, <1>15, <1>16, <1>17, <1>18, <1>19, <1>20, <1>21
     DEF Next, Step, SyncStep, CleanupStep

\* When no operation runs, a manager that counts the endpoint as disabled is
\* right: nothing is in force that Cycle and enforceExpiry would not look at.
THEOREM DisabledIsClosed == Spec => []DisabledMeansClosed
<1>1. Init => ClosedInv
  BY DEF Init, ClosedInv
<1>2. TypeOK /\ CleanupInv /\ ClosedInv /\ [Next]_vars => ClosedInv'
  BY ClosedStep DEF CleanupInv
<1>3. ClosedInv => DisabledMeansClosed
  BY DEF ClosedInv, DisabledMeansClosed, CleanupSteps
<1> QED
  BY <1>1, <1>2, <1>3, TypeCorrect, PTL DEF Spec
=============================================================================
