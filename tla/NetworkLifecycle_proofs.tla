----------------------- MODULE NetworkLifecycle_proofs ------------------------
(***************************************************************************)
(* The watchdog's safety, for any sessions and uplinks.                    *)
(***************************************************************************)
EXTENDS NetworkLifecycle, TLAPS

\* Initially every variable has its type and nothing is watched.
LEMMA InitWatchInv == Init => TypeOK /\ WatchInv
  BY DEF Init, TypeOK, WatchInv, Reasons

\* Every step of the operations, the watchdog and the machine keeps the types.
LEMMA StepTypeOK == TypeOK /\ [Next]_vars => TypeOK'
<1> SUFFICES ASSUME TypeOK, [Next]_vars PROVE TypeOK'
  OBVIOUS
<1> USE DEF TypeOK, Reasons
<1>1. CASE Operation
  BY <1>1 DEF Operation, OperationStart, OperationEnd, SessionOpened, SessionClosed,
              watchdog, environment
<1>2. CASE Watch
  <2>1. CASE Tick
    BY <2>1 DEF Tick
  <2>2. CASE Baseline
    BY <2>2 DEF Baseline, environment
  <2>3. CASE Compare
    BY <2>3 DEF Compare, environment
  <2>4. CASE Acquire
    BY <2>4 DEF Acquire, environment
  <2>5. CASE Probe
    BY <2>5 DEF Probe, environment
  <2>6. CASE \E b \in BOOLEAN : Teardown(b)
    BY <2>6 DEF Teardown, environment
  <2> QED
    BY <1>2, <2>1, <2>2, <2>3, <2>4, <2>5, <2>6 DEF Watch
<1>3. CASE Machine
  <2>1. CASE Sleep
    BY <2>1 DEF Sleep, watchdog
  <2>2. CASE UplinkChanges
    BY <2>2 DEF UplinkChanges, watchdog
  <2>3. CASE HealthChanges
    <3>1. healthy' \in BOOLEAN
      BY <2>3, Zenon DEF HealthChanges
    <3> QED
      BY <2>3, <3>1 DEF HealthChanges, watchdog
  <2> QED
    BY <1>3, <2>1, <2>2, <2>3 DEF Machine
<1>4. CASE UNCHANGED vars
  BY <1>4 DEF vars, watchdog, environment
<1> QED
  BY <1>1, <1>2, <1>3, <1>4 DEF Next

\* Every step keeps what the watchdog relies on: an operation changes the
\* session only while it holds the mutex, and to an identifier never used.
LEMMA StepWatchInv == TypeOK /\ WatchInv /\ [Next]_vars => WatchInv'
<1> SUFFICES ASSUME TypeOK, WatchInv, [Next]_vars PROVE WatchInv'
  OBVIOUS
<1> USE NoneAssumption DEF TypeOK, WatchInv
<1>1. CASE Operation
  BY <1>1 DEF Operation, OperationStart, OperationEnd, SessionOpened, SessionClosed,
              watchdog, environment
<1>2. CASE Watch
  <2>1. CASE Tick
    BY <2>1 DEF Tick
  <2>2. CASE Baseline
    BY <2>2 DEF Baseline, environment
  <2>3. CASE Compare
    BY <2>3 DEF Compare, environment
  <2>4. CASE Acquire
    BY <2>4 DEF Acquire, environment
  <2>5. CASE Probe
    BY <2>5 DEF Probe, environment
  <2>6. CASE \E b \in BOOLEAN : Teardown(b)
    BY <2>6 DEF Teardown, environment
  <2> QED
    BY <1>2, <2>1, <2>2, <2>3, <2>4, <2>5, <2>6 DEF Watch
<1>3. CASE Machine
  BY <1>3 DEF Machine, Sleep, UplinkChanges, HealthChanges, watchdog
<1>4. CASE UNCHANGED vars
  BY <1>4 DEF vars, watchdog, environment
<1> QED
  BY <1>1, <1>2, <1>3, <1>4 DEF Next

\* The watchdog never ends a session other than the one whose baseline it
\* compared (watchNetworkLifecycle's second look at the session under the mutex).
THEOREM TeardownIsSafe == Spec => []TypeOK /\ []TeardownIsForTheSession
<1>1. WatchInv => TeardownIsForTheSession
  BY DEF WatchInv, TeardownIsForTheSession
<1>2. TypeOK /\ WatchInv /\ [Next]_vars => (TypeOK /\ WatchInv)'
  BY StepTypeOK, StepWatchInv
<1> QED
  BY InitWatchInv, <1>1, <1>2, PTL DEF Spec
=============================================================================
