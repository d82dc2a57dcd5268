-------------------------- MODULE MCParts_proofs --------------------------
(***************************************************************************)
(* What each of the parts owes to the one that uses it: the proxy engine's  *)
(* controller and the tunnels of macOS and Windows to the executor, the     *)
(* library, the update and the recovery to the user.  For any plans, tasks,  *)
(* versions and attempts, wherever the process stops and whatever other      *)
(* programs do in between.                                                  *)
(***************************************************************************)
EXTENDS MCParts, TLAPS

\* A behaviour is one of its part: each step is one of that part, or leaves the
\* variables of the part alone.
LEMMA StepOfPart ==
    ASSUME [Next]_vars
    PROVE  /\ part' = part
           /\ part = "darwin" => [D!Next]_D!vars
           /\ part = "windows" => [W!Next]_W!vars
           /\ part = "mihomo" => [M!Next]_M!vars
           /\ part = "library" => [L!Next]_L!vars
           /\ part = "update" => [U!Next]_U!vars
           /\ part = "recovery" => [R!Next]_R!vars
<1>1. CASE Next
  BY <1>1 DEF Next, Darwin, Windows, Mihomo, Library, Update, Recovery
<1>2. CASE UNCHANGED vars
  BY <1>2 DEF vars, calls, network, darwin, windows, mihomo, library, update, interface,
              D!vars, D!process, D!system, W!vars, M!vars, L!vars, U!vars, U!world,
              R!vars, R!observed
<1> QED
  BY <1>1, <1>2

-----------------------------------------------------------------------------
(* The controller of the proxy engine.                                       *)
ProxyInv == M!TypeOK /\ M!CallInv /\ M!EngineInv

\* A controller that has closed everything.
LEMMA InitProxyInv == ASSUME M!Init PROVE ProxyInv
BY PlansAssumption
   DEF M!Init, ProxyInv, M!TypeOK, M!CallInv, M!EngineInv, M!Ours, M!Inert, M!Engines,
       M!Closing, M!Inspected, M!Verifying

\* The fields of the configurations the code stages, and of its own ones.
LEMMA Configurations ==
    /\ M!Inert.config = "inert" /\ M!Inert.port = FALSE /\ M!Inert.sound = TRUE /\ M!Inert.node = Nothing
    /\ M!Own.config = "own" /\ M!Own.node = Nothing
    /\ \A e \in M!Staged : /\ e.config = plan /\ e.port = FALSE /\ e.node = Nothing
                           /\ e.sound \in BOOLEAN
    /\ M!Inert \in M!Engines /\ M!Own \in M!Engines
    /\ plan \in Plans => M!Staged \subseteq M!Engines
<1>1. M!Inert \in M!Engines /\ M!Own \in M!Engines
  BY DEF M!Inert, M!Own, M!Engines
<1>2. ASSUME plan \in Plans, NEW s \in BOOLEAN
      PROVE  [config |-> plan, port |-> FALSE, bound |-> TRUE, sound |-> s, node |-> Nothing]
                \in M!Engines
  BY <1>2 DEF M!Engines
<1>3. plan \in Plans => M!Staged \subseteq M!Engines
  BY <1>2 DEF M!Staged
<1> QED
  BY <1>1, <1>3 DEF M!Inert, M!Own, M!Staged

\* What closing the gate leaves of the engine.
LEMMA GateFields ==
    ASSUME M!TypeOK, M!Gate
    PROVE  /\ engine' \in M!Engines /\ engine'.config = engine.config /\ engine'.port = engine.port
           /\ engine'.sound = engine.sound /\ engine'.node = engine.node /\ gate' = Nothing
BY DEF M!TypeOK, M!Gate, M!Engines

\* Every step of a call keeps the invariant, whatever the engine answers.
LEMMA CallKeepsInv ==
    ASSUME ProxyInv, M!Step \/ M!DisableStart \/ (\E p \in Plans : M!ApplyStart(p))
                               \/ (\E p \in Plans \cup {Nothing} : M!VerifyStart(p))
    PROVE  ProxyInv'
<1> USE DEF ProxyInv, M!Ours, M!Closing, M!Inspected, M!Verifying, M!Return, M!Continue
<1>1. CASE M!DisableStart
  BY <1>1, GateFields, PlansAssumption
     DEF M!TypeOK, M!CallInv, M!EngineInv, M!DisableStart, M!Engines
<1>2. ASSUME NEW p \in Plans, M!ApplyStart(p) PROVE ProxyInv'
  <2>1. CASE pc' = "quiesce"
    BY <1>2, <2>1, GateFields, PlansAssumption
       DEF M!TypeOK, M!CallInv, M!EngineInv, M!ApplyStart, M!Engines
  <2>2. CASE pc' = "idle"
    BY <1>2, <2>2, PlansAssumption DEF M!TypeOK, M!CallInv, M!EngineInv, M!ApplyStart
  <2> QED
    BY <1>2, <2>1, <2>2 DEF M!ApplyStart
<1>3. ASSUME NEW p \in Plans \cup {Nothing}, M!VerifyStart(p) PROVE ProxyInv'
  <2>1. CASE p # Nothing /\ gate \notin Plans
    BY <1>3, <2>1, PlansAssumption DEF M!TypeOK, M!CallInv, M!EngineInv, M!VerifyStart
  <2>2. CASE ~(p # Nothing /\ gate \notin Plans)
    BY <1>3, <2>2, PlansAssumption DEF M!TypeOK, M!CallInv, M!EngineInv, M!VerifyStart
  <2> QED
    BY <2>1, <2>2
<1>4. CASE M!Quiesce
  <2>1. M!TypeOK'
    BY <1>4, Configurations, PlansAssumption DEF M!TypeOK, M!CallInv, M!Quiesce
  <2>2. M!CallInv'
    BY <1>4, Configurations, PlansAssumption
       DEF M!TypeOK, M!CallInv, M!EngineInv, M!Quiesce, M!Inert, M!Engines
  <2>3. M!EngineInv'
    BY <1>4, Configurations, PlansAssumption
       DEF M!TypeOK, M!CallInv, M!EngineInv, M!Quiesce, M!Inert, M!Engines
  <2> QED
    BY <2>1, <2>2, <2>3 DEF ProxyInv
<1>5. CASE M!Drop
  <2>1. M!TypeOK'
    <3>1. flow' \in BOOLEAN /\ failed' \in BOOLEAN
      BY <1>5 DEF M!Drop, M!TypeOK
    <3> QED
      BY <1>5, <3>1 DEF M!TypeOK, M!Drop
  <2>2. M!CallInv'
    BY <1>5, PlansAssumption DEF M!TypeOK, M!CallInv, M!EngineInv, M!Drop
  <2>3. M!EngineInv'
    BY <1>5, PlansAssumption DEF M!TypeOK, M!CallInv, M!EngineInv, M!Drop
  <2> QED
    BY <2>1, <2>2, <2>3 DEF ProxyInv
<1>6. CASE M!Closed
  <2>1. M!TypeOK'
    <3>1. failed' \in BOOLEAN
      BY <1>6 DEF M!Closed, M!VerifyListener, M!TypeOK
    <3> QED
      BY <1>6, <3>1 DEF M!TypeOK, M!Closed
  <2>2. M!CallInv'
    BY <1>6, PlansAssumption DEF M!TypeOK, M!CallInv, M!EngineInv, M!Closed, M!VerifyListener
  <2>3. M!EngineInv'
    BY <1>6, PlansAssumption DEF M!TypeOK, M!CallInv, M!EngineInv, M!Closed, M!VerifyListener
  <2> QED
    BY <2>1, <2>2, <2>3 DEF ProxyInv
<1>7. CASE M!Rejecting
  <2>1. M!TypeOK'
    BY <1>7, PlansAssumption DEF M!TypeOK, M!CallInv, M!Rejecting, M!VerifyRules
  <2>2. M!CallInv'
    BY <1>7, PlansAssumption DEF M!TypeOK, M!CallInv, M!EngineInv, M!Rejecting, M!VerifyRules
  <2>3. M!EngineInv'
    BY <1>7, PlansAssumption DEF M!TypeOK, M!CallInv, M!EngineInv, M!Rejecting, M!VerifyRules
  <2> QED
    BY <2>1, <2>2, <2>3 DEF ProxyInv
<1>8. CASE M!Abort
  BY <1>8, GateFields, PlansAssumption DEF M!TypeOK, M!CallInv, M!EngineInv, M!Abort, M!Engines
<1>9. CASE M!Bootstrap \/ M!PrepareEgress
  BY <1>9, PlansAssumption DEF M!TypeOK, M!CallInv, M!EngineInv, M!Bootstrap, M!PrepareEgress
<1>10. CASE M!Stage
  <2>1. M!TypeOK'
    BY <1>10, Configurations, PlansAssumption DEF M!TypeOK, M!CallInv, M!Stage
  <2>2. M!CallInv'
    BY <1>10, Configurations, PlansAssumption
       DEF M!TypeOK, M!CallInv, M!EngineInv, M!Stage, M!Staged, M!Engines
  <2>3. M!EngineInv'
    BY <1>10, Configurations, PlansAssumption
       DEF M!TypeOK, M!CallInv, M!EngineInv, M!Stage, M!Staged, M!Engines
  <2> QED
    BY <2>1, <2>2, <2>3 DEF ProxyInv
<1>11. CASE M!Select
  BY <1>11, PlansAssumption
     DEF M!TypeOK, M!CallInv, M!EngineInv, M!Select, M!Chosen, M!ProxyGroup, M!Engines
<1>12. CASE M!Rules \/ M!Listening \/ M!Probe
  <2>1. M!TypeOK'
    BY <1>12, PlansAssumption DEF M!TypeOK, M!CallInv, M!Rules, M!Listening, M!Probe, M!Inspect
  <2>2. M!CallInv'
    BY <1>12, PlansAssumption
       DEF M!TypeOK, M!CallInv, M!EngineInv, M!Rules, M!Listening, M!Probe, M!Inspect
  <2>3. M!EngineInv'
    BY <1>12, PlansAssumption
       DEF M!TypeOK, M!CallInv, M!EngineInv, M!Rules, M!Listening, M!Probe, M!Inspect
  <2> QED
    BY <2>1, <2>2, <2>3 DEF ProxyInv
<1>13. CASE M!Open
  <2>1. M!TypeOK'
    <3>1. engine' \in M!Engines
      BY <1>13 DEF M!TypeOK, M!Open, M!Engines
    <3> QED
      BY <1>13, <3>1 DEF M!TypeOK, M!Open
  <2>2. M!CallInv'
    BY <1>13, PlansAssumption DEF M!TypeOK, M!CallInv, M!EngineInv, M!Open, M!Engines
  <2>3. M!EngineInv'
    BY <1>13, PlansAssumption DEF M!TypeOK, M!CallInv, M!EngineInv, M!Open, M!Engines
  <2> QED
    BY <2>1, <2>2, <2>3 DEF ProxyInv
<1>14. CASE M!Opened \/ M!Reread
  BY <1>14, PlansAssumption
     DEF M!TypeOK, M!CallInv, M!EngineInv, M!Opened, M!Reread, M!Inspect, M!VerifyListener
<1>15. CASE M!Reselected
  BY <1>15, PlansAssumption DEF M!TypeOK, M!CallInv, M!EngineInv, M!Reselected, M!ProxyGroup
<1>16. CASE M!Listener \/ M!Egress
  <2>1. M!TypeOK'
    BY <1>16, PlansAssumption
       DEF M!TypeOK, M!CallInv, M!Listener, M!Egress, M!Inspect, M!VerifyListener
  <2>2. M!CallInv'
    BY <1>16, PlansAssumption
       DEF M!TypeOK, M!CallInv, M!EngineInv, M!Listener, M!Egress, M!Inspect,
           M!VerifyListener
  <2>3. M!EngineInv'
    BY <1>16, PlansAssumption
       DEF M!TypeOK, M!CallInv, M!EngineInv, M!Listener, M!Egress, M!Inspect,
           M!VerifyListener
  <2> QED
    BY <2>1, <2>2, <2>3 DEF ProxyInv
<1>17. CASE M!Policy
  <2>1. M!TypeOK'
    BY <1>17, PlansAssumption DEF M!TypeOK, M!CallInv, M!Policy, M!Inspect, M!VerifyRules
  <2>2. M!CallInv'
    BY <1>17, PlansAssumption
       DEF M!TypeOK, M!CallInv, M!EngineInv, M!Policy, M!Inspect, M!VerifyRules
  <2>3. M!EngineInv'
    BY <1>17, PlansAssumption
       DEF M!TypeOK, M!CallInv, M!EngineInv, M!Policy, M!Inspect, M!VerifyRules
  <2> QED
    BY <2>1, <2>2, <2>3 DEF ProxyInv
<1>18. CASE M!Group
  BY <1>18, PlansAssumption DEF M!TypeOK, M!CallInv, M!EngineInv, M!Group
<1> QED
  BY <1>1, <1>2, <1>3, <1>4, <1>5, <1>6, <1>7, <1>8, <1>9, <1>10, <1>11, <1>12, <1>13, <1>14,
     <1>15, <1>16, <1>17, <1>18 DEF M!Step

\* The steps outside a call change one or two fields each, and each to a value of its type.
LEMMA RestartTypes ==
    ASSUME M!TypeOK, M!Restart
    PROVE  M!TypeOK'
<1>1. engine' \in M!Engines /\ flow' \in BOOLEAN
  BY DEF M!Own, M!Engines, M!Restart
<1> QED
  BY <1>1, SMT DEF M!TypeOK, M!Restart

LEMMA HealTypes ==
    ASSUME M!TypeOK, M!Heal \/ UNCHANGED M!vars
    PROVE  M!TypeOK'
<1>1. CASE M!Heal
  <2>1. faulty' \in BOOLEAN /\ UNCHANGED <<pc, call, plan, failed, gate, applied, engine, flow, answer>>
    BY <1>1 DEF M!Heal
  <2> QED
    BY <2>1, SMT DEF M!TypeOK
<1>2. CASE UNCHANGED M!vars
  BY <1>2, SMT DEF M!TypeOK, M!vars
<1> QED
  BY <1>1, <1>2

\* So do the engine, its user, the connections and the end of the service.
LEMMA EngineKeepsInv ==
    ASSUME ProxyInv,
           M!Restart \/ M!Reselect \/ M!Connection \/ M!Expire \/ M!Crash \/ M!Heal
           \/ UNCHANGED M!vars
    PROVE  ProxyInv'
<1> USE DEF ProxyInv, M!Ours, M!Closing, M!Inspected, M!Verifying
<1>1. CASE M!Restart
  <2>1. M!TypeOK'
    BY <1>1, RestartTypes
  <2>2. M!CallInv'
    BY <1>1, Configurations, PlansAssumption
       DEF M!TypeOK, M!CallInv, M!EngineInv, M!Restart, M!Own, M!Engines
  <2>3. M!EngineInv'
    BY <1>1, Configurations, PlansAssumption
       DEF M!TypeOK, M!CallInv, M!EngineInv, M!Restart, M!Own, M!Engines
  <2> QED
    BY <2>1, <2>2, <2>3 DEF ProxyInv
<1>2. CASE M!Reselect
  BY <1>2, PlansAssumption DEF M!TypeOK, M!CallInv, M!EngineInv, M!Reselect, M!Engines
<1>3. CASE M!Connection
  <2>1. M!TypeOK'
    <3>1. flow' \in BOOLEAN
      BY <1>3 DEF M!Connection
    <3> QED
      BY <1>3, <3>1 DEF M!TypeOK, M!Connection
  <2>2. M!CallInv'
    BY <1>3, PlansAssumption DEF M!TypeOK, M!CallInv, M!EngineInv, M!Connection
  <2>3. M!EngineInv'
    BY <1>3, PlansAssumption DEF M!TypeOK, M!CallInv, M!EngineInv, M!Connection
  <2> QED
    BY <2>1, <2>2, <2>3 DEF ProxyInv
<1>4. CASE M!Expire
  BY <1>4, PlansAssumption DEF M!TypeOK, M!CallInv, M!EngineInv, M!Expire
<1>5. CASE M!Crash
  BY <1>5, GateFields, PlansAssumption DEF M!TypeOK, M!CallInv, M!EngineInv, M!Crash, M!Engines
<1>6. CASE M!Heal \/ UNCHANGED M!vars
  <2>1. M!TypeOK'
    BY <1>6, HealTypes
  <2>2. M!CallInv'
    BY <1>6, PlansAssumption DEF M!TypeOK, M!CallInv, M!EngineInv, M!Heal, M!vars
  <2>3. M!EngineInv'
    BY <1>6, PlansAssumption DEF M!TypeOK, M!CallInv, M!EngineInv, M!Heal, M!vars
  <2> QED
    BY <2>1, <2>2, <2>3 DEF ProxyInv
<1> QED
  BY <1>1, <1>2, <1>3, <1>4, <1>5, <1>6

LEMMA StepProxyInv == ASSUME ProxyInv, [M!Next]_M!vars PROVE ProxyInv'
BY CallKeepsInv, EngineKeepsInv DEF M!Next

\* Types, and what a running call may rely on, in every state.
LEMMA ProxyInvariant == M!Spec => []ProxyInv
<1>1. M!Init => ProxyInv
  BY InitProxyInv
<1>2. ProxyInv /\ [M!Next]_M!vars => ProxyInv'
  BY StepProxyInv
<1> QED
  BY <1>1, <1>2, PTL DEF M!Spec

LEMMA MihomoInvariant == FairSpec => [](part = "mihomo" => ProxyInv)
<1>1. Init => (part = "mihomo" => ProxyInv)
  BY InitProxyInv DEF Init
<1>2. (part = "mihomo" => ProxyInv) /\ [Next]_vars => (part = "mihomo" => ProxyInv)'
  BY StepProxyInv, StepOfPart
<1> QED
  BY <1>1, <1>2, PTL DEF FairSpec

(* An ingress of the proxy leads only to nodes that were inspected, whatever  *)
(* the engine and its user do between two requests (applySource).             *)
THEOREM InspectedBeforeIngress == FairSpec => []IngressIsInspected
<1>1. (part = "mihomo" => ProxyInv) => IngressIsInspected
  BY DEF ProxyInv, M!EngineInv, M!Ours, M!Ingress, M!IngressIsInspected, IngressIsInspected
<1> QED
  BY <1>1, MihomoInvariant, PTL

(* No connection survives a successful Disable (disable, closeConnections).    *)
THEOREM DisabledDrains == FairSpec => []DisabledIsDrained
<1>1. (part = "mihomo" => ProxyInv) => DisabledIsDrained
  BY DEF ProxyInv, M!EngineInv, M!DisabledIsDrained, DisabledIsDrained
<1> QED
  BY <1>1, MihomoInvariant, PTL

-----------------------------------------------------------------------------
(* The refinement of TunnelSystem.                                          *)

\* An answer that says nothing, or one that is true of the engine.
LEMMA ProxyStepKeepsPromise ==
    ASSUME ProxyInv, ProxyInv', [M!Next]_M!vars
    PROVE  [M!Abstract!Next]_<<M!Tunnel, answer>>
<1>1. M!Tunnel \in Plans \cup {Nothing, Rest} /\ M!Tunnel' \in Plans \cup {Nothing, Rest}
  BY DEF ProxyInv, M!TypeOK, M!Engines, M!Tunnel, M!Ingress
<1>2. CASE answer' \in {"none", "error"}
  BY <1>1, <1>2 DEF M!Abstract!Next, M!Abstract!Working, M!Abstract!Answer
<1>3. CASE answer' = "empty" /\ M!Tunnel' = Nothing
  BY <1>3 DEF M!Abstract!Next, M!Abstract!Answer
<1>4. CASE answer' = M!Tunnel' /\ answer' \in Plans \cup {Nothing}
  BY <1>4 DEF M!Abstract!Next, M!Abstract!Answer
<1>5. CASE UNCHANGED answer /\ (answer = Nothing => M!Tunnel' = Nothing)
  BY <1>1, <1>5 DEF M!Abstract!Next, M!Abstract!Outside
<1> HIDE DEF M!Tunnel
<1>6. CASE M!DisableStart \/ (\E p \in Plans : M!ApplyStart(p)) \/ M!Crash
  BY <1>2, <1>6 DEF M!DisableStart, M!ApplyStart, M!Crash
<1>7. ASSUME NEW p \in Plans \cup {Nothing}, M!VerifyStart(p)
      PROVE  answer' \in {"none", "error"}
  BY <1>7 DEF M!VerifyStart
<1>8. CASE M!Quiesce \/ M!Drop \/ M!Closed \/ M!Abort \/ M!Bootstrap \/ M!PrepareEgress
           \/ M!Stage \/ M!Select \/ M!Open
  <2>1. pc # "idle" /\ UNCHANGED answer
    BY <1>8
       DEF M!Quiesce, M!Drop, M!Closed, M!Abort, M!Bootstrap, M!PrepareEgress, M!Stage, M!Select, M!Open,
           M!Continue
  <2> QED
    BY <1>2, <2>1 DEF ProxyInv, M!CallInv
<1>9. CASE M!Rejecting
  <2>1. CASE ~failed' /\ call = "disable"
    <3>1. answer' = Nothing /\ engine' = engine /\ engine.config = "inert"
      BY <1>9, <2>1 DEF M!Rejecting, M!Return, M!VerifyRules, ProxyInv, M!TypeOK
    <3>2. M!Tunnel' = Nothing
      BY <3>1, PlansAssumption DEF M!Tunnel, M!Ingress
    <3> QED
      BY <1>4, <3>1, <3>2
  <2>2. CASE ~(~failed' /\ call = "disable")
    BY <1>2, <1>9, <2>2 DEF M!Rejecting, M!Return, M!Continue, ProxyInv, M!CallInv
  <2> QED
    BY <2>1, <2>2
<1>10. CASE M!Rules \/ M!Listening \/ M!Probe \/ M!Opened \/ M!Reread \/ M!Listener \/ M!Egress
  <2>1. pc # "idle" /\ answer' \in {answer, "error"}
    BY <1>10 DEF M!Rules, M!Listening, M!Probe, M!Opened, M!Reread, M!Listener, M!Egress, M!Inspect,
                 M!Return, M!Continue
  <2> QED
    BY <1>2, <2>1 DEF ProxyInv, M!CallInv
<1>11. CASE M!Reselected
  <2>1. CASE answer' = plan /\ M!ProxyGroup /\ engine.node = plan
    <3>1. engine' = engine /\ engine.config = plan /\ plan \in Plans /\ engine.port /\ engine.sound
      BY <1>11, <2>1, PlansAssumption
         DEF M!Reselected, M!ProxyGroup, ProxyInv, M!CallInv, M!Ours, M!Inspected
    <3>2. M!Tunnel' = plan
      BY <2>1, <3>1 DEF M!Tunnel, M!Ingress
    <3> QED
      BY <1>4, <2>1, <3>1, <3>2
  <2>2. CASE UNCHANGED answer
    BY <1>2, <1>11, <2>2 DEF M!Reselected, ProxyInv, M!CallInv
  <2> QED
    BY <1>11, <2>1, <2>2 DEF M!Reselected, M!Return, M!Continue
<1>12. CASE M!Policy
  <2>1. CASE answer' = "empty" /\ M!VerifyRules("inert")
    <3>1. engine' = engine /\ engine.config = "inert"
      BY <1>12, <2>1 DEF M!Policy, M!Inspect, M!VerifyRules
    <3>2. M!Tunnel' = Nothing
      BY <3>1, PlansAssumption DEF M!Tunnel, M!Ingress
    <3> QED
      BY <1>3, <2>1, <3>2
  <2>2. CASE answer' \in {answer, "error"} /\ pc # "idle"
    BY <1>2, <2>2 DEF ProxyInv, M!CallInv
  <2>3. CASE plan = Nothing
    BY <1>12, <2>1, <2>2, <2>3 DEF M!Policy, M!Return
  <2>4. CASE plan # Nothing
    BY <1>12, <2>2, <2>4 DEF M!Policy, M!Inspect, M!Return, M!Continue
  <2> QED
    BY <2>3, <2>4
<1>13. CASE M!Group
  <2>1. CASE answer' = plan /\ M!ProxyGroup /\ engine.node = applied
    <3>1. engine' = engine /\ engine.config = plan /\ plan \in Plans /\ engine.port /\ engine.sound
      BY <1>13, <2>1, PlansAssumption
         DEF M!Group, M!ProxyGroup, ProxyInv, M!CallInv, M!Ours, M!Verifying
    <3>2. applied \in Plans
      BY <1>13, <3>1, PlansAssumption DEF M!Group, ProxyInv, M!CallInv, M!Verifying
    <3>3. engine.node = plan
      BY <2>1, <3>1, <3>2, PlansAssumption DEF ProxyInv, M!EngineInv
    <3>4. M!Tunnel' = plan
      BY <3>1, <3>3 DEF M!Tunnel, M!Ingress
    <3> QED
      BY <1>4, <2>1, <3>1, <3>4
  <2>2. CASE answer' = "error"
    BY <1>2, <2>2
  <2> QED
    BY <1>13, <2>1, <2>2 DEF M!Group, M!Return
<1>14. CASE M!Restart \/ M!Reselect \/ M!Connection \/ M!Expire \/ M!Heal \/ UNCHANGED M!vars
  <2>1. UNCHANGED answer
    BY <1>14 DEF M!Restart, M!Reselect, M!Connection, M!Expire, M!Heal, M!vars
  <2>2. answer = Nothing => engine'.config \notin Plans
    BY <2>1 DEF ProxyInv, M!EngineInv, M!Ours
  <2>3. answer = Nothing => M!Tunnel' = Nothing
    BY <2>2 DEF M!Tunnel, M!Ingress
  <2> QED
    BY <1>5, <2>1, <2>3
<1> QED
  BY <1>2, <1>6, <1>7, <1>8, <1>9, <1>10, <1>11, <1>12, <1>13, <1>14 DEF M!Next, M!Step

-----------------------------------------------------------------------------
(* The macOS tunnel.                                                          *)

DarwinInv == D!TypeOK /\ D!KnownInv /\ D!CallInv

\* The two values of the service in the dynamic store.
LEMMA TwoKeys == D!Keys = {"dns", "ip"} /\ "dns" # "ip" /\ D!Empty \in D!Stores
                 /\ \A k \in D!Keys : D!Empty[k] = "absent"
BY DEF D!Keys, D!Empty, D!Stores

\* A service that has not run yet.
LEMMA InitDarwinInv == ASSUME D!Init PROVE DarwinInv
<1>1. D!TypeOK
  BY TwoKeys DEF D!Init, D!TypeOK
<1>2. D!KnownInv
  BY TwoKeys DEF D!Init, D!KnownInv
<1>3. D!CallInv
  BY PlansAssumption DEF D!Init, D!CallInv, D!Removing, D!Building
<1> QED
  BY <1>1, <1>2, <1>3 DEF DarwinInv

\* What a removal leaves of the values.
LEMMA RemoveTyped ==
    ASSUME D!TypeOK, NEW k \in D!Keys, D!Remove(k)
    PROVE  /\ store' \in D!Stores /\ \A j \in D!Keys \ {k} : store'[j] = store[j]
           /\ IF D!Removed(k) THEN store'[k] = "absent" ELSE store'[k] = store[k]
BY DEF D!TypeOK, D!Remove, D!Removed, D!Stores

\* disable succeeds, for a following Apply or for its caller, or it fails.
LEMMA DisabledForms ==
    ASSUME NEW wrong \in BOOLEAN, D!Disabled(wrong)
    PROVE  /\ UNCHANGED call
           /\ \/ ~wrong /\ call = "apply" /\ pc' = "create" /\ UNCHANGED answer
              \/ ~wrong /\ pc' = "idle" /\ answer' = Nothing
              \/ pc' = "idle" /\ answer' = "error"
BY DEF D!Disabled, D!Return

\* The starts of the calls, and their cleanup.
LEMMA CleanupKeepsInv ==
    ASSUME DarwinInv,
           D!DisableStart \/ D!Readback \/ (\E p \in Plans : D!ApplyStart(p)) \/ D!Close
           \/ D!CloseDNS \/ D!RemoveKey
    PROVE  DarwinInv'
<1> USE DEF DarwinInv, D!process, D!system, D!Removing, D!Building, D!Return
<1>1. CASE D!DisableStart
  BY <1>1, PlansAssumption DEF D!DisableStart, D!TypeOK, D!KnownInv, D!CallInv
<1>2. CASE D!Readback
  <2>1. CASE D!Clean
    BY <1>2, <2>1, PlansAssumption DEF D!Readback, D!Clean, D!TypeOK, D!KnownInv, D!CallInv
  <2>2. CASE ~D!Clean /\ D!InForce
    BY <1>2, <2>2, PlansAssumption
       DEF D!Readback, D!InForce, D!Peered, D!Routed, D!TypeOK, D!KnownInv, D!CallInv
  <2>3. CASE ~D!Clean /\ ~D!InForce
    BY <1>2, <2>3, PlansAssumption DEF D!Readback, D!TypeOK, D!KnownInv, D!CallInv
  <2> QED
    BY <2>1, <2>2, <2>3
<1>3. ASSUME NEW p \in Plans, D!ApplyStart(p) PROVE DarwinInv'
  BY <1>3, PlansAssumption DEF D!ApplyStart, D!TypeOK, D!KnownInv, D!CallInv
<1>4. CASE D!Close
  <2>1. D!TypeOK'
    BY <1>4 DEF D!Close, D!TypeOK
  <2>2. D!KnownInv'
    BY <1>4 DEF D!Close, D!TypeOK, D!KnownInv
  <2>3. D!CallInv'
    BY <1>4, PlansAssumption DEF D!Close, D!TypeOK, D!KnownInv, D!CallInv
  <2> QED
    BY <2>1, <2>2, <2>3
<1>5. CASE D!CloseDNS
  <2>1. CASE ~handle /\ D!Disabled(left) /\ expected' = Nothing /\ UNCHANGED <<handle, store>>
    <3>1. left \in BOOLEAN
      BY DEF D!TypeOK
    <3> QED
      BY <1>5, <2>1, <3>1, DisabledForms, PlansAssumption
         DEF D!CloseDNS, D!TypeOK, D!KnownInv, D!CallInv
  <2>2. CASE D!Disabled(TRUE) /\ UNCHANGED <<expected, handle, store>>
    BY <1>5, <2>2, DisabledForms, ZenonT(30), PlansAssumption
       DEF D!CloseDNS, D!TypeOK, D!KnownInv, D!CallInv
  <2>3. CASE pc' = "remove dns" /\ UNCHANGED <<call, answer, expected, handle, store>>
    BY <1>5, <2>3, ZenonT(30), PlansAssumption DEF D!CloseDNS, D!TypeOK, D!KnownInv, D!CallInv
  <2> QED
    BY <1>5, <2>1, <2>2, <2>3 DEF D!CloseDNS
<1>6. CASE D!RemoveKey
  <2>1. ASSUME NEW k \in D!Keys, D!Remove(k), ~D!Removed(k) PROVE UNCHANGED store
    BY <2>1 DEF D!Remove, D!Removed
  <2>2. CASE /\ pc = "remove dns" /\ D!Remove("dns") /\ D!Removed("dns")
             /\ pc' = "remove ip" /\ UNCHANGED <<call, answer, handle, expected>>
    <3>1. store' \in D!Stores /\ store'["ip"] = store["ip"] /\ store'["dns"] = "absent"
      BY <2>2, RemoveTyped, TwoKeys
    <3> QED
      BY <1>6, <2>2, <3>1, TwoKeys, ZenonT(30), PlansAssumption
         DEF D!RemoveKey, D!TypeOK, D!KnownInv, D!CallInv
  <2>3. CASE /\ pc = "remove ip" /\ D!Remove("ip") /\ D!Removed("ip") /\ D!Disabled(left)
             /\ handle' = FALSE /\ expected' = Nothing
    <3>1. store' \in D!Stores /\ store'["dns"] = store["dns"] /\ store'["ip"] = "absent"
      BY <2>3, RemoveTyped, TwoKeys
    <3>2. left \in BOOLEAN
      BY DEF D!TypeOK
    <3>3. D!TypeOK'
      <4>1. /\ UNCHANGED call /\ pc' \in {"create", "idle"}
            /\ answer' \in {answer, Nothing, "error"}
        BY <2>3, <3>2, DisabledForms
      <4>2. UNCHANGED <<plan, device, name, left, link, set, overlap, faulty>>
        BY <1>6 DEF D!RemoveKey
      <4>3. pc' \in {"idle"} \cup D!Removing \cup D!Building
        BY <4>1 DEF D!Building
      <4>4. /\ answer' \in Plans \cup {Nothing, "empty", "error", "none"}
            /\ handle' \in BOOLEAN /\ expected' \in Plans \cup {Nothing}
        BY <2>3, <4>1 DEF D!TypeOK
      <4> QED
        BY <3>1, <4>1, <4>2, <4>3, <4>4 DEF D!TypeOK
    <3>4. D!KnownInv'
      <4>1. ~device /\ UNCHANGED <<device, name, link>>
        BY <1>6, <2>3 DEF D!RemoveKey, D!CallInv, D!Removing
      <4>2. store["dns"] = "absent"
        BY <2>3 DEF D!CallInv
      <4>3. \A k \in D!Keys : store'[k] = "absent"
        BY <3>1, <4>2, TwoKeys
      <4> QED
        BY <4>1, <4>3 DEF D!KnownInv
    <3>5. D!CallInv'
      BY <1>6, <2>3, <3>1, <3>2, DisabledForms, TwoKeys, PlansAssumption
         DEF D!RemoveKey, D!TypeOK, D!KnownInv, D!CallInv
    <3> QED
      BY <3>3, <3>4, <3>5
  <2>4. CASE UNCHANGED <<store, handle, expected>> /\ D!Disabled(TRUE)
    <3>1. /\ pc \in {"remove dns", "remove ip"}
          /\ UNCHANGED <<plan, device, name, left, link, set, overlap, faulty>>
      BY <1>6 DEF D!RemoveKey
    <3>2. D!TypeOK'
      BY <2>4, <3>1, DisabledForms, ZenonT(30) DEF D!TypeOK
    <3>3. D!KnownInv'
      BY <2>4, <3>1 DEF D!KnownInv
    <3>4. D!CallInv'
      BY <2>4, <3>1, DisabledForms, PlansAssumption DEF D!TypeOK, D!CallInv
    <3> QED
      BY <3>2, <3>3, <3>4
  <2>5. \/ /\ pc = "remove dns" /\ D!Remove("dns") /\ UNCHANGED <<handle, expected>>
           /\ \/ D!Removed("dns") /\ pc' = "remove ip" /\ UNCHANGED <<call, answer>>
              \/ ~D!Removed("dns") /\ D!Disabled(TRUE)
        \/ /\ pc = "remove ip" /\ D!Remove("ip")
           /\ \/ D!Removed("ip") /\ D!Disabled(left) /\ handle' = FALSE /\ expected' = Nothing
              \/ ~D!Removed("ip") /\ D!Disabled(TRUE) /\ handle' = TRUE /\ expected' = expected
        \/ UNCHANGED <<store, handle, expected>> /\ D!Disabled(TRUE)
    BY <1>6 DEF D!RemoveKey, D!Disabled, D!TypeOK
  <2>6. ~D!Removed("ip") /\ pc = "remove ip" => handle
    BY TwoKeys DEF D!Removed, D!KnownInv
  <2> QED
    BY <2>1, <2>2, <2>3, <2>4, <2>5, <2>6, TwoKeys DEF D!TypeOK
<1> QED
  BY <1>1, <1>2, <1>3, <1>4, <1>5, <1>6

\* The rest of Apply.
LEMMA ApplyKeepsInv ==
    ASSUME DarwinInv, D!Create \/ D!Configure \/ D!OpenDNS \/ D!Poll
    PROVE  DarwinInv'
<1> USE DEF DarwinInv, D!process, D!system, D!Removing, D!Building, D!Return, D!Abort
<1>1. CASE D!Create
  <2>1. D!TypeOK'
    BY <1>1 DEF D!Create, D!TypeOK
  <2>2. D!KnownInv'
    BY <1>1 DEF D!Create, D!TypeOK, D!KnownInv, D!CallInv
  <2>3. D!CallInv'
    BY <1>1, PlansAssumption DEF D!Create, D!TypeOK, D!CallInv
  <2> QED
    BY <2>1, <2>2, <2>3
<1>2. CASE D!Configure
  BY <1>2, PlansAssumption DEF D!Configure, D!TypeOK, D!KnownInv, D!CallInv
<1>3. CASE D!OpenDNS
  <2>1. [k \in D!Keys |-> "ours"] \in D!Stores
    BY DEF D!Stores
  <2>2. CASE handle' = TRUE /\ store' = [k \in D!Keys |-> "ours"]
    BY <1>3, <2>1, <2>2, PlansAssumption DEF D!OpenDNS, D!TypeOK, D!KnownInv, D!CallInv
  <2>3. CASE UNCHANGED <<handle, store>>
    BY <1>3, <2>3, PlansAssumption DEF D!OpenDNS, D!TypeOK, D!KnownInv, D!CallInv
  <2> QED
    BY <1>3, <2>2, <2>3 DEF D!OpenDNS
<1>4. CASE D!Poll
  BY <1>4, PlansAssumption DEF D!Poll, D!TypeOK, D!KnownInv, D!CallInv
<1> QED
  BY <1>1, <1>2, <1>3, <1>4

\* The system and other programs, and the end of the service.
LEMMA SystemKeepsInv ==
    ASSUME DarwinInv,
           D!Retreat \/ D!Foreign \/ D!Crash \/ D!Heal
           \/ (\E k \in D!Keys : D!Overwrite(k)) \/ UNCHANGED D!vars
    PROVE  DarwinInv'
<1> USE DEF DarwinInv, D!process, D!system
<1>1. ASSUME NEW k \in D!Keys, D!GiveBack(k) \/ D!Overwrite(k) PROVE DarwinInv'
  <2>1. /\ store' \in D!Stores /\ \A j \in D!Keys : store'[j] # "absent" => store[j] # "absent"
        /\ "dns" \in D!Keys
    BY <1>1, TwoKeys DEF D!GiveBack, D!Overwrite, D!TypeOK, D!Stores
  <2>2. UNCHANGED <<pc, call, plan, device, name, expected, handle, left, link, set, overlap,
                    answer, faulty>>
    BY <1>1 DEF D!GiveBack, D!Overwrite
  <2> QED
    <3>1. D!TypeOK'
      BY <2>1, <2>2 DEF D!TypeOK
    <3>2. D!KnownInv'
      BY <2>1, <2>2 DEF D!KnownInv
    <3>3. store'["dns"] = "absent" \/ store["dns"] # "absent"
      BY <2>1
    <3>4. D!CallInv'
      BY <2>1, <2>2, <3>3 DEF D!CallInv, D!Removing, D!Building
    <3> QED
      BY <3>1, <3>2, <3>4
<1>2. CASE D!Unlink
  <2>1. D!TypeOK'
    BY <1>2 DEF D!Unlink, D!TypeOK
  <2>2. D!KnownInv' /\ D!CallInv'
    BY <1>2 DEF D!Unlink, D!KnownInv, D!CallInv, D!Removing, D!Building
  <2> QED
    BY <2>1, <2>2
<1>3. CASE D!Foreign
  <2>1. overlap' \in BOOLEAN /\ set' \in {"none", "part", "whole"}
    BY <1>3 DEF D!Foreign, D!TypeOK
  <2> QED
    <3>1. link' = link /\ UNCHANGED <<pc, call, plan, device, name, expected, handle, left,
                                      store, answer, faulty>>
      BY <1>3 DEF D!Foreign
    <3>2. D!TypeOK'
      BY <2>1, <3>1 DEF D!TypeOK
    <3>3. D!KnownInv' /\ D!CallInv'
      BY <3>1 DEF D!KnownInv, D!CallInv, D!Removing, D!Building
    <3> QED
      BY <3>2, <3>3
<1>4. CASE D!Crash
  BY <1>4, TwoKeys, PlansAssumption
     DEF D!Crash, D!TypeOK, D!KnownInv, D!CallInv, D!Removing, D!Building
<1>5. CASE D!Heal \/ UNCHANGED D!vars
  <2>1. faulty' \in BOOLEAN /\ UNCHANGED <<pc, call, plan, device, name, expected, handle, left,
                                          link, set, store, overlap, answer>>
    BY <1>5 DEF D!Heal, D!vars, D!TypeOK
  <2> QED
    <3>1. D!TypeOK'
      BY <2>1 DEF D!TypeOK
    <3>2. D!KnownInv' /\ D!CallInv'
      BY <2>1 DEF D!KnownInv, D!CallInv, D!Removing, D!Building
    <3> QED
      BY <3>1, <3>2
<1> QED
  BY <1>1, <1>2, <1>3, <1>4, <1>5 DEF D!Retreat

LEMMA StepDarwinInv == ASSUME DarwinInv, [D!Next]_D!vars PROVE DarwinInv'
BY CleanupKeepsInv, ApplyKeepsInv, SystemKeepsInv DEF D!Next, D!Step

\* Types, and what the process knows of its traces, in every state.
LEMMA DarwinInvariant == FairSpec => [](part = "darwin" => DarwinInv)
<1>1. Init => (part = "darwin" => DarwinInv)
  BY InitDarwinInv DEF Init
<1>2. (part = "darwin" => DarwinInv) /\ [Next]_vars => (part = "darwin" => DarwinInv)'
  BY StepDarwinInv, StepOfPart
<1> QED
  BY <1>1, <1>2, PTL DEF FairSpec

-----------------------------------------------------------------------------
(* What another program changed is left to it.                              *)

\* sohaDNSClose compares each value when its turn comes; Apply writes only where
\* nothing is left.
THEOREM ForeignIsKept == FairSpec => ForeignKept
<1> DEFINE Kept == \A k \in D!Keys : store[k] = "foreign" =>
                      \/ store'[k] = "foreign"
                      \/ UNCHANGED pc
                      \/ answer' = "error" /\ ~name' /\ ~handle'
<1>1. ASSUME part = "darwin", DarwinInv, [Next]_vars PROVE Kept
  <2> SUFFICES ASSUME NEW k \in D!Keys, store[k] = "foreign", store'[k] # "foreign", pc' # pc
               PROVE  answer' = "error" /\ ~name' /\ ~handle'
    OBVIOUS
  <2>. [D!Next]_D!vars
    BY <1>1, StepOfPart
  <2>1. ~D!OpenDNS
    BY <1>1 DEF D!OpenDNS, DarwinInv, D!KnownInv, D!CallInv
  <2>2. ~D!RemoveKey
    <3>1. ASSUME NEW j \in D!Keys, D!Remove(j) PROVE FALSE
      <4>1. store'[j] = "absent" => j # k
        BY <1>1, <3>1, RemoveTyped DEF DarwinInv, D!Removed
      <4> QED
        BY <1>1, <3>1, <4>1, RemoveTyped DEF DarwinInv
    <3> QED
      BY <3>1, TwoKeys DEF D!RemoveKey
  <2>3. ~(D!Close \/ D!CloseDNS \/ D!Create \/ D!Configure \/ D!Poll \/ D!DisableStart
  \/ D!Readback)
    <3>1. CASE D!CloseDNS
      BY <3>1 DEF D!CloseDNS
    <3> QED
      BY <3>1 DEF D!Close, D!Create, D!Configure, D!Poll, D!DisableStart, D!Readback, D!system
  <2>4. ~(\E p \in Plans : D!ApplyStart(p))
    BY DEF D!ApplyStart, D!system
  <2>5. ~(D!Retreat \/ D!Foreign \/ D!Heal \/ (\E j \in D!Keys : D!Overwrite(j))
  \/ UNCHANGED D!vars)
    BY DEF D!Retreat, D!Unlink, D!GiveBack, D!Foreign, D!Heal, D!Overwrite, D!vars
  <2>6. D!Crash
    BY <1>1, <2>1, <2>2, <2>3, <2>4, <2>5 DEF D!Next, D!Step
  <2> QED
    BY <2>6 DEF D!Crash
<1>2. (part = "darwin" => DarwinInv) /\ [Next]_vars => [part = "darwin" => Kept]_vars
  BY <1>1
<1> QED
  BY <1>2, DarwinInvariant, PTL DEF FairSpec, ForeignKept

-----------------------------------------------------------------------------
(* The refinement of TunnelSystem.                                          *)

\* With nothing that the process can name, nothing of ours is in the system.
LEMMA NothingKnown ==
    ASSUME D!KnownInv, ~device, link # "ours", ~handle
    PROVE  D!Tunnel = Nothing
BY DEF D!KnownInv, D!Ours, D!Tunnel

LEMMA InForceIsTunnel == ASSUME D!InForce PROVE D!Tunnel = expected
BY DEF D!InForce, D!Peered, D!Routed, D!Ours, D!Tunnel

\* A step promises nothing, leaves the tunnel as it was, or says what is true.
LEMMA DarwinStepKeepsPromise ==
    ASSUME DarwinInv, DarwinInv', [D!Next]_D!vars
    PROVE  [D!Abstract!Next]_<<D!Tunnel, answer>>
<1>1. D!Tunnel' \in Plans \cup {Nothing, Rest}
  BY DEF DarwinInv, D!TypeOK, D!Tunnel
<1>2. CASE answer' \in {"none", "error"}
  BY <1>1, <1>2 DEF D!Abstract!Next, D!Abstract!Working, D!Abstract!Answer
<1>3. answer' = Nothing => D!Tunnel' = Nothing
  BY DEF DarwinInv, D!CallInv, D!KnownInv, D!Ours, D!Tunnel
<1>4. CASE answer' = Nothing
  BY <1>3, <1>4 DEF D!Abstract!Next, D!Abstract!Answer
<1>5. CASE UNCHANGED answer
  BY <1>1, <1>3, <1>5 DEF D!Abstract!Next, D!Abstract!Outside
<1>6. CASE D!Readback
  <2>1. UNCHANGED <<device, name, expected, handle, link, set, store, overlap>>
    BY <1>6 DEF D!Readback, D!process, D!system
  <2>2. D!Tunnel' = D!Tunnel
    BY <2>1 DEF D!Tunnel, D!Ours, D!InForce, D!Peered, D!Routed, D!Matches
  <2>3. CASE D!Clean
    <3>. ~D!InForce
      BY <2>3 DEF D!Clean, D!InForce, D!Peered, D!Routed
    <3>1. answer' = "empty"
      BY <1>6, <2>3 DEF D!Readback
    <3>2. ~device /\ ~handle /\ link # "ours"
      BY <2>3 DEF D!Clean, DarwinInv, D!KnownInv
    <3>3. D!Tunnel = Nothing
      BY <3>2, NothingKnown DEF DarwinInv
    <3> QED
      BY <2>2, <3>1, <3>3 DEF D!Abstract!Next, D!Abstract!Answer
  <2>4. CASE ~D!Clean /\ D!InForce
    <3>1. answer' = expected /\ expected \in Plans
      BY <1>6, <2>4 DEF D!Readback, D!InForce, D!Peered, D!Routed, DarwinInv, D!KnownInv
    <3> QED
      BY <2>2, <2>4, <3>1, InForceIsTunnel DEF D!Abstract!Next, D!Abstract!Answer
  <2>5. CASE ~D!Clean /\ ~D!InForce
    BY <1>2, <1>6, <2>5 DEF D!Readback
  <2> QED
    BY <2>3, <2>4, <2>5
<1>7. CASE D!Poll
  <2>1. CASE D!InForce /\ D!Return(plan)
    <3>1. UNCHANGED <<device, name, expected, handle, link, set, store, overlap>>
      BY <1>7 DEF D!Poll, D!process, D!system
    <3>2. D!Tunnel' = D!Tunnel
      BY <3>1 DEF D!Tunnel, D!Ours, D!InForce, D!Peered, D!Routed, D!Matches
    <3>3. answer' = plan /\ expected = plan /\ plan \in Plans
      BY <1>7, <2>1 DEF D!Poll, D!Return, DarwinInv, D!CallInv, D!TypeOK, D!Building
    <3> QED
      BY <2>1, <3>2, <3>3, InForceIsTunnel DEF D!Abstract!Next, D!Abstract!Answer
  <2>2. CASE D!Abort
    BY <1>5, <2>2 DEF D!Abort
  <2> QED
    BY <1>7, <2>1, <2>2 DEF D!Poll
<1>8. ASSUME NEW wrong, D!Disabled(wrong)
      PROVE  answer' \in {answer, Nothing, "error"}
  BY <1>8 DEF D!Disabled, D!Return
<1>9. CASE D!CloseDNS \/ D!RemoveKey
  <2>1. answer' \in {answer, Nothing, "error"}
    BY <1>8, <1>9 DEF D!CloseDNS, D!RemoveKey
  <2> QED
    BY <1>2, <1>4, <1>5, <2>1
<1>10. CASE D!Create \/ D!Configure \/ D!OpenDNS \/ D!Close
  <2>1. answer' \in {answer, "error"}
    BY <1>10 DEF D!Create, D!Configure, D!OpenDNS, D!Close, D!Return, D!Abort
  <2> QED
    BY <1>2, <1>5, <2>1
<1>11. CASE D!DisableStart \/ (\E p \in Plans : D!ApplyStart(p)) \/ D!Crash
  BY <1>2, <1>11 DEF D!DisableStart, D!ApplyStart, D!Crash
<1>12. CASE D!Retreat \/ D!Foreign \/ D!Heal \/ (\E k \in D!Keys : D!Overwrite(k))
            \/ UNCHANGED D!vars
  BY <1>5, <1>12 DEF D!Retreat, D!Unlink, D!GiveBack, D!Foreign, D!Heal, D!Overwrite, D!vars
<1> QED
  BY <1>6, <1>7, <1>9, <1>10, <1>11, <1>12 DEF D!Next, D!Step

-----------------------------------------------------------------------------
(* The Windows tunnel.                                                        *)

WindowsInv == W!TypeOK /\ W!ServiceInv

\* disable succeeds, for a following Apply or for its caller, or it fails.
LEMMA WindowsDisabledForms ==
    ASSUME NEW wrong \in BOOLEAN, W!Disabled(wrong)
    PROVE  /\ UNCHANGED call
           /\ \/ ~wrong /\ call = "apply" /\ pc' = "write" /\ UNCHANGED answer
              \/ ~wrong /\ pc' = "idle" /\ answer' = Nothing
              \/ pc' = "idle" /\ answer' = "error"
BY DEF W!Disabled, W!Return

\* What Readback and Poll read is true of the machine.
LEMMA ReadForms ==
    ASSUME WindowsInv
    PROVE  /\ W!Read \in Plans \cup {"empty", "error"}
           /\ W!Read = "empty" => W!Tunnel = Nothing
           /\ W!Read \in Plans => W!Tunnel = W!Read
<1>1. CASE ~W!Owned
  BY <1>1, PlansAssumption DEF W!Read
<1>2. CASE W!Owned /\ device = Nothing
  <2>1. W!Read = "empty" /\ W!Tunnel = Nothing
    BY <1>2 DEF W!Read, W!ReadbackOfDevice, W!InForce, W!Tunnel
  <2> QED
    BY <2>1, PlansAssumption
<1>3. CASE W!Owned /\ device # Nothing /\ W!InForce
  BY <1>3, PlansAssumption DEF W!Read, W!ReadbackOfDevice, W!Tunnel, WindowsInv, W!TypeOK
<1>4. CASE W!Owned /\ device # Nothing /\ ~W!InForce
  BY <1>4, PlansAssumption DEF W!Read, W!ReadbackOfDevice
<1> QED
  BY <1>1, <1>2, <1>3, <1>4

\* The calls of the process, its disable first.
LEMMA WindowsCallKeepsInv ==
    ASSUME WindowsInv, W!Step \/ W!DisableStart \/ W!Readback \/ \E p \in Plans : W!ApplyStart(p)
    PROVE  WindowsInv'
<1> USE DEF WindowsInv, W!Return, W!Abort
<1>1. CASE W!DisableStart
  BY <1>1, PlansAssumption DEF W!DisableStart, W!TypeOK, W!ServiceInv
<1>2. CASE W!Readback
  <2>1. W!Read \in Plans \cup {"empty", "error"}
    BY ReadForms
  <2> QED
    BY <1>2, <2>1, PlansAssumption DEF W!Readback, W!TypeOK, W!ServiceInv
<1>3. ASSUME NEW p \in Plans, W!ApplyStart(p) PROVE WindowsInv'
  BY <1>3, PlansAssumption DEF W!ApplyStart, W!TypeOK, W!ServiceInv
<1>4. CASE W!Verify
  <2>1. CASE pc' \in {"remove", "uninstall"} /\ UNCHANGED <<call, answer>>
    BY <1>4, <2>1, PlansAssumption DEF W!Verify, W!Disabled, W!Exists, W!TypeOK, W!ServiceInv
  <2>2. CASE W!Disabled(TRUE)
    <3>1. pc' = "idle" /\ answer' = "error" /\ UNCHANGED call
      BY <2>2, WindowsDisabledForms
    <3> QED
      BY <1>4, <3>1, PlansAssumption DEF W!Verify, W!TypeOK, W!ServiceInv
  <2> QED
    BY <1>4, <2>1, <2>2 DEF W!Verify
<1>5. CASE W!Uninstall
  BY <1>5, PlansAssumption DEF W!Uninstall, W!Exists, W!TypeOK, W!ServiceInv
<1>6. CASE W!Wait
  BY <1>6, PlansAssumption DEF W!Wait, W!Exists, W!TypeOK, W!ServiceInv
<1>7. CASE W!Remove
  <2>1. expected' \in Plans \cup {Nothing} /\ config' \in Plans \cup {Nothing}
    BY <1>7 DEF W!Remove, W!TypeOK
  <2>2. /\ UNCHANGED <<call, plan, service, device, overlap, faulty>> /\ pc = "remove"
        /\ \/ errors = {} /\ pc' = "write" /\ UNCHANGED answer
           \/ errors = {} /\ pc' = "idle" /\ answer' = Nothing
           \/ pc' = "idle" /\ answer' = "error"
        /\ errors' = {}
    BY <1>7, WindowsDisabledForms DEF W!Remove
  <2> QED
    BY <2>1, <2>2, PlansAssumption DEF W!TypeOK, W!ServiceInv
<1>8. CASE W!Write
  BY <1>8, PlansAssumption DEF W!Write, W!TypeOK, W!ServiceInv
<1>9. CASE W!Install
  BY <1>9, PlansAssumption DEF W!Install, W!TypeOK, W!ServiceInv
<1>10. CASE W!Poll
  BY <1>10, PlansAssumption DEF W!Poll, W!TypeOK, W!ServiceInv
<1> QED
  BY <1>1, <1>2, <1>3, <1>4, <1>5, <1>6, <1>7, <1>8, <1>9, <1>10 DEF W!Step

\* The service manager, other programs, and the end of the process.
LEMMA WindowsSystemKeepsInv ==
    ASSUME WindowsInv,
           W!Deleted \/ W!Intrude \/ W!Withdraw \/ W!StartStop \/ W!Overlap \/ W!Crash \/ W!Heal
           \/ UNCHANGED W!vars
    PROVE  WindowsInv'
<1> USE DEF WindowsInv
<1>1. CASE W!Deleted \/ W!Intrude \/ W!Withdraw
  BY <1>1 DEF W!Deleted, W!Intrude, W!Withdraw, W!TypeOK, W!ServiceInv
<1>2. CASE W!StartStop
  BY <1>2 DEF W!StartStop, W!TypeOK, W!ServiceInv
<1>3. CASE W!Overlap \/ W!Heal
  BY <1>3 DEF W!Overlap, W!Heal, W!TypeOK, W!ServiceInv
<1>4. CASE W!Crash
  BY <1>4, PlansAssumption DEF W!Crash, W!TypeOK, W!ServiceInv
<1>5. CASE UNCHANGED W!vars
  BY <1>5 DEF W!vars, W!TypeOK, W!ServiceInv
<1> QED
  BY <1>1, <1>2, <1>3, <1>4, <1>5

LEMMA StepWindowsInv == ASSUME WindowsInv, [W!Next]_W!vars PROVE WindowsInv'
BY WindowsCallKeepsInv, WindowsSystemKeepsInv DEF W!Next

LEMMA WindowsInvariant == FairSpec => [](part = "windows" => WindowsInv)
<1>1. ASSUME W!Init PROVE WindowsInv
  BY <1>1, PlansAssumption DEF W!Init, WindowsInv, W!TypeOK, W!ServiceInv
<1>2. Init => (part = "windows" => WindowsInv)
  BY <1>1 DEF Init
<1>3. (part = "windows" => WindowsInv) /\ [Next]_vars => (part = "windows" => WindowsInv)'
  BY StepWindowsInv, StepOfPart
<1> QED
  BY <1>2, <1>3, PTL DEF FairSpec

\* A step promises nothing, leaves the tunnel as it was, or says what is true.
LEMMA WindowsStepKeepsPromise ==
    ASSUME WindowsInv, WindowsInv', [W!Next]_W!vars
    PROVE  [W!Abstract!Next]_<<W!Tunnel, answer>>
<1>1. W!Tunnel' \in Plans \cup {Nothing, Rest}
  BY DEF WindowsInv, W!TypeOK, W!Tunnel
<1>2. CASE answer' \in {"none", "error"}
  BY <1>1, <1>2 DEF W!Abstract!Next, W!Abstract!Working, W!Abstract!Answer
<1>3. answer' = Nothing => W!Tunnel' = Nothing
  BY DEF WindowsInv, W!ServiceInv, W!Tunnel
<1>4. CASE answer' = Nothing
  BY <1>3, <1>4 DEF W!Abstract!Next, W!Abstract!Answer
<1>5. CASE UNCHANGED answer
  BY <1>1, <1>3, <1>5 DEF W!Abstract!Next, W!Abstract!Outside
<1>6. ASSUME answer' = W!Read, UNCHANGED <<expected, config, service, device, overlap>>
      PROVE  [W!Abstract!Next]_<<W!Tunnel, answer>>
  <2>1. W!Tunnel' = W!Tunnel
    BY <1>6 DEF W!Tunnel, W!InForce
  <2>2. CASE W!Read = "error"
    BY <1>2, <1>6, <2>2
  <2>3. CASE W!Read = "empty"
    BY <1>6, <2>1, <2>3, ReadForms DEF W!Abstract!Next, W!Abstract!Answer
  <2>4. CASE W!Read \in Plans
    BY <1>6, <2>1, <2>4, ReadForms DEF W!Abstract!Next, W!Abstract!Answer
  <2> QED
    BY <2>2, <2>3, <2>4, ReadForms
<1>7. CASE W!Readback
  BY <1>6, <1>7 DEF W!Readback
<1>8. CASE W!Poll
  <2>1. CASE W!Read = plan /\ answer' = plan
    BY <1>6, <1>8, <2>1 DEF W!Poll
  <2>2. CASE UNCHANGED answer
    BY <1>5, <2>2
  <2> QED
    BY <1>8, <2>1, <2>2 DEF W!Poll, W!Return, W!Abort
<1>9. CASE W!Verify \/ W!Remove
  <2>1. answer' \in {answer, Nothing, "error"}
    BY <1>9, WindowsDisabledForms DEF W!Verify, W!Remove
  <2> QED
    BY <1>2, <1>4, <1>5, <2>1
<1>10. CASE W!Write \/ W!Install \/ W!Uninstall \/ W!Wait
  <2>1. answer' \in {answer, "error"}
    BY <1>10 DEF W!Write, W!Install, W!Uninstall, W!Wait, W!Return, W!Abort
  <2> QED
    BY <1>2, <1>5, <2>1
<1>11. CASE W!DisableStart \/ (\E p \in Plans : W!ApplyStart(p)) \/ W!Crash
  BY <1>2, <1>11 DEF W!DisableStart, W!ApplyStart, W!Crash
<1>12. CASE W!Deleted \/ W!Intrude \/ W!Withdraw \/ W!StartStop \/ W!Overlap \/ W!Heal
            \/ UNCHANGED W!vars
  BY <1>5, <1>12 DEF W!Deleted, W!Intrude, W!Withdraw, W!StartStop, W!Overlap, W!Heal, W!vars
<1> QED
  BY <1>7, <1>8, <1>9, <1>10, <1>11, <1>12 DEF W!Next, W!Step

-----------------------------------------------------------------------------
(* The refinement of TunnelSystem, by the three of them.                      *)

(* What an answer of the proxy or of a tunnel says of the machine is true     *)
(* when it is given, and what was disabled stays down until the next call     *)
(* (mihomo.go, system_darwin.go, system_windows.go).                          *)
THEOREM PartsKeepPromise == FairSpec => SystemsKeepPromise
<1>1. (part = "darwin" => DarwinInv) /\ (part = "darwin" => DarwinInv)' /\ [Next]_vars
      => [part = "darwin" => [D!Abstract!Next]_<<D!Tunnel, answer>>]_vars
  BY StepOfPart, DarwinStepKeepsPromise
<1>2. (part = "windows" => WindowsInv) /\ (part = "windows" => WindowsInv)' /\ [Next]_vars
      => [part = "windows" => [W!Abstract!Next]_<<W!Tunnel, answer>>]_vars
  BY StepOfPart, WindowsStepKeepsPromise
<1>3. (part = "mihomo" => ProxyInv) /\ (part = "mihomo" => ProxyInv)' /\ [Next]_vars
      => [part = "mihomo" => [M!Abstract!Next]_<<M!Tunnel, answer>>]_vars
  BY StepOfPart, ProxyStepKeepsPromise
<1> QED
  BY <1>1, <1>2, <1>3, DarwinInvariant, WindowsInvariant, MihomoInvariant, PTL
     DEF FairSpec, SystemsKeepPromise

\* At first nothing is in force.
LEMMA NothingAtFirst ==
    /\ D!Init => D!Abstract!Init
    /\ W!Init => W!Abstract!Init
    /\ M!Init => M!Abstract!Init
<1>1. D!Init => D!Abstract!Init
  BY DEF D!Init, D!Abstract!Init, D!Tunnel, D!Ours, D!Empty
<1>2. W!Init => W!Abstract!Init
  BY DEF W!Init, W!Abstract!Init, W!Tunnel
<1>3. M!Init => M!Abstract!Init
  BY DEF M!Init, M!Abstract!Init, M!Tunnel, M!Ingress, M!Inert
<1> QED
  BY <1>1, <1>2, <1>3

(* Each of the three systems is a TunnelSystem: it starts with nothing in      *)
(* force, and from then on keeps its promise (mihomo.go, system_darwin.go,     *)
(* system_windows.go).                                                        *)
THEOREM PartsAreTunnelSystems ==
    /\ FairSpec /\ part = "darwin" => D!Abstract!Spec
    /\ FairSpec /\ part = "windows" => W!Abstract!Spec
    /\ FairSpec /\ part = "mihomo" => M!Abstract!Spec
<1>1. FairSpec /\ part = "darwin" => D!Abstract!Spec
  <2>1. Init /\ part = "darwin" => D!Abstract!Init
    BY NothingAtFirst DEF Init
  <2>2. part = "darwin" /\ [Next]_vars => (part = "darwin")'
    BY StepOfPart
  <2>3. part = "darwin" /\ DarwinInv /\ DarwinInv' /\ [Next]_vars
        => [D!Abstract!Next]_<<D!Tunnel, answer>>
    BY StepOfPart, DarwinStepKeepsPromise
  <2> QED
    BY <2>1, <2>2, <2>3, DarwinInvariant, PTL DEF FairSpec, D!Abstract!Spec
<1>2. FairSpec /\ part = "windows" => W!Abstract!Spec
  <2>1. Init /\ part = "windows" => W!Abstract!Init
    BY NothingAtFirst DEF Init
  <2>2. part = "windows" /\ [Next]_vars => (part = "windows")'
    BY StepOfPart
  <2>3. part = "windows" /\ WindowsInv /\ WindowsInv' /\ [Next]_vars
        => [W!Abstract!Next]_<<W!Tunnel, answer>>
    BY StepOfPart, WindowsStepKeepsPromise
  <2> QED
    BY <2>1, <2>2, <2>3, WindowsInvariant, PTL DEF FairSpec, W!Abstract!Spec
<1>3. FairSpec /\ part = "mihomo" => M!Abstract!Spec
  <2>1. Init /\ part = "mihomo" => M!Abstract!Init
    BY NothingAtFirst DEF Init
  <2>2. part = "mihomo" /\ [Next]_vars => (part = "mihomo")'
    BY StepOfPart
  <2>3. part = "mihomo" /\ ProxyInv /\ ProxyInv' /\ [Next]_vars
        => [M!Abstract!Next]_<<M!Tunnel, answer>>
    BY StepOfPart, ProxyStepKeepsPromise
  <2> QED
    BY <2>1, <2>2, <2>3, MihomoInvariant, PTL DEF FairSpec, M!Abstract!Spec
<1> QED
  BY <1>1, <1>2, <1>3

-----------------------------------------------------------------------------
(* The software library.                                                      *)

LibraryInv == L!TypeOK /\ L!TaskInv

\* The states of a task, and the steps of a goroutine, are different ones.
LEMMA TaskStates ==
    /\ None \notin L!Unfinished \cup {"partial"}
    /\ L!Unfinished \cap L!Final = {}
BY NoneAssumption DEF L!Unfinished, L!Final

\* Requests: one that gets the lock finds no goroutine under way.
LEMMA RequestKeepsInv ==
    ASSUME LibraryInv, NEW t \in Tasks, L!Lookup(t) \/ L!Refuse(t) \/ L!Install(t)
    PROVE  LibraryInv'
<1> USE DEF LibraryInv, L!Move, L!Steps
<1>1. CASE L!Lookup(t)
  <2>1. L!TypeOK'
    BY <1>1 DEF L!Lookup, L!TypeOK
  <2> QED
    BY <1>1, <2>1 DEF L!Lookup, L!TypeOK, L!TaskInv
<1>2. CASE L!Refuse(t)
  <2>1. L!TypeOK'
    BY <1>2 DEF L!Refuse, L!TypeOK
  <2> QED
    BY <1>2, <2>1 DEF L!Refuse, L!TypeOK, L!TaskInv
<1>3. CASE L!Install(t)
  <2>1. L!TypeOK'
    BY <1>3 DEF L!Install, L!Update, L!Unfinished, L!TypeOK
  <2> QED
    BY <1>3, <2>1 DEF L!Install, L!Update, L!TypeOK, L!TaskInv
<1> QED
  BY <1>1, <1>2, <1>3

\* The goroutine: it is the only one, and its task is final before it unlocks.
LEMMA RunKeepsInv ==
    ASSUME LibraryInv, NEW t \in Tasks, L!Run(t)
    PROVE  LibraryInv'
<1> USE DEF LibraryInv, L!Move, L!Update, L!Steps
<1>1. CASE L!Request(t)
  <2>1. L!TypeOK'
    BY <1>1 DEF L!Request, L!Fail, L!Discard, L!TypeOK, L!Unfinished, L!Final
  <2>2. L!TaskInv'
    BY <1>1, TaskStates DEF L!Request, L!Fail, L!Discard, L!TypeOK, L!TaskInv, L!Final
  <2> QED
    BY <2>1, <2>2
<1>2. CASE L!Copy(t)
  <2>1. fetched' \in [Tasks -> Nat]
    BY <1>2 DEF L!Copy, L!TypeOK
  <2>2. L!TypeOK'
    BY <1>2, <2>1 DEF L!Copy, L!Fail, L!Discard, L!TypeOK, L!Unfinished, L!Final
  <2>3. \A u \in Tasks \ {t} : fetched'[u] = fetched[u]
    BY <1>2 DEF L!Copy, L!TypeOK
  <2>4. L!TaskInv'
    BY <1>2, <2>3, TaskStates DEF L!Copy, L!Fail, L!Discard, L!TypeOK, L!TaskInv, L!Final
  <2> QED
    BY <2>2, <2>4
<1>3. CASE L!Verify(t)
  <2>1. L!TypeOK'
    BY <1>3 DEF L!Verify, L!Fail, L!Discard, L!TypeOK, L!Unfinished, L!Final
  <2>2. L!TaskInv'
    BY <1>3, TaskStates DEF L!Verify, L!Fail, L!Discard, L!TypeOK, L!TaskInv, L!Final
  <2> QED
    BY <2>1, <2>2
<1>4. CASE L!Open(t)
  <2>1. opened' \in SUBSET (Nat \X Nat)
    BY <1>4 DEF L!Open, L!TypeOK
  <2>2. L!TypeOK'
    BY <1>4, <2>1 DEF L!Open, L!TypeOK, L!Final
  <2>3. L!TaskInv'
    BY <1>4, TaskStates DEF L!Open, L!TypeOK, L!TaskInv, L!Final
  <2> QED
    BY <2>2, <2>3
<1>5. CASE L!Unlock(t)
  <2>1. L!TypeOK'
    BY <1>5 DEF L!Unlock, L!TypeOK
  <2>2. L!TaskInv'
    BY <1>5 DEF L!Unlock, L!TypeOK, L!TaskInv
  <2> QED
    BY <2>1, <2>2
<1> QED
  BY <1>1, <1>2, <1>3, <1>4, <1>5 DEF L!Run

LEMMA StepLibraryInv == ASSUME LibraryInv, [L!Next]_L!vars PROVE LibraryInv'
<1>1. CASE L!Publish
  <2>1. offered' \in Nat /\ served' \in Nat
    BY <1>1 DEF L!Publish, LibraryInv, L!TypeOK
  <2> QED
    BY <1>1, <2>1 DEF L!Publish, LibraryInv, L!TypeOK, L!TaskInv
<1>2. CASE UNCHANGED L!vars
  BY <1>2 DEF L!vars, LibraryInv, L!TypeOK, L!TaskInv
<1> QED
  BY <1>1, <1>2, RequestKeepsInv, RunKeepsInv DEF L!Next

LEMMA LibraryInvariant == FairSpec => [](part = "library" => LibraryInv)
<1>1. ASSUME L!Init PROVE LibraryInv
  BY <1>1, NoneAssumption, TaskStates
     DEF L!Init, LibraryInv, L!TypeOK, L!TaskInv, L!Steps
<1>2. Init => (part = "library" => LibraryInv)
  BY <1>1 DEF Init
<1>3. (part = "library" => LibraryInv) /\ [Next]_vars => (part = "library" => LibraryInv)'
  BY StepLibraryInv, StepOfPart
<1> QED
  BY <1>2, <1>3, PTL DEF FairSpec

\* The installer never sees an artifact that was not compared.
LEMMA StepOpened ==
    ASSUME LibraryInv, L!OpenedIsVerified, [L!Next]_L!vars
    PROVE  L!OpenedIsVerified'
<1>1. ASSUME NEW t \in Tasks, L!Open(t) PROVE L!OpenedIsVerified'
  BY <1>1 DEF L!Open, LibraryInv, L!TaskInv, L!OpenedIsVerified
<1>2. CASE ~\E t \in Tasks : L!Open(t)
  <2>1. UNCHANGED opened
    BY <1>2
       DEF L!Next, L!Run, L!Lookup, L!Refuse, L!Request, L!Copy, L!Verify, L!Unlock, L!Publish,
           L!Install, L!vars
  <2> QED
    BY <2>1 DEF L!OpenedIsVerified
<1> QED
  BY <1>1, <1>2

\* In a run of the library the installer saw only what was compared.
LibraryOpens == part = "library" => L!OpenedIsVerified

(* The installer is opened only with the package that the catalog described    *)
(* when the request looked it up, whatever is published meanwhile (install,    *)
(* runInstall).                                                                *)
LEMMA OpenedPackages == FairSpec => []LibraryOpens
<1>1. ASSUME L!Init PROVE L!OpenedIsVerified
  BY <1>1 DEF L!Init, L!OpenedIsVerified
<1>2. Init => LibraryOpens
  BY <1>1 DEF Init, LibraryOpens
<1>3. LibraryOpens /\ (part = "library" => LibraryInv) /\ [Next]_vars => LibraryOpens'
  BY StepOpened, StepOfPart DEF LibraryOpens
<1> QED
  BY <1>2, <1>3, LibraryInvariant, PTL DEF FairSpec

(* However many requests for installations come at once, one is under way,     *)
(* only its task has a directory with a part of a package, and the installer   *)
(* is opened only with the package the catalog described (install, runInstall, *)
(* download).                                                                  *)
THEOREM InstallationsExclude == FairSpec => []OneInstallation
<1>1. ASSUME LibraryInv PROVE L!OneInstallation
  <2>1. ASSUME NEW t \in Tasks, tasks[t] \in L!Unfinished \/ kept[t] = "partial"
        PROVE  pc[t] \notin {"idle", "found", "done"}
    BY <1>1, <2>1 DEF LibraryInv, L!TaskInv
  <2> QED
    BY <1>1, <2>1 DEF LibraryInv, L!TaskInv, L!OneInstallation
<1>2. (part = "library" => LibraryInv) /\ LibraryOpens => OneInstallation
  BY <1>1 DEF OneInstallation, LibraryOpens
<1> QED
  BY <1>2, LibraryInvariant, OpenedPackages, PTL

-----------------------------------------------------------------------------
(* The recovery of a connection in the user interface.                        *)

RecoveryInv == R!TypeOK /\ R!PlanInv

\* A plan is a record with two counters.
LEMMA PlanFields ==
    ASSUME RecoveryInv, recovery # None
    PROVE  /\ recovery.failures \in 0..3 /\ recovery.attempts \in 0..MaxAttempts
           /\ spent = recovery.attempts /\ panel = "idle"
BY DEF RecoveryInv, R!TypeOK, R!PlanInv

LEMMA PlanTyped ==
    ASSUME NEW f \in 0..3, NEW a \in 0..MaxAttempts
    PROVE  /\ R!Plan(f, a) \in [failures : 0..3, attempts : 0..MaxAttempts]
           /\ R!Plan(f, a).attempts = a /\ R!Plan(f, a) # None
BY NoneAssumption, BoundsAssumption DEF R!Plan

\* The effect of an observation counts what it starts.
LEMMA EffectKeepsInv == ASSUME RecoveryInv, R!Effect PROVE RecoveryInv'
<1> USE DEF RecoveryInv
<1>1. recovery # None /\ login /\ fresh' = FALSE
  BY DEF R!Effect, R!Healthy, R!Ignore, R!Exhaust, R!Count, R!Attempt, R!Fails, R!Observed
<1>2. /\ recovery.failures \in 0..3 /\ recovery.attempts \in 0..MaxAttempts
      /\ spent = recovery.attempts /\ panel = "idle"
  BY <1>1, PlanFields
<1>3. CASE R!Healthy
  <2>1. recovery' = [recovery EXCEPT !.failures = 0]
    BY <1>3 DEF R!Healthy, R!Reset
  <2>2. /\ recovery' \in [failures : 0..3, attempts : 0..MaxAttempts]
        /\ recovery'.attempts = recovery.attempts
    BY <1>1, <2>1 DEF R!TypeOK
  <2>3. R!TypeOK'
    BY <1>1, <1>3, <2>2 DEF R!Healthy, R!TypeOK
  <2>4. R!PlanInv'
    BY <1>2, <1>3, <2>2 DEF R!Healthy, R!PlanInv
  <2> QED
    BY <2>3, <2>4
<1>4. CASE R!Ignore
  BY <1>1, <1>4 DEF R!Ignore, R!TypeOK, R!PlanInv
<1>5. CASE R!Exhaust
  BY <1>1, <1>5 DEF R!Exhaust, R!TypeOK, R!PlanInv
<1>6. CASE R!Count
  <2>1. R!Failures \in 0..3 /\ R!Retrying \in BOOLEAN
    BY <1>2 DEF R!Failures, R!Retrying, R!TypeOK
  <2>2. /\ recovery' \in [failures : 0..3, attempts : 0..MaxAttempts]
        /\ recovery'.attempts = recovery.attempts
    BY <1>2, <1>6, <2>1, PlanTyped DEF R!Count
  <2>3. R!TypeOK'
    BY <1>1, <1>6, <2>1, <2>2 DEF R!Count, R!TypeOK
  <2>4. R!PlanInv'
    BY <1>2, <1>6, <2>2 DEF R!Count, R!PlanInv
  <2> QED
    BY <2>3, <2>4
<1>7. CASE R!Attempt
  <2>1. recovery.attempts + 1 \in 0..MaxAttempts
    BY <1>2, <1>7, BoundsAssumption DEF R!Attempt
  <2>2. /\ recovery' \in [failures : 0..3, attempts : 0..MaxAttempts]
        /\ recovery'.attempts = recovery.attempts + 1 /\ spent' = recovery.attempts + 1
    BY <1>2, <1>7, <2>1, PlanTyped DEF R!Attempt
  <2>3. R!TypeOK'
    BY <1>1, <1>7, <2>1, <2>2 DEF R!Attempt, R!TypeOK
  <2>4. R!PlanInv'
    BY <1>2, <1>7, <2>2 DEF R!Attempt, R!PlanInv
  <2> QED
    BY <2>3, <2>4
<1> QED
  BY <1>3, <1>4, <1>5, <1>6, <1>7 DEF R!Effect

\* A failed request keeps the plan or forgets it.
LEMMA FailedForms ==
    ASSUME RecoveryInv, NEW transient \in BOOLEAN, R!Failed(transient)
    PROVE  mutation' = "idle" /\ retry' \in BOOLEAN /\ recovery' \in {recovery, None}
BY DEF R!Failed, RecoveryInv, R!TypeOK

\* What the service may answer.
LEMMA AnswersTyped ==
    ASSUME RecoveryInv
    PROVE  /\ R!Cleared \/ R!NotCleared => /\ vpn' \in R!Sessions \cup R!Idle
                                        /\ seen' \in R!Sessions \cup R!Idle
                                        /\ fresh' \in BOOLEAN
           /\ R!Established \/ R!NotEstablished => vpn' \in R!Sessions \cup R!Idle
<1>1. vpn \in R!Sessions \cup R!Idle /\ seen \in R!Sessions \cup R!Idle /\ fresh \in BOOLEAN
  BY DEF RecoveryInv, R!TypeOK
<1>2. {"disconnected", "rejected", "unclean", "connected"} \subseteq R!Sessions \cup R!Idle
  BY DEF R!Sessions, R!Idle
<1>3. R!Cleared => vpn' = "disconnected" /\ seen' = vpn' /\ fresh' = TRUE
  BY DEF R!Cleared, R!Show
<1>4. R!NotCleared => vpn' \in {vpn, "disconnected", "rejected", "unclean"}
                      /\ \/ seen' = seen /\ fresh' = fresh
                         \/ seen' = vpn' /\ fresh' = TRUE
  <2>1. UNCHANGED R!observed => seen' = seen /\ fresh' = fresh
    BY DEF R!observed
  <2>2. R!NotCleared => vpn' \in {vpn, "disconnected", "rejected", "unclean"}
    BY DEF R!NotCleared
  <2>3. R!NotCleared => UNCHANGED R!observed \/ (seen' = vpn' /\ fresh' = TRUE)
    BY DEF R!NotCleared, R!Show
  <2> QED
    BY <2>1, <2>2, <2>3
<1>5. R!Established \/ R!NotEstablished => vpn' \in R!Sessions \cup R!Idle
  BY <1>1, <1>2 DEF R!Established, R!NotEstablished
<1> QED
  BY <1>1, <1>2, <1>3, <1>4, <1>5

\* The requests of the recovery neither count nor store.
LEMMA MutationKeepsInv == ASSUME RecoveryInv, R!Mutation PROVE RecoveryInv'
<1> USE DEF RecoveryInv
<1>1. UNCHANGED <<login, cooling, live, panel, spent>>
  BY DEF R!Mutation, R!Disconnect, R!Intent, R!Connect
<1>2. /\ recovery' \in {recovery, None} /\ retry' \in BOOLEAN
      /\ mutation' \in {"idle", "intent", "connect"}
  BY FailedForms DEF R!Mutation, R!Disconnect, R!Intent, R!Connect, R!TypeOK
<1>3. /\ vpn' \in R!Sessions \cup R!Idle /\ seen' \in R!Sessions \cup R!Idle
      /\ fresh' \in BOOLEAN
  <2>1. CASE R!Disconnect
    BY <2>1, AnswersTyped DEF R!Disconnect
  <2>2. CASE R!Intent
    BY <2>2 DEF R!Intent, R!observed, R!TypeOK
  <2>3. CASE R!Connect
    <3>1. vpn' \in R!Sessions \cup R!Idle
      BY <2>3, AnswersTyped DEF R!Connect
    <3>2. seen' \in {seen, "connected"} /\ fresh' \in {fresh, TRUE}
      BY <2>3 DEF R!Connect, R!Show, R!observed
    <3> QED
      BY <3>1, <3>2 DEF R!TypeOK, R!Sessions
  <2> QED
    BY <2>1, <2>2, <2>3 DEF R!Mutation
<1>4. R!TypeOK'
  BY <1>1, <1>2, <1>3 DEF R!TypeOK
<1>5. R!PlanInv'
  BY <1>1, <1>2 DEF R!PlanInv
<1> QED
  BY <1>4, <1>5

\* An operation of the panel forgets the plan, and its connection begins with a
\* new one and nothing spent.
LEMMA PanelKeepsInv ==
    ASSUME RecoveryInv, R!PanelStart \/ R!PanelDisconnect \/ R!PanelIntent \/ R!PanelConnect
    PROVE  RecoveryInv'
<1> USE DEF RecoveryInv
<1>1. CASE R!PanelStart
  <2>1. panel' \in {"intent", "disconnect", "switch"}
    BY <1>1 DEF R!PanelStart, R!Sessions, R!TypeOK, R!Idle
  <2>2. R!TypeOK'
    BY <1>1, <2>1 DEF R!PanelStart, R!observed, R!TypeOK
  <2> QED
    BY <1>1, <2>2 DEF R!PanelStart, R!PlanInv
<1>2. CASE R!PanelDisconnect
  <2>1. /\ vpn' \in R!Sessions \cup R!Idle /\ seen' \in R!Sessions \cup R!Idle
        /\ fresh' \in BOOLEAN
    BY <1>2, AnswersTyped DEF R!PanelDisconnect
  <2>2. panel' \in {"idle", "intent"} /\ panel # "idle"
    BY <1>2 DEF R!PanelDisconnect
  <2>3. R!TypeOK'
    BY <1>2, <2>1, <2>2 DEF R!PanelDisconnect, R!TypeOK
  <2> QED
    BY <1>2, <2>2, <2>3 DEF R!PanelDisconnect, R!PlanInv
<1>3. CASE R!PanelIntent
  <2>1. panel' \in {"idle", "connect"} /\ panel # "idle"
    BY <1>3 DEF R!PanelIntent
  <2>2. R!TypeOK'
    BY <1>3, <2>1 DEF R!PanelIntent, R!observed, R!TypeOK
  <2> QED
    BY <1>3, <2>1, <2>2 DEF R!PanelIntent, R!PlanInv
<1>4. CASE R!PanelConnect
  <2>1. recovery = None /\ panel' = "idle" /\ UNCHANGED <<login, mutation, live>>
    BY <1>4 DEF R!PanelConnect, R!PlanInv
  <2>2. vpn' \in R!Sessions \cup R!Idle
    BY <1>4, AnswersTyped DEF R!PanelConnect
  <2>3. CASE /\ seen' = "connected" /\ fresh' = TRUE /\ cooling' = FALSE /\ spent' = 0
             /\ recovery' \in {recovery, R!Plan(0, 0)} /\ retry' = FALSE
    <3>1. 0 \in 0..MaxAttempts /\ 0 \in 0..3
      BY BoundsAssumption
    <3>2. /\ R!Plan(0, 0) \in [failures : 0..3, attempts : 0..MaxAttempts]
          /\ R!Plan(0, 0).attempts = 0
      BY <3>1, PlanTyped
    <3>3. R!TypeOK'
      BY <2>1, <2>2, <2>3, <3>1, <3>2 DEF R!TypeOK, R!Sessions
    <3>4. R!PlanInv'
      BY <2>1, <2>3, <3>2 DEF R!PlanInv
    <3> QED
      BY <3>3, <3>4
  <2>4. CASE UNCHANGED <<recovery, retry, cooling, seen, fresh, spent>>
    <3>1. R!TypeOK'
      BY <2>1, <2>2, <2>4 DEF R!TypeOK
    <3>2. R!PlanInv'
      BY <2>1, <2>4 DEF R!PlanInv
    <3> QED
      BY <3>1, <3>2
  <2> QED
    BY <1>4, <2>3, <2>4 DEF R!PanelConnect, R!Show, R!observed
<1> QED
  BY <1>1, <1>2, <1>3, <1>4

\* Polls, the cooldown, logins and the service.
LEMMA AroundKeepsInv ==
    ASSUME RecoveryInv,
           R!Poll \/ R!Cool \/ R!Logout \/ R!Login \/ R!Service \/ UNCHANGED R!vars
    PROVE  RecoveryInv'
<1> USE DEF RecoveryInv
<1>1. CASE R!Poll \/ R!Cool
  BY <1>1 DEF R!Poll, R!Cool, R!Show, R!observed, R!TypeOK, R!PlanInv
<1>2. CASE R!Logout \/ R!Login
  BY <1>2 DEF R!Logout, R!Login, R!observed, R!TypeOK, R!PlanInv
<1>3. CASE R!Service
  <2>1. vpn' \in R!Sessions \cup R!Idle
    BY <1>3 DEF R!Service, R!Sessions, R!Idle, R!TypeOK
  <2>2. R!TypeOK'
    BY <1>3, <2>1 DEF R!Service, R!observed, R!TypeOK
  <2> QED
    BY <1>3, <2>2 DEF R!Service, R!PlanInv
<1>4. CASE UNCHANGED R!vars
  BY <1>4 DEF R!vars, R!observed, R!TypeOK, R!PlanInv
<1> QED
  BY <1>1, <1>2, <1>3, <1>4

(* However often a tunnel comes back and is lost, a connection of the user is   *)
(* recovered at most maxAttempts times (VPNRecovery, vpn-recovery.tsx:51).     *)
THEOREM AttemptsAreBounded == FairSpec => []BudgetKept
<1> DEFINE Inv == part = "recovery" => RecoveryInv
<1>1. ASSUME R!Init PROVE RecoveryInv
  <2>1. "disconnected" \in R!Sessions \cup R!Idle
    BY DEF R!Idle
  <2>2. R!TypeOK
    <3>1. /\ login = TRUE /\ retry = FALSE /\ cooling = FALSE /\ fresh = FALSE /\ live = FALSE
          /\ recovery = None /\ seen = "disconnected" /\ vpn = "disconnected"
          /\ mutation = "idle" /\ panel = "idle" /\ spent = 0
      BY <1>1 DEF R!Init
    <3>2. 0 \in 0..MaxAttempts
      BY BoundsAssumption
    <3> QED
      BY <2>1, <3>1, <3>2 DEF R!TypeOK
  <2>3. R!PlanInv
    BY <1>1 DEF R!Init, R!PlanInv
  <2> QED
    BY <2>2, <2>3 DEF RecoveryInv
<1>2. Init => Inv
  BY <1>1 DEF Init
<1>3. ASSUME RecoveryInv, [R!Next]_R!vars PROVE RecoveryInv'
  BY <1>3, EffectKeepsInv, MutationKeepsInv, PanelKeepsInv, AroundKeepsInv DEF R!Next
<1>4. Inv /\ [Next]_vars => Inv'
  BY <1>3, StepOfPart
<1>5. Inv => BudgetKept
  BY BoundsAssumption DEF RecoveryInv, R!TypeOK, R!BudgetKept, BudgetKept
<1> QED
  BY <1>2, <1>4, <1>5, PTL DEF FairSpec

-----------------------------------------------------------------------------
(* Updates of the application (AppUpdate).                                    *)
UpdateInv == U!TypeOK /\ U!CandidateInv

\* A check starts, and fetches the manifest and its signature.
LEMMA FetchKeepsInv ==
    ASSUME UpdateInv, (\E o \in {"check", "install"} : U!Start(o)) \/ U!Fetch
    PROVE  UpdateInv'
<1> USE DEF UpdateInv
<1>1. CASE \E o \in {"check", "install"} : U!Start(o)
  <2> PICK o \in {"check", "install"} : U!Start(o)
    BY <1>1
  <2>1. UNCHANGED <<manifest, candidate, delivered, status>> /\ UNCHANGED U!world
        /\ pc' = "manifest" /\ op' \in {"check", "install"} /\ asked' \in BOOLEAN
    BY DEF U!Start, U!TypeOK
  <2> QED
    BY <2>1 DEF U!world, U!TypeOK, U!CandidateInv, U!Signed
<1>2. CASE U!Fetch
  <2>1. UNCHANGED <<op, asked>> /\ UNCHANGED U!world
    BY <1>2 DEF U!Fetch
  <2>2. CASE manifest' \in U!Signed /\ pc' = "signature" /\ UNCHANGED <<candidate, delivered, status>>
    BY <2>1, <2>2 DEF U!world, U!TypeOK, U!CandidateInv, U!Signed
  <2>3. CASE U!Idle(status) /\ UNCHANGED manifest
    BY <2>1, <2>3 DEF U!world, U!Idle, U!TypeOK, U!CandidateInv, U!Signed
  <2> QED
    BY <1>2, <2>2, <2>3 DEF U!Fetch
<1> QED
  BY <1>1, <1>2

\* A request that ends keeps no candidate.
LEMMA EndKeepsInv ==
    ASSUME UpdateInv, NEW s \in [mode : {"self", "external"}, available : U!Versions \cup {None}],
           U!Idle(s), UNCHANGED <<op, asked, manifest>>, UNCHANGED U!world
    PROVE  UpdateInv'
BY DEF U!Idle, U!world, UpdateInv, U!TypeOK, U!CandidateInv, U!Signed

\* A manifest becomes a candidate only with its signature, and never backwards.
LEMMA CheckKeepsInv == ASSUME UpdateInv, U!Check PROVE UpdateInv'
<1> USE DEF UpdateInv
<1>1. UNCHANGED <<op, asked, manifest>> /\ UNCHANGED U!world
  BY DEF U!Check
<1>2. manifest \in U!Signed /\ manifest \in U!Versions
  BY DEF U!Check, U!CandidateInv, U!Signed
<1>3. /\ status \in [mode : {"self", "external"}, available : U!Versions \cup {None}]
      /\ U!NotFound \in [mode : {"self", "external"}, available : U!Versions \cup {None}]
      /\ U!Found(manifest) \in [mode : {"self", "external"}, available : U!Versions \cup {None}]
  BY <1>2 DEF U!NotFound, U!Default, U!Found, U!Mode, U!TypeOK
<1>4. CASE U!Idle(status) \/ U!Idle(U!NotFound) \/ U!Idle(U!Found(manifest))
  BY <1>1, <1>3, <1>4, EndKeepsInv
<1>5. CASE manifest > installed /\ op # "check" /\ U!Release(manifest)
  <2>1. PICK d \in {FALSE, platform = "windows" /\ executable = installed} :
            candidate' = [version |-> manifest, delta |-> d]
    BY <1>5 DEF U!Release
  <2>2. d \in BOOLEAN
    BY <2>1
  <2>3. /\ candidate' \in [version : U!Signed, delta : BOOLEAN]
        /\ candidate' \in [version : U!Versions, delta : BOOLEAN]
        /\ candidate'.version = manifest
    BY <1>2, <2>1, <2>2
  <2>4. pc' \in {"delta", "full"} /\ UNCHANGED <<delivered, status>>
    BY <1>5 DEF U!Release
  <2>5. U!Signed' = U!Signed
    BY <1>1 DEF U!world, U!Signed
  <2>6. U!TypeOK'
    BY <1>1, <2>3, <2>4 DEF U!world, U!TypeOK
  <2>7. U!CandidateInv'
    BY <1>1, <1>5, <2>3, <2>4, <2>5 DEF U!world, U!CandidateInv
  <2> QED
    BY <2>6, <2>7
<1>6. ASSUME NEW signature \in U!Signed,
             CASE signature # manifest \/ manifest < installed -> U!Idle(status)
               [] signature = manifest /\ manifest = installed ->
                    U!Idle(IF op = "check" THEN U!NotFound ELSE status)
               [] OTHER -> U!Release(manifest)
      PROVE  UpdateInv'
  <2>1. manifest \in Nat /\ installed \in Nat
    BY <1>2, BoundsAssumption DEF U!Versions, U!TypeOK
  <2>2. CASE signature # manifest \/ manifest < installed
    BY <1>4, <1>6, <2>2
  <2>3. CASE signature = manifest /\ manifest = installed
    BY <1>4, <1>6, <2>1, <2>3
  <2>4. CASE signature = manifest /\ manifest > installed
    <3>1. U!Release(manifest)
      BY <1>6, <2>1, <2>4
    <3>2. CASE op = "check"
      BY <1>4, <3>1, <3>2 DEF U!Release
    <3> QED
      BY <1>5, <2>4, <3>1, <3>2
  <2> QED
    BY <2>1, <2>2, <2>3, <2>4
<1> QED
  BY <1>4, <1>6 DEF U!Check

\* What is handed over is the candidate's content, from a delta or in full.
LEMMA DeliverKeepsInv == ASSUME UpdateInv, U!Delta \/ U!Full PROVE UpdateInv'
<1> USE DEF UpdateInv
<1>1. UNCHANGED <<op, asked, manifest>> /\ UNCHANGED U!world
  BY DEF U!Delta, U!Full
<1>2. /\ candidate \in [version : U!Signed, delta : BOOLEAN]
      /\ candidate.version > installed /\ candidate.version \in U!Versions
  BY DEF U!Delta, U!Full, U!CandidateInv, U!Signed
<1>3. U!Signed' = U!Signed
  BY <1>1 DEF U!world, U!Signed
<1>4. CASE pc' = "replace" /\ delivered' = candidate.version /\ UNCHANGED <<candidate, status>>
  BY <1>1, <1>2, <1>3, <1>4 DEF U!world, U!TypeOK, U!CandidateInv
<1>5. CASE pc' = "full" /\ UNCHANGED <<delivered, candidate, status>>
  BY <1>1, <1>2, <1>3, <1>5 DEF U!world, U!TypeOK, U!CandidateInv
<1>6. CASE U!Idle(status)
  <2>1. status \in [mode : {"self", "external"}, available : U!Versions \cup {None}]
    BY DEF U!TypeOK
  <2> QED
    BY <1>1, <1>6, <2>1, EndKeepsInv
<1> QED
  BY <1>4, <1>5, <1>6 DEF U!Delta, U!Full

\* The replaced application is a signed successor, with its content.
LEMMA ReplaceForms ==
    ASSUME UpdateInv, U!Replace
    PROVE  /\ UNCHANGED <<op, manifest, published, writable, platform>> /\ asked' \in BOOLEAN
           /\ \/ /\ installed' = candidate.version /\ executable' = candidate.version
                 /\ candidate.version \in U!Signed /\ candidate.version > installed
                 /\ U!Idle(U!NotFound)
              \/ UNCHANGED <<installed, executable, asked>> /\ U!Idle(status)
BY DEF U!Replace, UpdateInv, U!TypeOK, U!CandidateInv

LEMMA ReplaceKeepsInv == ASSUME UpdateInv, U!Replace PROVE UpdateInv'
<1> USE DEF UpdateInv
<1>1. UNCHANGED <<op, manifest, published, writable, platform>> /\ asked' \in BOOLEAN
  BY ReplaceForms
<1>2. CASE UNCHANGED <<installed, executable, asked>> /\ U!Idle(status)
  <2>1. UNCHANGED U!world
    BY <1>1, <1>2 DEF U!world
  <2>2. status \in [mode : {"self", "external"}, available : U!Versions \cup {None}]
    BY DEF U!TypeOK
  <2> QED
    BY <1>1, <1>2, <2>1, <2>2, EndKeepsInv
<1>3. CASE /\ installed' = candidate.version /\ executable' = candidate.version
           /\ candidate.version \in U!Signed /\ U!Idle(U!NotFound)
  <2>1. candidate.version \in U!Versions
    BY <1>3 DEF U!Signed
  <2>2. U!NotFound \in [mode : {"self", "external"}, available : U!Versions \cup {None}]
    BY DEF U!NotFound, U!Default
  <2>3. U!TypeOK'
    BY <1>1, <1>3, <2>1, <2>2 DEF U!Idle, U!TypeOK
  <2>4. U!CandidateInv'
    BY <1>3 DEF U!Idle, U!CandidateInv
  <2> QED
    BY <2>3, <2>4
<1> QED
  BY <1>2, <1>3, ReplaceForms

\* Publishing adds to the signed versions; a change of the executable's file
\* reaches neither the candidate nor the version that runs; nor does an install
\* that waits for the lock.
LEMMA WorldKeepsInv ==
    ASSUME UpdateInv,
           \/ U!Ask \/ U!Busy
           \/ \E v \in U!Versions, mode \in {"self", "external"} : U!Publish(v, mode)
           \/ U!Change \/ UNCHANGED U!vars
    PROVE  UpdateInv'
<1> USE DEF UpdateInv
<1>1. CASE \E v \in U!Versions, mode \in {"self", "external"} : U!Publish(v, mode)
  <2> PICK v \in U!Versions, mode \in {"self", "external"} : U!Publish(v, mode)
    BY <1>1
  <2>1. UNCHANGED <<pc, op, asked, manifest, candidate, delivered, status, installed, executable,
                    writable, platform>>
        /\ published' = [published EXCEPT ![v] = mode]
    BY DEF U!Publish
  <2>2. published \in [U!Versions -> {"self", "external", None}]
    BY DEF U!TypeOK
  <2>3. published' \in [U!Versions -> {"self", "external", None}]
    BY <2>1, <2>2
  <2>4. U!Signed \subseteq U!Signed'
    BY <2>1, <2>2, NoneAssumption DEF U!Signed
  <2>5. U!TypeOK'
    BY <2>1, <2>3 DEF U!TypeOK
  <2>6. U!CandidateInv'
    BY <2>1, <2>4 DEF U!CandidateInv
  <2> QED
    BY <2>5, <2>6
<1>2. CASE U!Change
  <2>1. UNCHANGED <<pc, op, asked, manifest, candidate, delivered, status, installed, published, platform>>
    BY <1>2 DEF U!Change
  <2>2. executable' \in U!Versions \cup {0} /\ writable' \in BOOLEAN
    BY <1>2 DEF U!Change, U!TypeOK
  <2>3. U!TypeOK'
    BY <2>1, <2>2 DEF U!TypeOK
  <2>4. U!CandidateInv'
    BY <2>1 DEF U!CandidateInv, U!Signed
  <2> QED
    BY <2>3, <2>4
<1>3. CASE UNCHANGED U!vars
  BY <1>3 DEF U!vars, U!world, U!TypeOK, U!CandidateInv, U!Signed
<1>4. CASE U!Ask \/ U!Busy
  <2>1. UNCHANGED <<pc, op, manifest, candidate, delivered, status>> /\ UNCHANGED U!world
        /\ asked' \in BOOLEAN
    BY <1>4 DEF U!Ask, U!Busy
  <2> QED
    BY <2>1 DEF U!world, U!TypeOK, U!CandidateInv, U!Signed
<1> QED
  BY <1>1, <1>2, <1>3, <1>4

LEMMA UpdateInvariant == FairSpec => [](part = "update" => UpdateInv)
<1> DEFINE Inv == part = "update" => UpdateInv
<1>1. ASSUME U!Init PROVE UpdateInv
  <2>1. U!NotFound \in [mode : {"self", "external"}, available : U!Versions \cup {None}]
    BY DEF U!NotFound, U!Default
  <2>2. published \in [U!Versions -> {"self", "external", None}]
    BY <1>1 DEF U!Init
  <2>3. U!TypeOK
    BY <1>1, <2>1, <2>2 DEF U!Init, U!TypeOK
  <2>4. U!CandidateInv
    BY <1>1 DEF U!Init, U!CandidateInv
  <2> QED
    BY <2>3, <2>4 DEF UpdateInv
<1>2. Init => Inv
  BY <1>1 DEF Init
<1>3. ASSUME UpdateInv, [U!Next]_U!vars PROVE UpdateInv'
  BY <1>3, FetchKeepsInv, CheckKeepsInv, DeliverKeepsInv, ReplaceKeepsInv, WorldKeepsInv DEF U!Next
<1>4. Inv /\ [Next]_vars => Inv'
  BY <1>3, StepOfPart
<1> QED
  BY <1>2, <1>4, PTL DEF FairSpec

\* No other step touches the version that runs.
LEMMA OnlyReplaceInstalls ==
    ASSUME [U!Next]_U!vars, installed' # installed
    PROVE  U!Replace
<1>1. ASSUME NEW o, U!Start(o) PROVE UNCHANGED installed
  BY <1>1 DEF U!Start, U!world
<1>2. U!Ask \/ U!Busy \/ U!Fetch \/ U!Check \/ U!Delta \/ U!Full => UNCHANGED installed
  BY DEF U!Ask, U!Busy, U!Fetch, U!Check, U!Delta, U!Full, U!world
<1>3. U!Change => UNCHANGED installed
  BY DEF U!Change
<1>4. ASSUME NEW v, NEW mode, U!Publish(v, mode) PROVE UNCHANGED installed
  BY <1>4 DEF U!Publish
<1>5. UNCHANGED U!vars => UNCHANGED installed
  BY DEF U!vars, U!world
<1> QED
  BY <1>1, <1>2, <1>3, <1>4, <1>5 DEF U!Next

(* The application is replaced only by the content of a newer signed version,   *)
(* whatever changes its executable and whatever manifest the mirror answers     *)
(* with (signedManifestProvider.Check and Download, update_provider.go).        *)
THEOREM SuccessorsAreSigned == FairSpec => OnlySignedSuccessors
<1>1. ASSUME part = "update" => UpdateInv, [Next]_vars, part = "update", installed' # installed
      PROVE  /\ installed' > installed /\ installed' \in U!Signed
             /\ executable' = installed'
  <2>1. UpdateInv /\ U!Replace
    BY <1>1, StepOfPart, OnlyReplaceInstalls
  <2> QED
    BY <1>1, <2>1, ReplaceForms
<1>2. (part = "update" => UpdateInv) /\ [Next]_vars
          => [part = "update" /\ installed' # installed =>
                 /\ installed' > installed /\ installed' \in U!Signed
                 /\ executable' = installed']_vars
  BY <1>1
<1> QED
  BY <1>2, UpdateInvariant, PTL DEF FairSpec, OnlySignedSuccessors
=============================================================================
