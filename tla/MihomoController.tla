-------------------------- MODULE MihomoController --------------------------
(***************************************************************************)
(* The controller of the mihomo engine (mihomo.go and its bootstrap, egress *)
(* and policy files): a configuration is staged with its ingress closed,    *)
(* inspected, and opened last; every failure ends in disable.  The engine   *)
(* is another process, asked by one HTTP request after the other.  Every    *)
(* call holds mu; pc is the next request of the running one.                *)
(***************************************************************************)
CONSTANTS Plans,         \* configurations, with what the user supplies; those with the
                         \* same rules (mihomoRules) count as one
          Nothing, Rest

VARIABLES
    pc, call,  \* the running call: "apply", "abort" (its cleanup), "disable", "verify"
    plan,      \* its configuration; Nothing for Verify(nil)
    failed,    \* the errors disable has joined so far
    gate,      \* controller.egress: that of a plan, "expired" with its lease, or Nothing
    applied,   \* controller.applied
    engine,    \* what the engine runs
    flow,      \* a connection through the ingress is open
    answer,
    faulty

vars == <<pc, call, plan, failed, gate, applied, engine, flow, answer, faulty>>

(* config is a plan, "inert" (everything rejected) or "own" (the file the      *)
(* engine starts with); its backends are those of the present gate; its nodes  *)
(* and bindings are the ones it was given; the node selected for it.           *)
Inert == [config |-> "inert", port |-> FALSE, bound |-> FALSE, sound |-> TRUE, node |-> Nothing]
Own == [config |-> "own", port |-> TRUE, bound |-> FALSE, sound |-> FALSE, node |-> Nothing]

-----------------------------------------------------------------------------
(* What the controller reads back.                                           *)
VerifyRules(config) == engine.config = config
VerifyListener(port) == engine.port = port
VerifyEgress == gate \in Plans /\ engine.bound
ProxyGroup == engine.config \in Plans /\ engine.sound

Return(value) == pc' = "idle" /\ answer' = value /\ UNCHANGED call
Continue(step) == pc' = step /\ UNCHANGED <<call, answer>>

\* disable begins with the gate of this process.
Gate == gate' = Nothing /\ engine' = [engine EXCEPT !.bound = FALSE]

\* A configuration that is not one of this controller is refused, and what runs
\* is left alone; the others disable first.
ApplyStart(p) ==
    /\ pc = "idle" /\ call' = "apply" /\ plan' = p
    /\ \/ pc' = "quiesce" /\ answer' = "none" /\ failed' = FALSE /\ Gate
       \/ pc' = "idle" /\ answer' = "error" /\ UNCHANGED <<failed, gate, engine>>
    /\ UNCHANGED <<applied, flow, faulty>>

DisableStart ==
    /\ pc = "idle" /\ pc' = "quiesce" /\ call' = "disable"
    /\ answer' = "none" /\ failed' = FALSE /\ Gate
    /\ UNCHANGED <<plan, applied, flow, faulty>>

\* Verify needs the lease of the gate, except to verify that all is closed.
VerifyStart(p) ==
    /\ pc = "idle" /\ call' = "verify" /\ plan' = p
    /\ IF p # Nothing /\ gate \notin Plans THEN pc' = "idle" /\ answer' = "error"
       ELSE pc' = "listener" /\ answer' = "none"
    /\ UNCHANGED <<failed, gate, applied, engine, flow, faulty>>

-----------------------------------------------------------------------------
(* disable: every request is made, whatever became of the one before it.     *)

\* A request takes effect and is answered, or it fails with or without effect.
Quiesce ==
    /\ pc = "quiesce" /\ Continue("drop")
    /\ \/ engine' = Inert /\ UNCHANGED failed
       \/ faulty /\ engine' \in {engine, Inert} /\ failed' = TRUE
    /\ UNCHANGED <<plan, gate, applied, flow, faulty>>

\* closeConnections: what is still draining is an error.
DropForgiving ==   \* mutant: it is not
    /\ pc = "drop" /\ Continue("closed")
    /\ flow' \in {flow, FALSE} /\ (flow' => faulty)
    /\ UNCHANGED <<plan, failed, gate, applied, engine, faulty>>
Drop ==
    /\ pc = "drop" /\ Continue("closed")
    /\ \/ flow' = FALSE /\ UNCHANGED failed
       \/ faulty /\ flow' \in {flow, FALSE} /\ failed' = TRUE
    /\ UNCHANGED <<plan, gate, applied, engine, faulty>>

Closed ==
    /\ pc = "closed" /\ Continue("rejecting")
    /\ failed' \in {failed \/ ~VerifyListener(FALSE)} \cup (IF faulty THEN {TRUE} ELSE {})
    /\ UNCHANGED <<plan, gate, applied, engine, flow, faulty>>

Rejecting ==
    /\ pc = "rejecting"
    /\ failed' \in {failed \/ ~VerifyRules("inert")} \cup (IF faulty THEN {TRUE} ELSE {})
    /\ applied' = IF failed' THEN applied ELSE Nothing
    /\ CASE ~failed' /\ call = "apply" -> Continue("bootstrap")
         [] ~failed' /\ call = "disable" -> Return(Nothing)
         [] failed' /\ call = "apply" -> \* the deferred disable
              pc' = "abort" /\ UNCHANGED <<call, answer>>
         [] OTHER -> Return("error")
    /\ UNCHANGED <<plan, gate, engine, flow, faulty>>

\* Every failure of applySource ends in another disable, with a deadline of its own.
Abort ==
    /\ pc = "abort" /\ pc' = "quiesce" /\ call' = "abort" /\ failed' = FALSE /\ Gate
    /\ UNCHANGED <<plan, applied, flow, answer, faulty>>

-----------------------------------------------------------------------------
(* applySource, once everything is closed.                                   *)

\* The next step if the readback holds; else the end of the call.
Inspect(step, holds, next) ==
    /\ pc = step
    /\ \/ holds /\ Continue(next)
       \/ /\ ~holds \/ faulty
          /\ IF call = "verify" THEN Return("error") ELSE Continue("abort")
    /\ UNCHANGED <<plan, failed, gate, applied, engine, flow, faulty>>

\* The nodes are fetched and their addresses pinned before the engine is given
\* any; what is refused or lost ends the call.
Bootstrap ==
    /\ pc = "bootstrap" /\ (Continue("prepare") \/ Continue("abort"))
    /\ UNCHANGED <<plan, failed, gate, applied, engine, flow, faulty>>

\* The lease may be over by now, or no port be free.
PrepareEgress ==
    /\ pc = "prepare"
    /\ \/ Continue("stage") /\ gate' = plan
       \/ Continue("abort") /\ UNCHANGED gate
    /\ UNCHANGED <<plan, failed, applied, engine, flow, faulty>>

Staged == {[config |-> plan, port |-> FALSE, bound |-> TRUE, sound |-> s, node |-> Nothing] : s \in BOOLEAN}
StageOpened ==     \* mutant: rendered with its port
    /\ pc = "stage" /\ Continue("select")
    /\ engine' \in {[e EXCEPT !.port = TRUE] : e \in Staged}
    /\ UNCHANGED <<plan, failed, gate, applied, flow, faulty>>
Stage ==
    /\ pc = "stage"
    /\ \/ engine' \in Staged /\ Continue("select")
       \/ faulty /\ engine' \in Staged \cup {engine} /\ Continue("abort")
    /\ UNCHANGED <<plan, failed, gate, applied, flow, faulty>>

Chosen == [engine EXCEPT !.node = IF engine.config = plan THEN plan ELSE @]
Select ==
    /\ pc = "select"
    /\ \/ ProxyGroup /\ engine' = Chosen /\ Continue("rules")
       \/ (~ProxyGroup \/ faulty) /\ engine' \in {engine, Chosen} /\ Continue("abort")
    /\ UNCHANGED <<plan, failed, gate, applied, flow, faulty>>

Rules == Inspect("rules", VerifyRules(plan), "listening")
Listening == Inspect("listening", VerifyListener(FALSE), "probe")
Probe == Inspect("probe", VerifyEgress, "open")

\* The port opens in whatever the engine runs by now.
Open ==
    /\ pc = "open"
    /\ \/ engine' = [engine EXCEPT !.port = TRUE] /\ Continue("opened")
       \/ faulty /\ \E b \in {engine.port, TRUE} : engine' = [engine EXCEPT !.port = b]
          /\ Continue("abort")
    /\ UNCHANGED <<plan, failed, gate, applied, flow, faulty>>

Opened == Inspect("opened", VerifyListener(TRUE), "reread")
Reread == Inspect("reread", VerifyRules(plan), "reselected")

ReselectedUnread ==   \* mutant: the selection is not read again
    /\ pc = "reselected" /\ Return(plan) /\ applied' = plan
    /\ UNCHANGED <<plan, failed, gate, engine, flow, faulty>>
Reselected ==
    /\ pc = "reselected"
    /\ \/ ProxyGroup /\ engine.node = plan /\ Return(plan) /\ applied' = plan
       \/ /\ ~(ProxyGroup /\ engine.node = plan) \/ faulty
          /\ Continue("abort") /\ UNCHANGED applied
    /\ UNCHANGED <<plan, failed, gate, engine, flow, faulty>>

-----------------------------------------------------------------------------
(* Verify.                                                                   *)
Listener == Inspect("listener", VerifyListener(plan # Nothing), "policy")
Policy == IF plan = Nothing
          THEN /\ pc = "policy"
               /\ \/ VerifyRules("inert") /\ Return("empty")
                  \/ (~VerifyRules("inert") \/ faulty) /\ Return("error")
               /\ UNCHANGED <<plan, failed, gate, applied, engine, flow, faulty>>
          ELSE Inspect("policy", VerifyRules(plan), "egress")
Egress == Inspect("egress", VerifyEgress, "group")
Group ==
    /\ pc = "group"
    /\ LET holds == ProxyGroup /\ engine.node = applied
       IN \/ holds /\ Return(plan)
          \/ (~holds \/ faulty) /\ Return("error")
    /\ UNCHANGED <<plan, failed, gate, applied, engine, flow, faulty>>

-----------------------------------------------------------------------------
(* The engine and its other clients.                                         *)

\* It restarts with its own file, or its user selects another node.
Restart == /\ faulty /\ engine' = Own /\ flow' = FALSE
           /\ UNCHANGED <<pc, call, plan, failed, gate, applied, answer, faulty>>

Reselect == /\ faulty /\ engine.config \in Plans /\ engine' = [engine EXCEPT !.node = Nothing]
            /\ UNCHANGED <<pc, call, plan, failed, gate, applied, flow, answer, faulty>>

\* Connections come through an open ingress, and end.
Connection == /\ \/ engine.port /\ flow' = TRUE
                 \/ flow /\ flow' = FALSE
              /\ UNCHANGED <<pc, call, plan, failed, gate, applied, engine, answer, faulty>>

Expire == /\ gate \in Plans /\ gate' = "expired"
          /\ UNCHANGED <<pc, call, plan, failed, applied, engine, flow, answer, faulty>>

\* The service's process ends; its gate goes with it.
Crash == /\ faulty /\ pc' = "idle" /\ call' = "disable" /\ answer' = "error"
         /\ Gate /\ applied' = Nothing
         /\ UNCHANGED <<plan, failed, flow, faulty>>

Heal == faulty /\ faulty' = FALSE
        /\ UNCHANGED <<pc, call, plan, failed, gate, applied, engine, flow, answer>>

-----------------------------------------------------------------------------
Init ==
    /\ pc = "idle" /\ call = "disable" /\ plan \in Plans /\ failed = FALSE
    /\ gate = Nothing /\ applied = Nothing /\ engine = Inert /\ flow = FALSE
    /\ answer = Nothing /\ faulty = TRUE

Step == \/ Quiesce \/ Drop \/ Closed \/ Rejecting \/ Abort
        \/ Bootstrap \/ PrepareEgress \/ Stage \/ Select \/ Rules \/ Listening \/ Probe
        \/ Open \/ Opened \/ Reread \/ Reselected
        \/ Listener \/ Policy \/ Egress \/ Group

Next == \/ Step \/ DisableStart
        \/ \E p \in Plans : ApplyStart(p)
        \/ \E p \in Plans \cup {Nothing} : VerifyStart(p)
        \/ Restart \/ Reselect \/ Connection \/ Expire \/ Crash \/ Heal

Spec == Init /\ [][Next]_vars

-----------------------------------------------------------------------------
(* Types, and the inductive invariant behind the properties below.          *)

Closing == {"quiesce", "drop", "closed", "rejecting"}
Inspected == {"rules", "listening", "probe", "open", "opened", "reread", "reselected"}
Verifying == {"listener", "policy", "egress", "group"}
Engines == [config : Plans \cup {"inert", "own"}, port : BOOLEAN, bound : BOOLEAN,
            sound : BOOLEAN, node : Plans \cup {Nothing}]

TypeOK ==
    /\ pc \in {"idle", "abort", "bootstrap", "prepare", "stage", "select"}
              \cup Closing \cup Inspected \cup Verifying
    /\ call \in {"apply", "abort", "disable", "verify"} /\ plan \in Plans \cup {Nothing}
    /\ failed \in BOOLEAN /\ flow \in BOOLEAN /\ faulty \in BOOLEAN
    /\ gate \in Plans \cup {Nothing, "expired"} /\ applied \in Plans \cup {Nothing}
    /\ engine \in Engines
    /\ answer \in Plans \cup {Nothing, "empty", "error", "none"}

Ours == engine.config \in Plans

\* What a running call may rely on: the engine runs what it was given or its own
\* file, and what was inspected of it still holds unless it restarted.
CallInv ==
    /\ pc # "idle" => answer = "none"
    /\ pc \in Closing => gate = Nothing /\ (call = "apply" => plan \in Plans)
    /\ pc \in {"bootstrap", "prepare", "stage", "select"} \cup Inspected => call = "apply" /\ plan \in Plans
    /\ pc \in {"select"} \cup Inspected => engine.config \in {plan, "own"}
    /\ pc = "select" /\ Ours => ~engine.port
    /\ pc \in Inspected /\ Ours => engine.sound
    /\ pc \in {"reread", "reselected"} /\ Ours => engine.port
    /\ pc \in Verifying => call = "verify"
    /\ pc \in Verifying /\ (plan # Nothing \/ gate \in Plans) => applied \in Plans
    /\ pc \in {"policy", "egress", "group"} /\ plan # Nothing /\ Ours => engine.port
    /\ pc \in {"egress", "group"} => plan \in Plans /\ engine.config \in {plan, "own"}

\* What holds of the engine at any time.
EngineInv ==
    /\ engine.config = "inert" => ~engine.port
    /\ engine.port /\ Ours => engine.sound
    /\ engine.node \in {Nothing, engine.config}
    /\ pc = "idle" /\ gate \in Plans => applied \in Plans
    /\ pc = "drop" /\ ~failed => ~Ours
    /\ pc \in {"closed", "rejecting"} /\ ~failed /\ engine.config = "inert" => ~flow
    /\ answer = Nothing => ~Ours /\ (engine.config = "inert" => ~flow)

-----------------------------------------------------------------------------
Ingress == engine.port /\ engine.config \in Plans

Tunnel == IF ~Ingress THEN Nothing
           ELSE IF engine.sound /\ engine.node = engine.config THEN engine.config
           ELSE Rest

Abstract == INSTANCE TunnelSystem WITH tunnel <- Tunnel

(* The proxy keeps the executor's promise: Apply succeeds only with its        *)
(* configuration behind the open ingress and its node selected, though the     *)
(* engine restarts or its user selects between two requests; Disable and an    *)
(* empty Verify leave no ingress to a configuration of ours.                   *)
ProxyKeepsPromise == Abstract!Spec

(* No connection survives a successful Disable: connections are closed after   *)
(* the ingress they came through.                                              *)
DisabledIsDrained == answer = Nothing /\ engine.config = "inert" => ~flow

(* An ingress leads only to nodes and bindings that were inspected: what the   *)
(* engine makes of a configuration is read before its port opens.              *)
IngressIsInspected == Ingress => engine.sound
=============================================================================
