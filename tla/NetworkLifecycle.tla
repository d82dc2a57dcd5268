--------------------------- MODULE NetworkLifecycle ---------------------------
(***************************************************************************)
(* watchNetworkLifecycle (internal/endpointservice/lifecycle.go): the      *)
(* watchdog that runs beside the manager's operations, wakes every two     *)
(* seconds, and ends a VPN session whose network has gone: the machine     *)
(* slept, the uplink changed or cannot be read, the tunnel is unhealthy.   *)
(*                                                                         *)
(* It looks at the session without operationMu, then tries the mutex, and  *)
(* gives the tick up when an operation holds it; the operations            *)
(* (EndpointManager has them in detail) are reduced here to what they do   *)
(* to the session while they hold the mutex.                               *)
(***************************************************************************)
CONSTANTS
    Sessions,   \* VPN session identifiers
    Uplinks,    \* values of uplinkFingerprint
    None        \* "no session", and the fingerprint when interfaces cannot be read

ASSUME NoneAssumption == None \notin Sessions \cup Uplinks

VARIABLES
    lock,       \* who holds operationMu
    session,    \* Manager.status.SessionID
    used,       \* the sessions the network control handed out
    pc,         \* where the watchdog is in its loop
    watched,    \* its variable session: the session it has a baseline for
    previous,   \* its variable previous: the uplink at that session's baseline
    seen,       \* its variable status: the session this tick found
    woken,      \* its variable gap, compared: this tick saw the clock jump
    reason,     \* its variable reason
    gap,        \* the clock jumped since the last tick
    uplink,     \* the machine's uplink, None while it cannot be read
    healthy     \* the tunnel passes CheckVPNHealth

watchdog == <<pc, watched, previous, seen, woken, reason>>
environment == <<gap, uplink, healthy>>
vars == <<lock, session, used, watchdog, environment>>

Reasons == {"none", "unavailable", "resume", "changed", "health"}

\* Type invariant of the watchdog's variables and of what it shares.
TypeOK ==
    /\ lock \in {"free", "operation", "watchdog"}
    /\ session \in Sessions \cup {None}
    /\ used \in SUBSET Sessions
    /\ pc \in {"wait", "compare", "acquire", "probe", "teardown"}
    /\ watched \in Sessions \cup {None}
    /\ previous \in Uplinks \cup {None}
    /\ seen \in Sessions \cup {None}
    /\ woken \in BOOLEAN
    /\ reason \in Reasons
    /\ gap \in BOOLEAN
    /\ uplink \in Uplinks \cup {None}
    /\ healthy \in BOOLEAN

Init ==
    /\ lock = "free" /\ session = None /\ used = {}
    /\ pc = "wait" /\ watched = None /\ previous = None
    /\ seen = None /\ woken = FALSE /\ reason = "none"
    /\ gap = FALSE /\ uplink \in Uplinks /\ healthy = TRUE

-----------------------------------------------------------------------------
(* The operations that hold operationMu: Connect, Disconnect and Cycle.    *)
OperationStart ==
    /\ lock = "free" /\ lock' = "operation"
    /\ UNCHANGED <<session, used, watchdog, environment>>

OperationEnd ==
    /\ lock = "operation" /\ lock' = "free"
    /\ UNCHANGED <<session, used, watchdog, environment>>

\* acceptVPNConnection: a session the control grants is a new one.
SessionOpened ==
    /\ lock = "operation" /\ session = None
    /\ session' \in Sessions \ used
    /\ used' = used \cup {session'}
    /\ UNCHANGED <<lock, watchdog, environment>>

\* disconnectLocked, or a revocation in syncConfiguration.
SessionClosed ==
    /\ lock = "operation" /\ session # None /\ session' = None
    /\ UNCHANGED <<lock, used, watchdog, environment>>

-----------------------------------------------------------------------------
(* The watchdog.                                                           *)

\* The ticker fires: the gap is measured (and gone), the status read.
Tick ==
    /\ pc = "wait"
    /\ gap' = FALSE
    /\ IF session = None
       THEN watched' = None /\ previous' = None /\ UNCHANGED <<pc, seen, woken>>
       ELSE seen' = session /\ woken' = gap /\ pc' = "compare" /\ UNCHANGED <<watched, previous>>
    /\ UNCHANGED <<lock, session, used, reason, uplink, healthy>>

\* The first tick of a session takes its baseline.
Baseline ==
    /\ pc = "compare" /\ uplink # None /\ watched # seen
    /\ watched' = seen /\ previous' = uplink /\ pc' = "wait"
    /\ UNCHANGED <<lock, session, used, seen, woken, reason, environment>>

CompareAndForget ==                               \* mutant: remembers the last uplink
    /\ pc = "compare" /\ (uplink = None \/ watched = seen)
    /\ reason' = CASE uplink = None -> "unavailable"
                   [] uplink # None /\ woken -> "resume"
                   [] uplink \notin {None, previous} /\ ~woken -> "changed"
                   [] OTHER -> "none"
    /\ previous' = uplink
    /\ pc' = "acquire"
    /\ UNCHANGED <<lock, session, used, watched, seen, woken, environment>>
Compare ==
    /\ pc = "compare" /\ (uplink = None \/ watched = seen)
    /\ reason' = CASE uplink = None -> "unavailable"
                   [] uplink # None /\ woken -> "resume"
                   [] uplink \notin {None, previous} /\ ~woken -> "changed"
                   [] OTHER -> "none"
    /\ pc' = "acquire"
    /\ UNCHANGED <<lock, session, used, watched, previous, seen, woken, environment>>

\* TryLock, and the second look at the session under the mutex.
AcquireUnchecked ==                               \* mutant: no second look
    /\ pc = "acquire"
    /\ IF lock = "free"
       THEN lock' = "watchdog" /\ pc' = "probe"
       ELSE pc' = "wait" /\ UNCHANGED lock
    /\ UNCHANGED <<session, used, watched, previous, seen, woken, reason, environment>>
Acquire ==
    /\ pc = "acquire"
    /\ IF lock = "free" /\ session = watched
       THEN lock' = "watchdog" /\ pc' = "probe"
       ELSE pc' = "wait" /\ UNCHANGED lock
    /\ UNCHANGED <<session, used, watched, previous, seen, woken, reason, environment>>

\* CheckVPNHealth, only when there is no reason yet; it may also time out.
Probe ==
    /\ pc = "probe"
    /\ \E passes \in {healthy, FALSE} :
           reason' = IF reason = "none" /\ ~passes THEN "health" ELSE reason
    /\ IF reason' = "none"
       THEN pc' = "wait" /\ lock' = "free"
       ELSE pc' = "teardown" /\ UNCHANGED lock
    /\ UNCHANGED <<session, used, watched, previous, seen, woken, environment>>

\* disconnectLocked; when it stays incomplete the session is kept.
Teardown(complete) ==
    /\ pc = "teardown"
    /\ session' = IF complete THEN None ELSE session
    /\ lock' = "free" /\ pc' = "wait"
    /\ UNCHANGED <<used, watched, previous, seen, woken, reason, environment>>

-----------------------------------------------------------------------------
(* The machine.                                                            *)
Sleep ==
    /\ ~gap /\ gap' = TRUE
    /\ UNCHANGED <<lock, session, used, watchdog, uplink, healthy>>

UplinkChanges ==
    /\ uplink' \in (Uplinks \cup {None}) \ {uplink}
    /\ UNCHANGED <<lock, session, used, watchdog, gap, healthy>>

HealthChanges ==
    /\ healthy' = ~healthy
    /\ UNCHANGED <<lock, session, used, watchdog, gap, uplink>>

Operation == OperationStart \/ OperationEnd \/ SessionOpened \/ SessionClosed
Watch == Tick \/ Baseline \/ Compare \/ Acquire \/ Probe \/ \E b \in BOOLEAN : Teardown(b)
Machine == Sleep \/ UplinkChanges \/ HealthChanges

Next == Operation \/ Watch \/ Machine

Spec == Init /\ [][Next]_vars

\* Ticks go on and every call has a timeout; operations end; a cleanup that is
\* tried again and again completes.  The poll interval is a minute and the
\* ticker's two seconds, so of the ticks that try the mutex not all find an
\* operation holding it.
TryLockSucceeds == Acquire /\ lock = "free"
Fairness ==
    /\ WF_vars(Watch)
    /\ WF_vars(OperationEnd)
    /\ SF_vars(Teardown(TRUE))
    /\ []<>(pc = "acquire" /\ lock # "watchdog") => []<><<TryLockSucceeds>>_vars

FairSpec == Spec /\ Fairness
-----------------------------------------------------------------------------
\* What the watchdog decided without the mutex never ends another session: the
\* session it tears down is the one whose baseline it compared, although the
\* user may have disconnected and connected again in between.
TeardownIsForTheSession ==
    pc = "teardown" /\ session # None => session = watched /\ session = seen

\* Its inductive invariant: identifiers are not handed out twice, so a session
\* that is up and has the baseline is still the one this tick found.
WatchInv ==
    /\ {session, watched, seen} \subseteq used \cup {None}
    /\ pc \in {"probe", "teardown"} => lock = "watchdog" /\ session = watched
    /\ pc # "wait" /\ session # None /\ session = watched => session = seen

\* A session whose uplink stays different from its baseline, stays unreadable
\* or whose tunnel stays unhealthy is ended, also when the first ticks that
\* notice it find the mutex held.
LossEndsSession ==
    \A s \in Sessions :
        LET Watched == watched = s /\ session = s
        IN  /\ \A u \in Uplinks :
                  (Watched /\ previous = u /\ uplink # u) ~> (session # s \/ uplink = u)
            /\ (Watched /\ ~healthy) ~> (session # s \/ healthy)

\* lifecycle.go:14, "A short, independent watchdog also runs while control
\* polling is blocked. It detects wake gaps and uplink changes": a sleep ends
\* the session it interrupted.
WakeEndsSession ==
    \A s \in Sessions : (watched = s /\ session = s /\ gap) ~> session # s
=============================================================================
