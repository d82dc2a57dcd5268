---------------------------- MODULE WindowsTunnel ---------------------------
(***************************************************************************)
(* The Windows tunnel (system_windows.go): a service of the service manager  *)
(* that runs the tunnel of a protected configuration file, both of which    *)
(* outlive the process.  wireguard.exe and the service manager are external. *)
(***************************************************************************)
CONSTANTS Plans, Nothing, Rest

VARIABLES
    pc, call,   \* the running call: "apply", "abort" (failClosed), "disable"
    plan,       \* the argument of Apply
    expected,   \* system.expected
    config,     \* the plan in the configuration file
    service,    \* "absent", "ours", "deleting" or "foreign"
    device,     \* the plan whose device and interface are up
    overlap,    \* another interface has overlapping routes
    errors,     \* of the running Disable: of the "command", of the "service" that stayed
    answer,
    faulty

vars == <<pc, call, plan, expected, config, service, errors, device, overlap, answer, faulty>>

-----------------------------------------------------------------------------
\* tunnelServiceExists
Exists == service # "absent"

\* verifyServiceOwnership: the service runs our file, and the file is there.
Owned == Exists => service # "foreign" /\ config # Nothing

InForce == device # Nothing /\ ~overlap /\ expected \in {Nothing, device}

Return(value) == pc' = "idle" /\ answer' = value /\ UNCHANGED call

ApplyStart(p) ==
    /\ pc = "idle" /\ pc' = "verify" /\ call' = "apply" /\ plan' = p
    /\ answer' = "none" /\ UNCHANGED <<expected, config, service, errors, device, overlap, faulty>>

DisableStart ==
    /\ pc = "idle" /\ pc' = "verify" /\ call' = "disable" /\ answer' = "none"
    /\ UNCHANGED <<plan, expected, config, service, errors, device, overlap, faulty>>

ReadbackOfDevice ==
    CASE device = Nothing -> "empty" [] InForce -> device [] OTHER -> "error"
Read == CASE ~Owned -> "error" [] OTHER -> ReadbackOfDevice

Readback ==
    /\ pc = "idle" /\ answer' = Read
    /\ UNCHANGED <<pc, call, plan, expected, config, service, errors, device, overlap, faulty>>

-----------------------------------------------------------------------------
(* Disable, of its own, at the start of Apply and by failClosed.             *)

Disabled(failed) ==
    CASE call = "apply" /\ ~failed -> pc' = "write" /\ UNCHANGED <<call, answer>>
      [] call = "disable" /\ ~failed -> Return(Nothing)
      [] OTHER -> Return("error")

Verify ==
    /\ pc = "verify"
    /\ \/ ~Exists /\ pc' = "remove" /\ UNCHANGED <<call, answer>>
       \/ Exists /\ Owned /\ pc' = "uninstall" /\ UNCHANGED <<call, answer>>
       \/ (faulty \/ ~Owned) /\ Disabled(TRUE)
    /\ UNCHANGED <<plan, expected, config, service, errors, device, overlap, faulty>>

\* /uninstalltunnelservice: done or marked for deletion, whatever it answers, or
\* failed with the service stopped or running.
Uninstall ==
    /\ pc = "uninstall" /\ pc' = "wait"
    /\ \/ /\ service' \in {"absent"} \cup (IF Exists THEN {"deleting"} ELSE {})
          /\ errors' \in {{}} \cup (IF faulty \/ ~Exists THEN {{"command"}} ELSE {})
          /\ device' = Nothing
       \/ /\ faulty /\ UNCHANGED service /\ device' \in {device, Nothing}
          /\ errors' = {"command"}
    /\ UNCHANGED <<call, plan, expected, config, overlap, answer, faulty>>

\* Until the service is gone, the deadline, or a look at it that fails.
Wait ==
    /\ pc = "wait" /\ pc' = "remove"
    /\ \/ ~Exists /\ UNCHANGED errors
       \/ (faulty \/ service \in {"ours", "foreign"}) /\ errors' = errors \cup {"service"}
    /\ UNCHANGED <<call, plan, expected, config, service, device, overlap, answer, faulty>>

\* The file is removed in any case; a command that failed is an error of Disable
\* though the service is gone.
Remove ==
    /\ pc = "remove"
    /\ \/ /\ config' = Nothing /\ Disabled(errors # {})
       \/ /\ faulty /\ Disabled(TRUE) /\ UNCHANGED config
    /\ expected' = IF "service" \in errors THEN expected ELSE Nothing
    /\ errors' = {}
    /\ UNCHANGED <<plan, service, device, overlap, faulty>>

-----------------------------------------------------------------------------
(* Apply after the previous tunnel is gone.                                  *)

Abort == pc' = "verify" /\ call' = "abort" /\ UNCHANGED answer

\* The file is replaced by a removal and a renaming.
Write ==
    /\ pc = "write"
    /\ \/ /\ ~overlap /\ config' = plan /\ expected' = plan
          /\ pc' = "install" /\ UNCHANGED <<call, answer>>
       \/ /\ overlap \/ faulty
          /\ config' = Nothing /\ Return("error") /\ UNCHANGED expected
    /\ UNCHANGED <<plan, service, errors, device, overlap, faulty>>

\* /installtunnelservice; the service starts the tunnel of the file.
Install ==
    /\ pc = "install"
    /\ \/ /\ service = "absent" /\ service' = "ours" /\ device' = config
          /\ pc' = "poll" /\ UNCHANGED <<call, answer>>
       \/ /\ faulty \/ service # "absent"
          /\ service' \in {service} \cup (IF service = "absent" THEN {"ours"} ELSE {})
          /\ Abort /\ UNCHANGED device
    /\ UNCHANGED <<plan, expected, config, errors, overlap, faulty>>

Poll ==
    /\ pc = "poll"
    /\ \/ Read = plan /\ Return(plan)
       \/ (faulty \/ Read # plan) /\ Abort
    /\ UNCHANGED <<plan, expected, config, service, errors, device, overlap, faulty>>

-----------------------------------------------------------------------------
(* The system around it.                                                     *)

\* A service marked for deletion goes; a service of the same name that runs
\* another file is installed or goes; an owned one starts or stops; another
\* interface takes or gives back a route.
Deleted == /\ service = "deleting" /\ service' = "absent"
           /\ UNCHANGED <<pc, call, plan, expected, config, errors, device, overlap, answer, faulty>>

Intrude == /\ faulty /\ service = "absent" /\ service' = "foreign"
           /\ UNCHANGED <<pc, call, plan, expected, config, errors, device, overlap, answer, faulty>>

Withdraw == /\ service = "foreign" /\ service' = "absent"
            /\ UNCHANGED <<pc, call, plan, expected, config, errors, device, overlap, answer, faulty>>

StartStop ==
    /\ service = "ours" /\ pc \notin {"install", "wait"}
    /\ \/ device # Nothing /\ device' = Nothing
       \/ device = Nothing /\ config # Nothing /\ device' = config
    /\ faulty
    /\ UNCHANGED <<pc, call, plan, expected, config, service, errors, overlap, answer, faulty>>

Overlap == /\ overlap' = ~overlap /\ (overlap' => faulty)
           /\ UNCHANGED <<pc, call, plan, expected, config, service, errors, device, answer, faulty>>

\* The process stops anywhere; service, file and tunnel stay.
Crash == /\ faulty
         /\ pc' = "idle" /\ call' = "disable" /\ answer' = "error" /\ expected' = Nothing
         /\ errors' = {}
         /\ UNCHANGED <<plan, config, service, device, overlap, faulty>>

Heal == /\ faulty /\ faulty' = FALSE
        /\ UNCHANGED <<pc, call, plan, expected, config, service, errors, device, overlap, answer>>

-----------------------------------------------------------------------------
Init ==
    /\ pc = "idle" /\ call = "disable" /\ plan \in Plans /\ expected = Nothing
    /\ config = Nothing /\ service = "absent" /\ device = Nothing /\ overlap = FALSE
    /\ errors = {} /\ answer = Nothing /\ faulty = TRUE

Step == Verify \/ Uninstall \/ Wait \/ Remove \/ Write \/ Install \/ Poll

Next ==
    \/ Step \/ DisableStart \/ Readback \/ \E p \in Plans : ApplyStart(p)
    \/ Deleted \/ Intrude \/ Withdraw \/ StartStop \/ Overlap \/ Crash \/ Heal

Spec == Init /\ [][Next]_vars

\* The retries of the manager and the executor; other programs withdraw.
Retry == answer = "error" /\ DisableStart
Fairness == /\ WF_vars(Step) /\ SF_vars(Retry) /\ WF_vars(Heal)
            /\ WF_vars(Deleted) /\ WF_vars(Withdraw)

FairSpec == Spec /\ Fairness

-----------------------------------------------------------------------------
(* Types, and what a device or an answer says of the service.                *)
TypeOK ==
    /\ pc \in {"idle", "verify", "uninstall", "wait", "remove", "write", "install", "poll"}
    /\ call \in {"apply", "abort", "disable"} /\ plan \in Plans
    /\ expected \in Plans \cup {Nothing} /\ config \in Plans \cup {Nothing}
    /\ service \in {"absent", "ours", "deleting", "foreign"}
    /\ errors \in SUBSET {"command", "service"}
    /\ device \in Plans \cup {Nothing} /\ overlap \in BOOLEAN /\ faulty \in BOOLEAN
    /\ answer \in Plans \cup {Nothing, "empty", "error", "none"}

\* Only our service runs the tunnel, and a successful disable leaves none of ours
\* that could start it again.
ServiceInv ==
    /\ device # Nothing => service = "ours"
    /\ pc # "idle" => answer = "none"
    /\ answer = Nothing => service # "ours"
    /\ pc = "remove" /\ errors = {} => service # "ours"

-----------------------------------------------------------------------------
(* The executor's promise: an empty readback means that no tunnel of ours is  *)
(* up, an applied plan is in force, and after Disable nothing of ours starts  *)
(* a tunnel again, across restarts of the process.                            *)
Tunnel == CASE device = Nothing -> Nothing
             [] device # Nothing /\ InForce -> device
             [] OTHER -> Rest

Abstract == INSTANCE TunnelSystem WITH tunnel <- Tunnel

WindowsKeepsPromise == Abstract!Spec

(* executor.recover and disconnectLocked retry a Disable that failed; once    *)
(* faults end a retry has to succeed.                                         *)
WindowsRecovers == []<>(answer \in Plans \cup {Nothing, "empty"})
=============================================================================
