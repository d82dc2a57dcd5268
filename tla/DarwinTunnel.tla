---------------------------- MODULE DarwinTunnel ----------------------------
(***************************************************************************)
(* The macOS tunnel (system_darwin.go, dns_darwin.go): a device of this     *)
(* process, its interface, and temporary values in the dynamic store.       *)
(* Every call holds mu; pc is the next contact with the system of the       *)
(* running one.                                                             *)
(***************************************************************************)
EXTENDS Naturals

CONSTANTS Plans,     \* tunnel plans
          Resolving, \* those with DNS servers
          Nothing, Rest

VARIABLES
    pc, call,   \* the running call: "apply", "abort" (its cleanup), "disable"
    plan,       \* the argument of Apply
    device,     \* s.device: the open device
    name,       \* s.name is set
    expected,   \* s.expected
    handle,     \* s.dns holds a session of the dynamic store
    left,       \* cleanupErr: the interface outlived the device
    link,       \* the interface of that name: "absent", "ours" or "foreign"
    set,        \* addresses, link state and routes: "none", "part" or "whole"
    store,      \* values under the service's keys: "absent", "ours", "foreign"
    overlap,    \* another interface has overlapping routes
    answer,
    faulty

process == <<device, name, expected, handle>>
system == <<link, set, store, overlap>>
vars == <<pc, call, plan, process, left, system, answer, faulty>>

Keys == {"dns", "ip"}
Empty == [k \in Keys |-> "absent"]

-----------------------------------------------------------------------------
Matches == handle /\ \A k \in Keys : store[k] = "ours"

\* The device with its peer, and the interface that is its own.
Peered == device /\ link = "ours"

\* The routes of the plan, and none of another interface over them.
Routed == set = "whole" /\ ~overlap

\* readback: every part of the plan is in place; with no device, nothing may be
\* waiting for cleanup.
InForce == Peered /\ Routed /\ (expected \in Resolving => Matches)
Clean == ~device /\ ~handle /\ ~name

Return(value) == pc' = "idle" /\ answer' = value /\ UNCHANGED call

ApplyStart(p) ==
    /\ pc = "idle" /\ pc' = "close" /\ call' = "apply" /\ plan' = p
    /\ answer' = "none" /\ UNCHANGED <<process, left, system, faulty>>

DisableStart ==
    /\ pc = "idle" /\ pc' = "close" /\ call' = "disable"
    /\ answer' = "none" /\ UNCHANGED <<plan, process, left, system, faulty>>

Readback ==
    /\ pc = "idle"
    /\ answer' = CASE Clean -> "empty"
                   [] InForce -> expected
                   [] OTHER -> "error"
    /\ UNCHANGED <<pc, call, plan, process, left, system, faulty>>

Abort == pc' = "close" /\ call' = "abort" /\ UNCHANGED answer

\* disable: the device is closed; its interface may linger, or another program
\* may have taken the name.
Close ==
    /\ pc = "close" /\ pc' = "dns" /\ device' = FALSE
    /\ link' \in IF device /\ link = "ours"
                 THEN {"absent"} \cup (IF faulty THEN {"ours", "foreign"} ELSE {})
                 ELSE {link}
    /\ set' = IF link' = "ours" THEN set ELSE "none"
    /\ left' = (name /\ link' # "absent") /\ name' = left'
    /\ UNCHANGED <<call, plan, expected, handle, store, overlap, answer, faulty>>

\* The end of disable in its three uses.
Disabled(failed) ==
    CASE call = "apply" /\ ~failed -> pc' = "create" /\ UNCHANGED <<call, answer>>
      [] call = "disable" /\ ~failed -> Return(Nothing)
      [] OTHER -> Return("error")

CheckExact == \A k \in Keys : store[k] = "ours"
Check == \A k \in Keys : store[k] # "foreign"

\* sohaDNSClose: nothing is removed while any value is not ours; each value is
\* compared again when its turn comes.
CloseDNS ==
    /\ pc = "dns"
    /\ \/ ~handle /\ Disabled(left) /\ expected' = Nothing /\ UNCHANGED <<handle, store>>
       \/ handle /\ ~Check /\ Disabled(TRUE) /\ UNCHANGED <<expected, handle, store>>
       \/ handle /\ Check /\ pc' = "remove dns"
          /\ UNCHANGED <<call, answer, expected, handle, store>>
    /\ UNCHANGED <<plan, device, name, left, link, set, overlap, faulty>>

RemoveUncompared(k) == store' = [store EXCEPT ![k] = "absent"]
Remove(k) ==
    \/ store[k] # "foreign" /\ store' = [store EXCEPT ![k] = "absent"]
    \/ store[k] = "foreign" /\ UNCHANGED store
Removed(k) == store[k] # "foreign"

RemoveKey ==
    /\ \/ /\ pc = "remove dns" /\ Remove("dns")
          /\ IF Removed("dns") THEN pc' = "remove ip" /\ UNCHANGED <<call, answer>>
             ELSE Disabled(TRUE)
          /\ UNCHANGED <<handle, expected>>
       \/ /\ pc = "remove ip" /\ Remove("ip") /\ Disabled(left \/ ~Removed("ip"))
          /\ handle' = ~Removed("ip")
          /\ expected' = IF Removed("ip") THEN Nothing ELSE expected
       \/ /\ faulty /\ pc \in {"remove dns", "remove ip"} /\ Disabled(TRUE)
          /\ UNCHANGED <<store, handle, expected>>
    /\ UNCHANGED <<plan, device, name, left, link, set, overlap, faulty>>

-----------------------------------------------------------------------------
(* Apply after the previous tunnel is gone.                                  *)

Create ==
    /\ pc = "create"
    /\ \/ /\ ~overlap /\ pc' = "configure" /\ UNCHANGED <<call, answer>>
          /\ device' = TRUE /\ name' = TRUE /\ expected' = plan
          /\ link' = "ours" /\ set' = "none"
       \/ (overlap \/ faulty) /\ Return("error")
          /\ UNCHANGED <<device, name, expected, link, set>>
    /\ UNCHANGED <<plan, handle, left, store, overlap, faulty>>

\* Addresses, link state and routes, command after command.
Configure ==
    /\ pc = "configure"
    /\ \/ set' = "whole" /\ pc' = "resolve" /\ UNCHANGED <<call, answer>>
       \/ faulty /\ set' \in {"none", "part"} /\ Abort
    /\ UNCHANGED <<plan, process, left, link, store, overlap, faulty>>

\* sohaDNSOpen: all values under a fresh service, or the session and with it
\* the values are dropped.
OpenDNS ==
    /\ pc = "resolve"
    /\ \/ /\ plan \in Resolving /\ pc' = "poll" /\ UNCHANGED <<call, answer>>
          /\ handle' = TRUE /\ store' = [k \in Keys |-> "ours"]
       \/ plan \notin Resolving /\ pc' = "poll"
          /\ UNCHANGED <<call, answer, handle, store>>
       \/ faulty /\ Abort /\ UNCHANGED <<handle, store>>
    /\ UNCHANGED <<plan, device, name, expected, left, link, set, overlap, faulty>>

\* Until the readback is the plan, or the deadline.
Poll ==
    /\ pc = "poll"
    /\ \/ InForce /\ Return(plan)
       \/ (faulty \/ ~InForce) /\ Abort
    /\ UNCHANGED <<plan, process, left, system, faulty>>

-----------------------------------------------------------------------------
(* The system around it.                                                     *)

\* Another program overwrites one of the values, or takes its change back; the
\* removal of one of ours counts as an overwriting that was taken back.
Overwrite(k) ==
    /\ handle /\ faulty /\ store[k] = "ours"
    /\ store' = [store EXCEPT ![k] = "foreign"]
    /\ UNCHANGED <<pc, call, plan, process, left, link, set, overlap, answer, faulty>>

GiveBack(k) ==
    /\ store[k] = "foreign" /\ store' = [store EXCEPT ![k] = "absent"]
    /\ UNCHANGED <<pc, call, plan, process, left, link, set, overlap, answer, faulty>>

\* A lingering interface goes; another program's tunnel comes or goes.
Unlink ==
    /\ ~device /\ link # "absent" /\ link' = "absent" /\ set' = "none"
    /\ UNCHANGED <<pc, call, plan, process, left, store, overlap, answer, faulty>>

Foreign ==
    /\ \/ overlap' = ~overlap /\ (overlap' => faulty) /\ UNCHANGED <<link, set>>
       \/ faulty /\ link = "ours" /\ set = "whole" /\ set' = "part"
          /\ UNCHANGED <<link, overlap>>
    /\ UNCHANGED <<pc, call, plan, process, left, store, answer, faulty>>

\* With the process go its device and its session of the dynamic store.
Crash ==
    /\ faulty
    /\ pc' = "idle" /\ call' = "disable" /\ answer' = "error" /\ left' = FALSE
    /\ device' = FALSE /\ name' = FALSE /\ expected' = Nothing /\ handle' = FALSE
    /\ link' = IF link = "ours" THEN "absent" ELSE link
    /\ set' = "none" /\ store' = Empty
    /\ UNCHANGED <<plan, overlap, faulty>>

Heal == faulty /\ faulty' = FALSE
        /\ UNCHANGED <<pc, call, plan, process, left, system, answer>>

-----------------------------------------------------------------------------
Init ==
    /\ pc = "idle" /\ call = "disable" /\ plan \in Plans /\ left = FALSE
    /\ device = FALSE /\ name = FALSE /\ expected = Nothing /\ handle = FALSE
    /\ link = "absent" /\ set = "none" /\ store = Empty /\ overlap = FALSE
    /\ answer = Nothing /\ faulty = TRUE

Step == Close \/ CloseDNS \/ RemoveKey \/ Create \/ Configure \/ OpenDNS \/ Poll

Retreat == Unlink \/ \E k \in Keys : GiveBack(k)

Next ==
    \/ Step \/ DisableStart \/ Readback \/ \E p \in Plans : ApplyStart(p)
    \/ Retreat \/ Foreign \/ Crash \/ Heal
    \/ \E k \in Keys : Overwrite(k)

Spec == Init /\ [][Next]_vars

(* A failed call is followed by another Disable (executor.recover, and the    *)
(* manager's cycles while a cleanup is owed); calls have deadlines; other      *)
(* programs give back what they took.                                         *)
Retry == answer = "error" /\ DisableStart
Fairness == /\ WF_vars(Step) /\ SF_vars(Retry) /\ WF_vars(Heal)
            /\ WF_vars(Unlink) /\ \A k \in Keys : WF_vars(GiveBack(k))

FairSpec == Spec /\ Fairness

-----------------------------------------------------------------------------
(* Types, and what the process knows of the values it left in the system.   *)

Removing == {"close", "dns", "remove dns", "remove ip"}
Building == {"create", "configure", "resolve", "poll"}
Stores == [Keys -> {"absent", "ours", "foreign"}]

TypeOK ==
    /\ pc \in {"idle"} \cup Removing \cup Building
    /\ call \in {"apply", "abort", "disable"} /\ plan \in Plans
    /\ device \in BOOLEAN /\ name \in BOOLEAN /\ handle \in BOOLEAN /\ left \in BOOLEAN
    /\ overlap \in BOOLEAN /\ faulty \in BOOLEAN
    /\ expected \in Plans \cup {Nothing}
    /\ link \in {"absent", "ours", "foreign"} /\ set \in {"none", "part", "whole"}
    /\ store \in Stores
    /\ answer \in Plans \cup {Nothing, "empty", "error", "none"}

\* The process can name everything of its own that is in the system.
KnownInv ==
    /\ device \/ link = "ours" => name
    /\ device => expected \in Plans
    /\ \A k \in Keys : store[k] # "absent" => handle

\* How far the running call has come, and what its answer claims.
CallInv ==
    /\ pc # "idle" => answer = "none"
    /\ pc \in Removing \ {"close"} => ~device
    /\ pc \in Removing \ {"close"} /\ ~left => link # "ours"
    /\ pc = "remove ip" => store["dns"] = "absent"
    /\ pc \in Building \ {"create"} => device /\ expected = plan
    /\ pc \in Building => call = "apply"
    /\ pc = "create" => ~device /\ link # "ours"
    /\ pc \in {"create", "configure", "resolve"} => ~handle
    /\ answer = Nothing => ~device /\ ~handle /\ link # "ours"

-----------------------------------------------------------------------------
Ours == device \/ link = "ours" \/ \E k \in Keys : store[k] = "ours"

Tunnel == IF ~Ours THEN Nothing
           ELSE IF InForce THEN expected ELSE Rest

Abstract == INSTANCE TunnelSystem WITH tunnel <- Tunnel

(* The tunnel keeps the executor's promise: an empty readback or a            *)
(* successful Disable leaves no device, interface or resolver setting         *)
(* behind, and Apply succeeds only with the whole plan in force.              *)
DarwinKeepsPromise == Abstract!Spec

(* A resolver setting that another program changed is left to it: cleanup     *)
(* waits, also when the change comes between two of its steps.                *)
ForeignKept ==
    [][\A k \in Keys : store[k] = "foreign" =>
          \/ store'[k] = "foreign"
          \/ UNCHANGED pc                         \* given back
          \/ answer' = "error" /\ ~name' /\ ~handle' \* the process is gone
      ]_vars

(* A cleanup that stopped between two values, or at a value that was changed  *)
(* meanwhile, is completed by a later one, and calls succeed again.           *)
DarwinRecovers == []<>(answer \in Plans \cup {Nothing, "empty"})
=============================================================================
