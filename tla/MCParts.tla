------------------------------ MODULE MCParts ------------------------------
(***************************************************************************)
(* Parts of the service and of the application that share no state, each on *)
(* its own small instance: a behaviour is one of the part in "part", and     *)
(* what it does not use stays None or FALSE.                                *)
(***************************************************************************)
EXTENDS Naturals

CONSTANTS Plans, Resolving, Nothing, Rest, Tasks, MaxVersion, MaxAttempts, None

\* A plan is none of the values that stand beside plans, and so for the rest.
ASSUME PlansAssumption ==
    /\ Plans \cap {Nothing, Rest, "inert", "own", "expired", "empty", "error", "none"} = {}
    /\ Nothing \notin {Rest, "inert", "own", "expired", "empty", "error", "none"}
ASSUME NoneAssumption ==
    /\ None \notin Tasks /\ None \notin [failures : 0..3, attempts : Nat]
    /\ None \notin {"self", "external", "partial", "queued", "downloading", "verifying", "opening"}
ASSUME BoundsAssumption == MaxVersion \in Nat /\ MaxAttempts \in Nat

VARIABLES part,
    pc, call, plan, expected, overlap, answer, faulty,
    device, name, handle, left, link, set, store,            \* DarwinTunnel
    config, service, errors,                                 \* WindowsTunnel
    failed, gate, applied, engine, flow,                     \* MihomoController
    locked, artifact, fetched, tasks, kept, opened, offered, served, \* SoftwareLibrary
    op, asked, manifest, candidate, delivered, status, installed, executable,
    published, writable, platform,                           \* AppUpdate
    login, recovery, retry, cooling, seen, fresh, mutation, live, panel, vpn, spent

D == INSTANCE DarwinTunnel
W == INSTANCE WindowsTunnel
M == INSTANCE MihomoController
L == INSTANCE SoftwareLibrary
U == INSTANCE AppUpdate
R == INSTANCE VPNRecovery

calls == <<call, plan, answer, faulty>>
network == <<expected, overlap, device>>
darwin == <<name, handle, left, link, set, store>>
windows == <<config, service, errors>>
mihomo == <<failed, gate, applied, engine, flow>>
library == <<locked, artifact, fetched, tasks, kept, opened, offered, served>>
update == <<op, asked, manifest, candidate, delivered, status, installed, executable,
            published, writable, platform>>
interface == <<login, recovery, retry, cooling, seen, fresh, mutation, live, panel, vpn, spent>>
vars == <<part, pc, calls, network, darwin, windows, mihomo, library, update, interface>>

NoCalls == call = None /\ plan = None /\ answer = None /\ faulty = None
NoNetwork == expected = None /\ overlap = None /\ device = None
NoDarwin ==
    /\ name = None /\ handle = None /\ left = None /\ link = None /\ set = None
    /\ store = None
NoWindows == config = None /\ service = None /\ errors = None
NoMihomo == failed = None /\ gate = None /\ applied = None /\ engine = None /\ flow = None
NoLibrary ==
    /\ locked = None /\ artifact = None /\ fetched = None /\ tasks = None /\ kept = None
    /\ opened = None /\ offered = None /\ served = None
NoUpdate ==
    /\ op = None /\ asked = None /\ manifest = None /\ candidate = None /\ delivered = None /\ status = None
    /\ installed = None /\ executable = None /\ published = None /\ writable = None /\ platform = None
NoInterface ==
    /\ login = FALSE /\ recovery = None /\ retry = FALSE /\ cooling = None /\ seen = None
    /\ fresh = None /\ mutation = None /\ live = None /\ panel = None /\ vpn = None /\ spent = None

Init ==
    \/ part = "darwin" /\ D!Init /\ NoWindows /\ NoMihomo /\ NoLibrary /\ NoUpdate /\ NoInterface
    \/ part = "windows" /\ W!Init /\ NoDarwin /\ NoMihomo /\ NoLibrary /\ NoUpdate /\ NoInterface
    \/ part = "mihomo" /\ M!Init /\ NoNetwork /\ NoDarwin /\ NoWindows /\ NoLibrary /\ NoUpdate /\ NoInterface
    \/ /\ part = "library" /\ L!Init
       /\ NoCalls /\ NoNetwork /\ NoDarwin /\ NoWindows /\ NoMihomo /\ NoUpdate /\ NoInterface
    \/ /\ part = "update" /\ U!Init
       /\ NoCalls /\ NoNetwork /\ NoDarwin /\ NoWindows /\ NoMihomo /\ NoLibrary /\ NoInterface
    \/ /\ part = "recovery" /\ R!Init /\ pc = None
       /\ NoCalls /\ NoNetwork /\ NoDarwin /\ NoWindows /\ NoMihomo /\ NoLibrary /\ NoUpdate

Darwin == part = "darwin" /\ D!Next
          /\ UNCHANGED <<part, windows, mihomo, library, update, interface>>
Windows == part = "windows" /\ W!Next
           /\ UNCHANGED <<part, darwin, mihomo, library, update, interface>>
Mihomo == part = "mihomo" /\ M!Next
          /\ UNCHANGED <<part, network, darwin, windows, library, update, interface>>
Library == part = "library" /\ L!Next
           /\ UNCHANGED <<part, calls, network, darwin, windows, mihomo, update, interface>>
Update == part = "update" /\ U!Next
          /\ UNCHANGED <<part, calls, network, darwin, windows, mihomo, library, interface>>
Recovery == part = "recovery" /\ R!Next
            /\ UNCHANGED <<part, pc, calls, network, darwin, windows, mihomo, library, update>>

Next == Darwin \/ Windows \/ Mihomo \/ Library \/ Update \/ Recovery

(* The fairness of DarwinTunnel and of VPNRecovery, in their behaviours; and    *)
(* the goroutine of a download runs on, which ends within the thirty minutes    *)
(* of the library's client (newSoftwareLibrary).                               *)
Fairness ==
    /\ WF_(D!vars)(part = "darwin" /\ D!Step)
    /\ SF_(D!vars)(part = "darwin" /\ D!Retry)
    /\ WF_(D!vars)(part = "darwin" /\ D!Heal)
    /\ WF_(D!vars)(part = "darwin" /\ D!Unlink)
    /\ \A k \in D!Keys : WF_(D!vars)(part = "darwin" /\ D!GiveBack(k))
    /\ \A t \in Tasks : WF_(L!vars)(part = "library" /\ L!Run(t))
    /\ WF_(R!vars)(part = "recovery" /\ R!Effect)
    /\ WF_(R!vars)(part = "recovery" /\ recovery # None /\ R!Poll)
    /\ WF_(R!vars)(part = "recovery" /\ R!Cool)

FairSpec == Init /\ [][Next]_vars /\ Fairness

-----------------------------------------------------------------------------
(* Each of the systems the executor and the coordinated executor call keeps    *)
(* the promise of TunnelSystem: what an answer says of the tunnel or the proxy  *)
(* is true of the machine when it is given, and what was disabled stays down.   *)
SystemsKeepPromise ==
    /\ [][part = "darwin" => [D!Abstract!Next]_<<D!Tunnel, answer>>]_vars
    /\ [][part = "windows" => [W!Abstract!Next]_<<W!Tunnel, answer>>]_vars
    /\ [][part = "mihomo" => [M!Abstract!Next]_<<M!Tunnel, answer>>]_vars

(* A resolver setting that another program changed is left to it, also when    *)
(* the change comes between two steps of the cleanup (sohaDNSClose).            *)
ForeignKept ==
    [][part = "darwin" => \A k \in D!Keys : store[k] = "foreign" =>
          \/ store'[k] = "foreign"
          \/ UNCHANGED pc                         \* given back
          \/ answer' = "error" /\ ~name' /\ ~handle']_vars \* the process is gone

(* A cleanup of the macOS tunnel that stopped half way is completed by a later *)
(* one, and calls succeed again.                                               *)
DarwinRecovers == part = "darwin" => D!DarwinRecovers

(* After a successful disable of the proxy no connection is left (disable,     *)
(* closeConnections).                                                          *)
DisabledIsDrained == part = "mihomo" => M!DisabledIsDrained

(* An ingress of the proxy leads only to inspected nodes (applySource).        *)
IngressIsInspected == part = "mihomo" => M!IngressIsInspected

(* Requests that come at once start one installation, and the installer is     *)
(* opened only with the package its request looked up (install, runInstall).   *)
OneInstallation == part = "library" => L!OneInstallation /\ L!OpenedIsVerified

(* A task that was accepted ends as completed or failed on every path, and a   *)
(* library that is busy comes free again (software.go:333-336, 362-376).       *)
TasksEnd ==
    /\ \A t \in Tasks : part = "library" /\ tasks[t] \in L!Unfinished
                        ~> part = "library" /\ tasks[t] \in L!Final
    /\ part = "library" /\ locked ~> part = "library" /\ ~locked

(* A connection is recovered at most maxAttempts times (VPNRecovery).          *)
BudgetKept == part = "recovery" => R!BudgetKept

(* A recovery that failed for a passing reason is tried again (VPNRecovery).   *)
RetryIsMade == part = "recovery" => R!RetryIsMade

(* Only the content of a newer signed version replaces the application         *)
(* (signedManifestProvider.Check and Download).                                *)
OnlySignedSuccessors ==
    [][part = "update" /\ installed' # installed =>
          /\ installed' > installed /\ installed' \in U!Signed
          /\ executable' = installed']_vars
=============================================================================
