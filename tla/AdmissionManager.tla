-------------------------- MODULE AdmissionManager --------------------------
(***************************************************************************)
(* Wired and wireless admission: AdmissionManager (eap_manager.go,         *)
(* eap_cleanup.go) above the macOS system (eap_darwin*.go), the control    *)
(* that issues and activates certificates, and the user who installs the   *)
(* exported profiles.                                                      *)
(*                                                                         *)
(* Every operation holds mu.  pc is the next call of the running one; a    *)
(* step is a call out of the process with the code up to the next call,    *)
(* the save of the state file included.  A crash between the call and the  *)
(* save leaves what a failed save leaves, followed by a crash.             *)
(***************************************************************************)
EXTENDS Naturals, FiniteSets

CONSTANTS
    Ids,         \* request identifiers: one key and one certificate each
    Exports,     \* exported profile files; each has an identity hash of its own
    Profiles,    \* admission profiles the control may authorise
    Policies,    \* contents a profile can have (eapProfileHash)
    None,
    QueueLimit,  \* cleanup jobs the state file may hold (16 in the code)
    PriorLimit   \* exported generations a selection remembers (16)

ASSUME AdmissionAssumption ==
    /\ None \notin Ids \cup Exports \cup Policies
    /\ QueueLimit \in Nat /\ PriorLimit \in Nat

VARIABLES
    mem, disk,   \* eapState in memory and in the protected file
    pc, task,    \* the running operation and its locals
    granted,     \* profiles of the last observation, until it expires
    view,        \* what it says of the active identity: "old" (made before
                 \* the activation), "same" or "other" (fingerprint)
    life,        \* what is left of each certificate
    current,     \* the identity the control counts as active
    key,         \* what CreateCSR left of a key and its request (Written)
    of,          \* the identity an export was made for
    files,       \* exported files that exist
    stray,       \* an empty export exists whose receipt does not identify it
    installed,   \* the export installed for each profile
    faulty       \* the disk, the system and the control may still fail

state == <<mem, disk>>
policy == <<granted, view>>
system == <<key, of, files, stray, installed>>
vars == <<mem, disk, pc, task, granted, view, life, current,
          key, of, files, stray, installed, faulty>>

-----------------------------------------------------------------------------
(* The persisted state.                                                     *)

Selection == {s \in [policy : Policies \cup {None}, export : Exports \cup {None},
                      prior : SUBSET Exports, file : BOOLEAN] :
                 s.file => s.export # None}
NotSelected == [policy |-> None, export |-> None, prior |-> {}, file |-> FALSE]

\* jobs: identities whose key and certificate are to be deleted; shared: the
\* one job without a request identifier, which collects files.
State == [active : Ids \cup {None}, pending : Ids \cup {None},
          csr : BOOLEAN, cert : BOOLEAN, stale : BOOLEAN,
          sel : [Profiles -> Selection],
          jobs : SUBSET Ids, shared : BOOLEAN, files : SUBSET Exports]

EmptyState == [active |-> None, pending |-> None, csr |-> FALSE, cert |-> FALSE,
               stale |-> FALSE, sel |-> [p \in Profiles |-> NotSelected],
               jobs |-> {}, shared |-> FALSE, files |-> {}]

Selected(s) == {p \in Profiles : s.sel[p].policy # None}
Jobs(s) == Cardinality(s.jobs) + (IF s.shared THEN 1 ELSE 0)
Owned(s) == ({s.active, s.pending} \cup s.jobs) \ {None}
IdOf(e) == IF e = None THEN None ELSE of[e]
Target(s) == IF s.pending # None THEN s.pending ELSE s.active
HasCertificate(s) == s.pending # None => s.cert

\* queueCleanup of identities and of exported files.
QueueIds(s, ids) == [s EXCEPT !.jobs = @ \cup (ids \ {None})]
QueueFiles(s, es) ==
    [s EXCEPT !.files = @ \cup es, !.shared = @ \/ es # {}]
WithoutPending(s) ==
    [s EXCEPT !.pending = None, !.csr = FALSE, !.cert = FALSE, !.stale = FALSE]

\* detachSelection: the profile's trust and file are queued, and with the last
\* selection both identities.
Deselect(s, p) ==
    [s EXCEPT !.sel[p] = NotSelected, !.shared = TRUE,
              !.files = @ \cup (IF s.sel[p].file THEN {s.sel[p].export} ELSE {})]
Detach(s, p) ==
    IF Selected(Deselect(s, p)) # {} THEN Deselect(s, p)
    ELSE [WithoutPending(QueueIds(Deselect(s, p), {s.active, s.pending}))
             EXCEPT !.active = None]

-----------------------------------------------------------------------------
(* What the operations ask and how they end.                                *)

Authorised(p) == granted[p] # None
Unauthorised == [p \in Profiles |-> None]
Unchanged(p, s) == Authorised(p) /\ granted[p] = s.sel[p].policy

ActiveCurrent(s) ==
    /\ s.active # None
    /\ life[s.active] # "expired"
    /\ view # "old" => view = "same" /\ \A p \in Selected(s) : Authorised(p)

\* The selection's recorded exports, which Remove compares with what is
\* installed by the hash of the identity payload.
Installed(p) == installed[p]
Recorded(s, p) == s.sel[p].prior \cup ({s.sel[p].export} \ {None})
Recognised(p) == Installed(p) = None \/ Installed(p) \in Recorded(mem, p)

Calls == {"idle", "withdraw", "remove", "identity", "key", "issue", "stage",
          "readback", "activate", "cleanup", "recover"}
Task == [op : {"none", "prepare", "check", "remove"},
         profile : Profiles \cup {None}, todo : SUBSET Profiles]
NoTask == [op |-> "none", profile |-> None, todo |-> {}]
Go(step) == pc' = step /\ UNCHANGED task
Return == Go("recover")

\* save: the file is replaced, or memory falls back to it and the
\* authorisation is withdrawn.
SaveAs(s, step, t) ==
    /\ task' = t
    /\ \/ /\ Jobs(s) <= QueueLimit
          /\ mem' = s /\ disk' = s
          /\ pc' = step /\ UNCHANGED granted
       \/ /\ Jobs(s) > QueueLimit \/ faulty
          /\ mem' = disk /\ UNCHANGED disk
          /\ pc' = "recover" /\ granted' = Unauthorised

Save(s, step) == SaveAs(s, step, task)

-----------------------------------------------------------------------------
(* Prepare, Check and Remove up to their first common part.                 *)

PrepareStart(p) ==
    /\ pc = "idle" /\ Authorised(p)
    /\ LET call == [op |-> "prepare", profile |-> p, todo |-> {}] IN
       \/ /\ p \in Selected(mem)
          /\ pc' = "identity" /\ task' = call /\ UNCHANGED <<state, granted>>
       \/ /\ p \notin Selected(mem)
          /\ SaveAs([mem EXCEPT !.sel[p].policy = granted[p]], "identity", call)
    /\ UNCHANGED <<view, life, current, system, faulty>>

CheckStart ==
    /\ pc = "idle"
    /\ pc' = "withdraw" /\ task' = [NoTask EXCEPT !.op = "check"]
    /\ UNCHANGED <<state, policy, system, life, current, faulty>>

RemoveStart(p) ==
    /\ pc = "idle" /\ p \in Selected(mem)
    /\ pc' = "remove" /\ task' = [op |-> "remove", profile |-> p, todo |-> {}]
    /\ UNCHANGED <<state, policy, system, life, current, faulty>>

RemoveProfileAnyway(p, next) ==
    /\ installed' = [installed EXCEPT ![p] = IF Recognised(p) THEN None ELSE @]
    /\ Save(Detach(mem, p), next)
    /\ UNCHANGED <<view, current, key, of, files, stray>>

\* system.Remove and detachSelection; a profile whose content is not one of the
\* recorded exports is left alone.
RemoveProfile(p, next) ==
    \/ /\ Recognised(p)
       /\ installed' = [installed EXCEPT ![p] = None]
       /\ Save(Detach(mem, p), next)
       /\ UNCHANGED <<view, current, key, of, files, stray>>
    \/ /\ ~Recognised(p) \/ faulty
       /\ Return /\ UNCHANGED <<state, policy, system, current>>

Remove ==
    /\ pc = "remove" /\ \E p \in Profiles : p = task.profile /\ RemoveProfile(p, "cleanup")
    /\ UNCHANGED <<life, faulty>>

\* Check: what is no longer authorised is removed first.
Withdraw(p) ==
    /\ pc = "withdraw" /\ p \in Selected(mem) /\ ~Unchanged(p, mem)
    /\ RemoveProfile(p, "withdraw")
    /\ UNCHANGED <<life, faulty>>

\* Check: then it stops, renews the identity or reads the profiles back.
RenewalDue(s) ==
    s.pending = None /\ s.active # None
    /\ (~ActiveCurrent(s) \/ life[s.active] # "fresh")

AfterWithdrawalOnlySelected(s) ==
    CASE Selected(s) = {} \/ s.stale -> "recover"
      [] Selected(s) # {} /\ ~s.stale /\ RenewalDue(s) -> "identity"
      [] OTHER -> "readback"

AfterWithdrawal(s) ==
    CASE Selected(s) = {} -> "cleanup"
      [] Selected(s) # {} /\ s.stale -> "recover"
      [] Selected(s) # {} /\ ~s.stale /\ RenewalDue(s) -> "identity"
      [] OTHER -> "readback"

Continue ==
    /\ pc = "withdraw" /\ \A p \in Selected(mem) : Unchanged(p, mem)
    /\ Go(AfterWithdrawal(mem))
    /\ UNCHANGED <<state, policy, system, life, current, faulty>>

-----------------------------------------------------------------------------
(* ensureIdentity and stage.                                                *)

ReplacedForgotten(s) == IF s.stale THEN WithoutPending(s) ELSE s

\* A stale identity makes room for the next one.
Replaced(s) == IF s.stale THEN WithoutPending(QueueIds(s, {s.pending})) ELSE s

\* The bound on Ids ends an operation the way a full queue does.
Unused == {id \in Ids : life[id] = "unused"}

Staging == [task EXCEPT !.todo = Selected(mem)]
StartStaging == pc' = "stage" /\ task' = Staging

Identity ==
    /\ pc = "identity"
    /\ LET s == Replaced(mem) IN
       \/ /\ s.pending = None /\ ActiveCurrent(s) /\ life[s.active] = "fresh"
          /\ mem' = s /\ StartStaging /\ UNCHANGED <<disk, granted>>
       \/ /\ s.pending = None /\ ~(ActiveCurrent(s) /\ life[s.active] = "fresh")
          /\ Jobs(s) >= QueueLimit \/ Unused = {}
          /\ mem' = s /\ Return /\ UNCHANGED <<disk, granted>>
       \/ /\ s.pending = None /\ ~(ActiveCurrent(s) /\ life[s.active] = "fresh")
          /\ Jobs(s) < QueueLimit
          /\ \E id \in Unused : Save([s EXCEPT !.pending = id], "key")
       \/ /\ s.pending # None
          /\ mem' = s /\ Go("key") /\ UNCHANGED <<disk, granted>>
    /\ life' = [id \in Ids |-> IF id = mem'.pending /\ life[id] = "unused"
                               THEN "issued" ELSE life[id]]
    /\ UNCHANGED <<view, system, current, faulty>>

\* CreateCSR creates the key file and then the request file, each in place: an
\* interrupted call leaves no key, a "damaged" key, a "bare" key without a
\* request, a whole key with a damaged request ("unsigned"), or both "whole".
KeyStates == {"none", "damaged", "bare", "unsigned", "whole"}
Written(k) ==
    {k} \cup (IF k = "none" THEN {"damaged", "bare", "unsigned", "whole"} ELSE {})
        \cup (IF k = "bare" THEN {"unsigned", "whole"} ELSE {})

Key ==
    /\ pc = "key"
    /\ \/ /\ mem.csr /\ Go("issue")
          /\ UNCHANGED <<state, granted, key>>
       \/ /\ ~mem.csr /\ key[mem.pending] \in {"none", "bare", "whole"}
          /\ key' = [key EXCEPT ![mem.pending] = "whole"]
          /\ Save([mem EXCEPT !.csr = TRUE], "issue")
       \/ /\ ~mem.csr /\ faulty
          /\ \E k \in Written(key[mem.pending]) : key' = [key EXCEPT ![mem.pending] = k]
          /\ Return /\ UNCHANGED <<state, granted>>
       \/ /\ ~mem.csr /\ key[mem.pending] \in {"damaged", "unsigned"} /\ Return
          /\ UNCHANGED <<state, granted, key>>
    /\ UNCHANGED <<view, life, current, of, files, stray, installed, faulty>>

Certified == [life EXCEPT ![mem.pending] = IF @ = "issued" THEN "fresh" ELSE @]

\* IssueEAPCertificate answers a repeated request with the same certificate.
Issue ==
    /\ pc = "issue"
    /\ \/ /\ mem.cert /\ StartStaging
          /\ UNCHANGED <<state, granted, life>>
       \/ /\ ~mem.cert /\ life[mem.pending] # "expired"
          /\ life' = Certified
          /\ SaveAs([mem EXCEPT !.cert = TRUE], "stage", Staging)
       \/ /\ ~mem.cert /\ Save([mem EXCEPT !.stale = TRUE], "recover")
          /\ UNCHANGED life
       \/ /\ ~mem.cert
          /\ faulty \/ life[mem.pending] = "expired"
          /\ Return /\ UNCHANGED <<state, granted>>
          /\ life' \in {life, Certified}
    /\ UNCHANGED <<view, system, current, faulty>>

Stageable(s) == Target(s) # None /\ HasCertificate(s) /\ life[Target(s)] # "expired"
UpToDate(p) == IdOf(mem.sel[p].export) = Target(mem) /\ p # task.profile
Remembered(p) == mem.sel[p].prior \cup ({mem.sel[p].export} \ {None})

\* ExportProfile writes a receipt, creates the file, completes the receipt
\* with the file's identity and then the file.
Export(e) ==
    /\ of' = [of EXCEPT ![e] = Target(mem)]
    /\ files' = files \cup {e}

StageStep ==
    /\ pc = "stage"
    /\ \/ /\ task.todo # {} /\ Stageable(mem)
          /\ \E p \in task.todo :
             /\ Unchanged(p, mem)
             /\ \/ /\ UpToDate(p)
                   /\ task' = [task EXCEPT !.todo = @ \ {p}]
                   /\ UNCHANGED <<state, granted, pc, of, files>>
                \/ /\ ~UpToDate(p) /\ Cardinality(Remembered(p)) <= PriorLimit
                   /\ \E e \in Exports :
                      LET new == [mem.sel[p] EXCEPT !.export = e, !.file = TRUE,
                                                    !.prior = Remembered(p)]
                          old == IF mem.sel[p].file THEN {mem.sel[p].export} ELSE {}
                          s == QueueFiles([mem EXCEPT !.sel[p] = new], old)
                      IN  /\ of[e] = None
                          /\ Export(e)
                          /\ SaveAs(s, "stage", [task EXCEPT !.todo = @ \ {p}])
       \/ /\ task.todo # {}
          /\ \/ ~Stageable(mem) \/ faulty \/ \A e \in Exports : of[e] # None
             \/ \E p \in task.todo : ~Unchanged(p, mem)
                                  \/ Cardinality(Remembered(p)) > PriorLimit
          /\ Return /\ UNCHANGED <<state, granted, of, files>>
       \/ /\ task.todo = {}
          /\ Go(IF task.op = "check" THEN "readback" ELSE "recover")
          /\ UNCHANGED <<state, granted, of, files>>
    /\ UNCHANGED <<view, life, current, key, stray, installed, faulty>>

-----------------------------------------------------------------------------
(* Readback, activation and cleanup.                                        *)

ReadBackRecord(p) == IdOf(mem.sel[p].export) = Target(mem)

\* The readback compares everything but the identity payload.
ReadBack(p) == /\ IdOf(mem.sel[p].export) = Target(mem)
               /\ IdOf(Installed(p)) = Target(mem)

Readback ==
    /\ pc = "readback"
    /\ LET present == {p \in Selected(mem) : mem.sel[p].file}
           cleared == [p \in Profiles |->
                          [mem.sel[p] EXCEPT !.prior = {}, !.file = FALSE]]
           s == QueueFiles([mem EXCEPT !.sel = cleared],
                           {mem.sel[p].export : p \in present})
           next == IF mem.pending # None THEN "activate" ELSE "cleanup"
       IN  \/ /\ Stageable(mem) /\ \A p \in Selected(mem) : ReadBack(p)
              /\ IF s = mem THEN Go(next) /\ UNCHANGED <<state, granted>> ELSE Save(s, next)
           \/ /\ ~Stageable(mem) \/ faulty \/ \E p \in Selected(mem) : ~ReadBack(p)
              /\ Return /\ UNCHANGED <<state, granted>>
    /\ UNCHANGED <<view, system, life, current, faulty>>

ActivatedQueueingNew(s) ==
    [WithoutPending(QueueIds(s, {s.pending})) EXCEPT !.active = s.pending]
Activated(s) ==
    [WithoutPending(QueueIds(s, {s.active})) EXCEPT !.active = s.pending]

\* ActivateEAPCertificate confirms an activation that is repeated.
ControlActivatesOnce == current # mem.pending /\ current' = mem.pending
ControlActivates == current' = mem.pending

Activate ==
    /\ pc = "activate"
    /\ \/ /\ ControlActivates
          /\ Save(Activated(mem), "cleanup")
          /\ view' = IF mem'.active = mem.pending THEN "old" ELSE view
       \/ /\ current # mem.pending
          /\ Save([mem EXCEPT !.stale = TRUE], "recover")
          /\ UNCHANGED <<current, view>>
       \/ /\ faulty /\ current' \in {current, mem.pending}
          /\ Return /\ UNCHANGED <<state, granted, view>>
    /\ UNCHANGED <<system, life, faulty>>

\* removeEAPArtifact: only what a receipt identifies.
RemoveArtifacts(es) == files' = files \ es

Cleanup ==
    /\ pc = "cleanup"
    /\ \/ /\ Jobs(mem) = 0 /\ Return /\ UNCHANGED <<state, granted, key, files>>
       \/ \E id \in mem.jobs :
          /\ key[id] # "damaged"
          /\ key' = [key EXCEPT ![id] = "none"]
          /\ Save([mem EXCEPT !.jobs = @ \ {id}], "cleanup")
          /\ UNCHANGED files
       \/ /\ mem.shared
          /\ RemoveArtifacts(mem.files)
          /\ Save([mem EXCEPT !.shared = FALSE, !.files = {}], "cleanup")
          /\ UNCHANGED key
       \/ /\ faulty \/ \E id \in mem.jobs : key[id] = "damaged"
          /\ Return /\ UNCHANGED <<state, granted, key, files>>
    /\ UNCHANGED <<view, of, stray, installed, life, current, faulty>>

\* recoverArtifacts, deferred by every operation: files no selection refers to
\* are deleted by their receipts, up to one it cannot recognise.
Offered(s) == {s.sel[p].export : p \in {q \in Profiles : s.sel[q].file}}

RecoverAfterPrepare ==
    /\ pc = "recover" /\ pc' = "idle" /\ task' = NoTask
    /\ files' = IF task.op = "prepare" THEN files \cap Offered(mem) ELSE files
    /\ UNCHANGED <<state, policy, key, of, stray, installed, life, current, faulty>>

Recover ==
    /\ pc = "recover"
    /\ pc' = "idle" /\ task' = NoTask
    /\ \/ ~stray /\ files' = files \cap Offered(mem)
       \/ faulty /\ UNCHANGED files
       \/ stray /\ \E done \in SUBSET files : files' = files \ (done \ Offered(mem))
    /\ UNCHANGED <<state, policy, key, of, stray, installed, life, current, faulty>>

-----------------------------------------------------------------------------
(* The environment.                                                         *)

\* Observe, called for every authenticated configuration; one that was made
\* before the last activation says nothing about the active identity.
Observe ==
    /\ pc = "idle"
    /\ IF mem.active = None THEN view' = "old"
       ELSE \/ view = "old" /\ view' = "old"
            \/ view' = IF current = mem.active THEN "same" ELSE "other"
    /\ \/ /\ Jobs(mem) <= QueueLimit /\ mem' = mem /\ disk' = mem
          /\ granted' \in [Profiles -> Policies \cup {None}]
       \/ /\ Jobs(mem) > QueueLimit \/ faulty
          /\ mem' = disk /\ UNCHANGED disk /\ granted' = Unauthorised
    /\ UNCHANGED <<pc, task, system, life, current, faulty>>

\* The authorisation expires, or a configuration is missing, stale or invalid.
Withhold ==
    /\ granted # Unauthorised /\ granted' = Unauthorised
    /\ UNCHANGED <<state, pc, task, view, system, life, current, faulty>>

\* The user installs an exported file: the one the status names, or a copy of
\* an earlier generation that the selection still remembers.
Install(p) ==
    /\ \E e \in Recorded(mem, p) :
          e # installed[p] /\ installed' = [installed EXCEPT ![p] = e]
    /\ UNCHANGED <<state, policy, pc, task, key, of, files, stray, life, current, faulty>>

\* One hour before its end a certificate is due.
Age(id) ==
    /\ life[id] \in {"fresh", "due"}
    /\ life' = [life EXCEPT ![id] = IF @ = "fresh" THEN "due" ELSE "expired"]
    /\ UNCHANGED <<state, policy, pc, task, system, current, faulty>>

\* The control revokes the parent credential.
Rotate ==
    /\ current # None /\ current' = None
    /\ UNCHANGED <<state, policy, pc, task, system, life, faulty>>

\* The process stops anywhere and starts again from the file.
Restart ==
    /\ faulty
    /\ pc' = "idle" /\ task' = NoTask
    /\ mem' = disk /\ UNCHANGED disk
    /\ granted' = Unauthorised /\ view' = "old"
    /\ \/ UNCHANGED key
       \/ /\ pc = "key" /\ ~mem.csr
          /\ \E k \in Written(key[mem.pending]) : key' = [key EXCEPT ![mem.pending] = k]
    /\ stray' \in {stray, stray \/ pc = "stage"}
    /\ UNCHANGED <<of, files, installed, life, current, faulty>>

Heal ==
    /\ faulty /\ faulty' = FALSE
    /\ UNCHANGED <<state, policy, pc, task, system, life, current>>

-----------------------------------------------------------------------------
Init ==
    /\ mem = EmptyState /\ disk = EmptyState
    /\ pc = "idle" /\ task = NoTask
    /\ granted = Unauthorised /\ view = "old"
    /\ life = [id \in Ids |-> "unused"] /\ current = None
    /\ key = [id \in Ids |-> "none"] /\ of = [e \in Exports |-> None]
    /\ files = {} /\ stray = FALSE /\ installed = [p \in Profiles |-> None]
    /\ faulty = TRUE

Step ==
    \/ Remove \/ Continue \/ Identity \/ Key \/ Issue \/ StageStep
    \/ Readback \/ Activate \/ Cleanup \/ Recover
    \/ \E p \in Profiles : Withdraw(p)

User == \E p \in Profiles : PrepareStart(p) \/ RemoveStart(p) \/ Install(p)

Environment ==
    \/ Observe \/ Withhold \/ Rotate \/ Restart \/ Heal
    \/ \E id \in Ids : Age(id)

Next == CheckStart \/ Step \/ User \/ Environment

Spec == Init /\ [][Next]_vars

\* The ten-second timer starts Check again and again, also against operations
\* of the user (sync.Mutex hands over to a starved waiter); calls end.
Fairness == SF_vars(CheckStart) /\ WF_vars(Step) /\ WF_vars(Heal)

FairSpec == Spec /\ Fairness

-----------------------------------------------------------------------------
TypeOK ==
    /\ mem \in State /\ disk \in State
    /\ pc \in Calls /\ task \in Task
    /\ granted \in [Profiles -> Policies \cup {None}]
    /\ view \in {"old", "same", "other"}
    /\ life \in [Ids -> {"unused", "issued", "fresh", "due", "expired"}]
    /\ current \in Ids \cup {None}
    /\ key \in [Ids -> KeyStates]
    /\ of \in [Exports -> Ids \cup {None}] /\ files \in SUBSET Exports
    /\ installed \in [Profiles -> Exports \cup {None}]
    /\ stray \in BOOLEAN /\ faulty \in BOOLEAN

(* A private key outlives its identity: it is written before the request    *)
(* is saved and deleted before its job is taken out.  Whatever fails and     *)
(* wherever the process stops, it belongs to an identity or to a cleanup     *)
(* job of the state file, so that Cleanup will find it.                      *)
KeysAccounted == \A id \in Ids : key[id] # "none" => id \in Owned(disk)

(* Cleanup runs over jobs queued by renewals, stale certificates and         *)
(* removals, some of them rolled back.  It never takes the key of the        *)
(* active identity, in memory or in the file.                                *)
ActiveKeyKept ==
    \A s \in {mem, disk} :
        s.active # None => s.active \notin s.jobs /\ key[s.active] = "whole"

(* Check activates a new identity only after every selected network has a    *)
(* profile for it installed: the control never turns the device away from    *)
(* a network that still uses the old certificate.                            *)
ActivatedWhenInstalled ==
    [][current' # current /\ current' # None =>
          \A p \in Selected(disk) : IdOf(installed[p]) = current']_vars

(* The profile goes before the record of its selection: whatever is          *)
(* installed can still be removed by a profile identifier of the file.       *)
InstalledIsSelected ==
    \A p \in Profiles : installed[p] # None => p \in Selected(disk)

(* matchDarwinEAPRemoval: "The user may have installed any exported          *)
(* generation before reporting readback", so removal recognises whatever     *)
(* generation is installed.                                                  *)
InstalledIsRemovable == \A p \in Profiles : Recognised(p)

(* "EAP certificate expired; prepare the network again" (Check): ensured     *)
(* identities are usable ones.                                               *)
PrepareReplacesExpired ==
    [][pc = "identity" /\ pc' \in {"key", "stage"} => life[Target(mem')] # "expired"]_vars

\* What no retry gets past: a profile Remove does not recognise, a key file
\* that an interrupted write left behind.
Stuck == \/ \E p \in Profiles : ~Recognised(p)
         \/ \E id \in Ids : key[id] = "damaged"

\* The state file has no room for what a removal queues: save refuses it, memory
\* falls back to the file and the next Check is where the last one was.
Overfull == \E p \in Selected(mem) : Jobs(Detach(mem, p)) > QueueLimit

\* The jobs that removals leave, and the removal of what is withdrawn: a selection
\* that the control never again authorises unchanged.
JobsAreDone == []<>(Selected(mem) # {} \/ Jobs(disk) = 0 \/ Stuck)
WithdrawnIsRemoved ==
    \A p \in Profiles :
        <>[](~Unchanged(p, mem)) => []<>(p \notin Selected(disk) \/ Stuck \/ Overfull)

(* Once faults end, a withdrawn selection is removed, in spite of renewals,    *)
(* stale and replaced identities, failed saves and restarts; and what the last *)
(* removal queued, of keys, certificates and files, is done however often it   *)
(* was interrupted.  Only an overfull queue stands in the way (RemovalFits).   *)
RemovalIsCompleted == JobsAreDone /\ WithdrawnIsRemoved

(* "last network removal did not persist identity cleanup" is a failure to    *)
(* TestAdmissionCleanupPreservesSharedIdentityAndRetriesAfterRestart: whatever *)
(* was queued before, a removal finds room for the jobs it adds.               *)
RemovalFits == ~Overfull

(* recoverArtifacts ends every operation: exports that were written but not  *)
(* recorded, or recorded and replaced, are deleted.  Not behind a stray one:  *)
(* a stop between the creation of a file and its identity in the receipt      *)
(* leaves a file that removeEAPArtifact refuses for ever.                     *)
FilesAreCollected == []<>(files \subseteq Offered(mem) \/ stray)

(* An activation whose answer or whose record was lost is repeated until     *)
(* the file knows it, unless the certificate or the profile is gone.         *)
ActivationIsRecorded ==
    []<>(\/ current = None \/ current # disk.pending \/ disk.stale
         \/ life[current] = "expired" \/ Stuck
         \/ \E p \in Selected(disk) : IdOf(installed[p]) # current
                                     \/ ~Unchanged(p, disk))
=============================================================================
