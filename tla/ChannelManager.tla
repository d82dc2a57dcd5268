--------------------------- MODULE ChannelManager ---------------------------
(***************************************************************************)
(* Channel controls on Windows (channels*.go): policies of the control are  *)
(* recorded in a floor file and enforced on printers (access lists that     *)
(* outlive the service, with a journal of what to restore), USB volumes and *)
(* the clipboard (locks of the process), and removal of the service.        *)
(***************************************************************************)
EXTENDS Naturals

CONSTANTS
    Printers,
    Bases,        \* access lists without the restriction
    MaxRevision,  \* bound on published policies
    None

ASSUME ChannelAssumption == None \notin Bases \cup [base : Bases \cup {None}, deny : BOOLEAN]

VARIABLES
    pc, todo,     \* the step of Run, and what its reconciliation has left
    desired,      \* the revision answered by the control, 0 for none
    floor,        \* m.floor: the revision in force
    floorFile,    \* the revision of the floor file, 0 when it is missing
    marker,       \* the ownership file: "absent", "registered" or "accepted"
    accepted,     \* s.accepted
    journal, journalFile,   \* the original access list of restricted printers
    locks,        \* volumes and clipboard are held
    acl,          \* each queue's access list, or None
    ours,         \* the restriction on it was set by the service
    policy,       \* what the published revisions restrict
    removal,      \* the uninstall command: "none", "checked", "stopped", "done"
    faulty

memory == <<desired, floor, accepted, journal, locks>>
files == <<floorFile, marker, journalFile>>
queues == <<acl, ours>>
vars == <<pc, todo, memory, files, queues, policy, removal, faulty>>

-----------------------------------------------------------------------------
ACL == [base : Bases, deny : BOOLEAN]
Published == {r \in 1..MaxRevision : policy[r] # None}
Enabled(r) == r > 0 /\ policy[r] = "restrict"

Original(p) == [base |-> journal[p], deny |-> FALSE]
Expected(p) == [base |-> journal[p], deny |-> TRUE]
Present == {p \in Printers : acl[p] # None}
Journaled == {p \in Printers : journal[p] # None}
Denied(p) == acl[p] # None /\ acl[p].deny
Empty == [p \in Printers |-> None]

Go(step) == pc' = step /\ UNCHANGED todo

-----------------------------------------------------------------------------
(* Start: registerNativeChannelOwner, the journal and the floor.  A floor   *)
(* that is missing behind restrictions or an acceptance is not made anew.   *)

Restrictions == marker = "accepted" \/ \E p \in Printers : journalFile[p] # None

Start ==
    /\ pc = "stopped" /\ removal \in {"none", "checked"}
    /\ ~(floorFile = 0 /\ Restrictions)
    /\ Go("poll")
    /\ marker' = IF marker = "absent" THEN "registered" ELSE marker
    /\ accepted' = (marker = "accepted")
    /\ journal' = journalFile /\ floor' = floorFile
    /\ desired' = 0 /\ locks' = FALSE
    /\ UNCHANGED <<floorFile, journalFile, queues, policy, removal, faulty>>

Acceptable(r) == r >= floor

\* Run: every 20 seconds a policy is asked for; one that regressed is refused.
Poll ==
    /\ pc = "poll"
    /\ \/ /\ desired' \in {r \in Published : Acceptable(r)}
          /\ Go(IF accepted THEN "floor" ELSE "mark")
       \/ /\ faulty \/ \A r \in Published : ~Acceptable(r)
          /\ desired' = 0 /\ Go("reconcile")
    /\ UNCHANGED <<floor, accepted, journal, locks, files, queues, policy, removal, faulty>>

\* accept: the acceptance is recorded before the floor.
Mark ==
    /\ pc = "mark"
    /\ \/ marker' = "accepted" /\ accepted' = TRUE /\ Go("floor") /\ UNCHANGED desired
       \/ faulty /\ desired' = 0 /\ Go("reconcile") /\ UNCHANGED <<marker, accepted>>
    /\ UNCHANGED <<floor, journal, locks, floorFile, journalFile, queues, policy, removal, faulty>>

Accept ==
    /\ pc = "floor" /\ Go("reconcile")
    /\ \/ floorFile' = desired /\ floor' = desired /\ UNCHANGED desired
       \/ faulty /\ desired' = 0 /\ UNCHANGED <<floorFile, floor>>
    /\ UNCHANGED <<accepted, journal, locks, marker, journalFile, queues, policy, removal, faulty>>

\* Reconcile: volumes and clipboard (held by handles and a helper process),
\* then the printers one by one.
Reconcile ==
    /\ pc = "reconcile" /\ pc' = IF floor = 0 THEN "report" ELSE "printers"
    /\ \/ locks' = Enabled(floor)
       \/ faulty /\ UNCHANGED locks
    /\ todo' = IF Enabled(floor) THEN Present ELSE Journaled
    /\ UNCHANGED <<desired, floor, accepted, journal, files, queues, policy, removal, faulty>>

-----------------------------------------------------------------------------
(* restrictPrinter and restorePrinter.  Windows has no atomic comparison and *)
(* exchange of access lists: the comparison just before a write and the      *)
(* write are one step here.                                                  *)

Done(p) == todo' = todo \ {p}
Set(p, list) == acl' = [acl EXCEPT ![p] = list]
             /\ ours' = [ours EXCEPT ![p] = list.deny]

WriteUncompared(p, old, new) == Set(p, new)
Write(p, old, new) ==
    \/ acl[p] = old /\ Set(p, new)
    \/ (acl[p] # old \/ faulty) /\ UNCHANGED queues

\* A printer of the journal is restricted again; other changes are left alone.
Again(p) ==
    /\ pc = "printers" /\ Enabled(floor) /\ p \in todo /\ journal[p] # None
    /\ Write(p, Original(p), Expected(p)) /\ Done(p)
    /\ UNCHANGED <<pc, memory, files, policy, removal, faulty>>

\* A restriction that was there before is not journaled.
Journal(p) ==
    /\ pc = "printers" /\ Enabled(floor) /\ p \in todo /\ journal[p] = None
    /\ \/ /\ p \in Present /\ ~Denied(p)
          /\ journal' = [journal EXCEPT ![p] = acl[p].base] /\ journalFile' = journal'
          /\ Go("write")
       \/ /\ p \notin Present \/ Denied(p) \/ faulty
          /\ Done(p) /\ UNCHANGED <<journal, journalFile, pc>>
    /\ UNCHANGED <<desired, floor, accepted, locks, floorFile, marker, queues, policy, removal, faulty>>

Restrict(p) ==
    /\ pc = "write" /\ pc' = "printers" /\ p \in todo /\ journal[p] # None
    /\ Write(p, Original(p), Expected(p)) /\ Done(p)
    /\ UNCHANGED <<memory, files, policy, removal, faulty>>

ForgetFirst(p) ==
    /\ pc = "printers" /\ ~Enabled(floor) /\ p \in todo
    /\ journal' = [journal EXCEPT ![p] = None] /\ journalFile' = journal' /\ Done(p)
    /\ \/ acl[p] = Expected(p) /\ Set(p, Original(p))
       \/ faulty /\ UNCHANGED queues
       \/ acl[p] # Expected(p) /\ UNCHANGED queues
    /\ UNCHANGED <<pc, desired, floor, accepted, locks, floorFile, marker, policy, removal, faulty>>

\* Release: the original goes back where the restriction still is.
Restore(p) ==
    /\ pc = "printers" /\ ~Enabled(floor) /\ p \in todo
    /\ \/ acl[p] \in {None, Original(p)} /\ Go("forget") /\ UNCHANGED queues
       \/ acl[p] = Expected(p) /\ Set(p, Original(p)) /\ Go("forget")
       \/ /\ acl[p] \notin {None, Original(p), Expected(p)} \/ faulty
          /\ Done(p) /\ UNCHANGED <<pc, queues>>
    /\ UNCHANGED <<memory, files, policy, removal, faulty>>

ForgetInMemory(p) ==
    /\ pc = "forget" /\ p \in todo /\ acl[p] \in {None, Original(p)}
    /\ pc' = "printers" /\ Done(p) /\ journal' = [journal EXCEPT ![p] = None]
    /\ UNCHANGED <<desired, floor, accepted, locks, files, queues, policy, removal, faulty>>

\* The journal's entry goes last; a save that fails keeps it.
Forget(p) ==
    /\ pc = "forget" /\ p \in todo /\ acl[p] \in {None, Original(p)}
    /\ pc' = "printers" /\ Done(p)
    /\ \/ journal' = [journal EXCEPT ![p] = None] /\ journalFile' = journal'
       \/ faulty /\ UNCHANGED <<journal, journalFile>>
    /\ UNCHANGED <<desired, floor, accepted, locks, floorFile, marker, queues, policy, removal, faulty>>

\* The list changed between the two steps: the entry stays for the next round.
GiveUp ==
    /\ \/ pc = "forget" /\ \A p \in todo : acl[p] \notin {None, Original(p)}
       \/ pc = "write" /\ \A p \in todo : journal[p] = None
    /\ pc' = "printers" /\ todo' = {}
    /\ UNCHANGED <<memory, files, queues, policy, removal, faulty>>

-----------------------------------------------------------------------------
\* The receipt is sent, and the loop begins again.
Report ==
    /\ pc = "report" \/ (pc = "printers" /\ todo = {})
    /\ Go("poll")
    /\ UNCHANGED <<memory, files, queues, policy, removal, faulty>>

\* The service stops, orderly between two rounds or anywhere: the locks go with
\* the process.
Stop ==
    /\ pc # "stopped" /\ (pc = "poll" \/ faulty)
    /\ pc' = "stopped" /\ todo' = {} /\ locks' = FALSE
    /\ floor' = 0 /\ desired' = 0 /\ accepted' = FALSE /\ journal' = Empty
    /\ UNCHANGED <<files, queues, policy, removal, faulty>>

-----------------------------------------------------------------------------
(* uninstallService.                                                        *)

CheckFloor == floorFile = 0 => marker # "accepted"
CheckNativeChannelRemoval ==
    /\ floorFile = 0 => marker # "accepted"
    /\ ~Enabled(floorFile) /\ \A p \in Printers : journalFile[p] = None

Uninstall ==
    /\ \/ removal = "none" /\ CheckNativeChannelRemoval /\ removal' = "checked"
          /\ UNCHANGED marker
       \/ removal = "checked" /\ pc = "stopped" /\ removal' = "stopped" /\ UNCHANGED marker
       \/ /\ removal = "stopped" /\ pc = "stopped"
          /\ IF CheckNativeChannelRemoval THEN removal' = "done" /\ marker' = "absent"
             ELSE removal' = "none" /\ UNCHANGED marker
       \/ removal = "checked" /\ faulty /\ removal' = "none" /\ UNCHANGED marker
    /\ UNCHANGED <<pc, todo, memory, floorFile, journalFile, queues, policy, faulty>>

-----------------------------------------------------------------------------
(* The control, the administrator and the machine.                          *)

Publish ==
    /\ \E r \in 1..MaxRevision : \E kind \in {"restrict", "release"} :
          /\ policy[r] = None /\ \A q \in 1..(r - 1) : policy[q] # None
          /\ policy' = [policy EXCEPT ![r] = kind]
    /\ UNCHANGED <<pc, todo, memory, files, queues, removal, faulty>>

\* An administrator changes an access list; a queue is deleted, or added.  One
\* that was renamed comes back restricted under a name without an entry, as if
\* the administrator had restricted it.
Edit(p) ==
    /\ faulty
    /\ acl' \in [Printers -> ACL \cup {None}] /\ acl'[p] # acl[p]
    /\ \A q \in Printers \ {p} : acl'[q] = acl[q]
    /\ ours' = [ours EXCEPT ![p] = FALSE]
    /\ UNCHANGED <<pc, todo, memory, files, policy, removal, faulty>>

Heal ==
    /\ faulty /\ faulty' = FALSE
    /\ UNCHANGED <<pc, todo, memory, files, queues, policy, removal>>

Init ==
    /\ pc = "stopped" /\ todo = {} /\ desired = 0 /\ floor = 0 /\ floorFile = 0
    /\ marker = "absent" /\ accepted = FALSE
    /\ journal = Empty /\ journalFile = Empty /\ locks = FALSE
    /\ acl \in [Printers -> ACL] /\ ours = [p \in Printers |-> FALSE]
    /\ policy = [r \in 1..MaxRevision |-> None]
    /\ removal = "none" /\ faulty = TRUE

Round == \/ Poll \/ Mark \/ Accept \/ Reconcile \/ GiveUp \/ Report
         \/ \E p \in Printers : Again(p) \/ Journal(p) \/ Restrict(p) \/ Restore(p) \/ Forget(p)

Next == Start \/ Round \/ Stop \/ Uninstall \/ Publish \/ Heal
        \/ \E p \in Printers : Edit(p)

Spec == Init /\ [][Next]_vars

(* Windows starts the service with the machine, and its loop goes on.        *)
Fairness == WF_vars(Start) /\ WF_vars(Round) /\ WF_vars(Heal)

FairSpec == Spec /\ Fairness

-----------------------------------------------------------------------------
\* Queues, journals and their file hold access lists, the steps are those above.
Stages == {"none", "checked", "stopped", "done"}
Journals == [Printers -> Bases \cup {None}]
TypeOK ==
    /\ acl \in [Printers -> ACL \cup {None}] /\ ours \in [Printers -> BOOLEAN]
    /\ journal \in Journals /\ journalFile \in Journals
    /\ todo \in SUBSET Printers /\ removal \in Stages

(* A restricted printer's original list is in the journal file for as long   *)
(* as the restriction lasts, wherever the service stops.                     *)
OriginalKept ==
    \A p \in Printers : ours[p] => journalFile[p] = acl[p].base

(* The service changes a list only between the journaled original and its    *)
(* restriction: an administrator's change is never overwritten, and a         *)
(* restriction that was there before is never taken away.                    *)
PrintersAreGuarded ==
    [][\A p \in Printers : acl'[p] # acl[p] /\ (pc' # pc \/ todo' # todo) =>
          /\ journalFile[p] # None
          /\ {acl[p], acl'[p]} = {[base |-> journalFile[p], deny |-> FALSE],
                                  [base |-> journalFile[p], deny |-> TRUE]}]_vars

(* The service is removed only when nothing that outlives it is restricted.  *)
RemovalLeavesNothing ==
    removal = "done" => \A p \in Printers : ~ours[p]

\* The inductive invariant behind these: a running service has the journal of
\* the file, a restriction of its own is in it, and nothing runs while the
\* service is being removed.
ChannelInv ==
    /\ pc # "stopped" => journal = journalFile
    /\ \A p \in Printers : ours[p] =>
          /\ acl[p] = [base |-> journalFile[p], deny |-> TRUE]
          /\ journalFile[p] # None
    /\ removal \in {"stopped", "done"} => pc = "stopped"
    /\ removal = "done" => \A p \in Printers : journalFile[p] = None

(* While a release is in force and nobody edits, the printers get their      *)
(* lists back and the journal is emptied, however often a step failed or the  *)
(* service stopped in between; an edit made meanwhile stands and blocks it.   *)
Conflict == \E p \in Printers : /\ journalFile[p] # None /\ acl[p] # None
                                /\ acl[p].base # journalFile[p]
ReleaseCompletes ==
    <>[](pc # "stopped" /\ ~Enabled(floor)) => []<>(journalFile = Empty \/ Conflict)

(* "restore the protected state": a stopped service can start with the files *)
(* it wrote.                                                                 *)
Restartable == pc = "stopped" /\ removal # "done" => ~(floorFile = 0 /\ Restrictions)
=============================================================================
