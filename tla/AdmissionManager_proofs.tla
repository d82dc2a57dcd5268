---------------------- MODULE AdmissionManager_proofs ----------------------
(***************************************************************************)
(* The keys on the device, the identities they belong to and the profiles   *)
(* that are installed for them, for any number of identities, exports,      *)
(* profiles and queued jobs.                                               *)
(***************************************************************************)
EXTENDS AdmissionManager, TLAPS

(* Keys are looked for in the state in memory too, and the identity in       *)
(* progress was recorded before anything was made for it.                    *)
KeyInv ==
    /\ \A id \in Ids : key[id] # "none" => id \in Owned(mem)
    /\ \A id \in Ids : key[id] # "none" => id \in Owned(disk)
    /\ mem.pending # None => mem.pending \in Owned(disk)
    /\ pc \in {"key", "issue", "activate"} => mem.pending # None

IInv == TypeOK /\ KeyInv

\* What save does with a well-typed state.
LEMMA SaveOutcome ==
    ASSUME TypeOK, NEW s \in State, NEW step \in Calls, NEW t \in Task,
           SaveAs(s, step, t)
    PROVE  /\ mem' \in State /\ disk' \in State /\ pc' \in Calls /\ task' \in Task
           /\ granted' \in [Profiles -> Policies \cup {None}]
           /\ \/ mem' = s /\ disk' = s /\ pc' = step
              \/ mem' = disk /\ disk' = disk /\ pc' = "recover"
<1>1. "recover" \in Calls
  BY DEF Calls
<1>2. Unauthorised \in [Profiles -> Policies \cup {None}]
  BY DEF Unauthorised
<1> QED
  BY <1>1, <1>2 DEF SaveAs, TypeOK

\* The changes an operation makes to the state keep its type.
LEMMA StatesTyped ==
    ASSUME NEW s \in State
    PROVE  /\ \A ids \in SUBSET (Ids \cup {None}) : QueueIds(s, ids) \in State
           /\ \A es \in SUBSET Exports : QueueFiles(s, es) \in State
           /\ WithoutPending(s) \in State
           /\ Replaced(s) \in State
           /\ Activated(s) \in State
<1>1. \A r \in State, ids \in SUBSET (Ids \cup {None}) : QueueIds(r, ids) \in State
  BY DEF QueueIds, State
<1>2. \A es \in SUBSET Exports : QueueFiles(s, es) \in State
  BY DEF QueueFiles, State
<1>3. \A r \in State : WithoutPending(r) \in State
  BY DEF WithoutPending, State
<1>4. s.pending \in Ids \cup {None} /\ s.active \in Ids \cup {None}
  BY DEF State
<1>5. Replaced(s) \in State
  <2>1. QueueIds(s, {s.pending}) \in State
    BY <1>1, <1>4
  <2> QED
    BY <2>1, <1>3 DEF Replaced
<1>6. Activated(s) \in State
  <2>1. QueueIds(s, {s.active}) \in State
    BY <1>1, <1>4
  <2>2. WithoutPending(QueueIds(s, {s.active})) \in State
    BY <2>1, <1>3
  <2> QED
    BY <2>2, <1>4 DEF Activated, State
<1> QED
  BY <1>1, <1>2, <1>3, <1>5, <1>6

\* None of them forgets an identity.
LEMMA OwnersKept ==
    ASSUME NEW s \in State
    PROVE  /\ \A es : Owned(QueueFiles(s, es)) = Owned(s)
           /\ Owned(Replaced(s)) = Owned(s)
           /\ Replaced(s).pending # None => Replaced(s) = s
           /\ s.pending # None => Owned(Activated(s)) = Owned(s)
           /\ s.pending # None => s.pending \in Owned(s)
           /\ Activated(s).pending = None
<1>1. \A es : Owned(QueueFiles(s, es)) = Owned(s)
  BY DEF QueueFiles, Owned, State
<1>2. Owned(Replaced(s)) = Owned(s)
  BY DEF Replaced, WithoutPending, QueueIds, Owned, State
<1>3. Replaced(s).pending # None => Replaced(s) = s
  BY DEF Replaced, WithoutPending, QueueIds, State
<1>4. Owned(Activated(s)) = Owned(s) /\ Activated(s).pending = None
  BY DEF Activated, WithoutPending, QueueIds, Owned, State
<1> QED
  BY <1>1, <1>2, <1>3, <1>4 DEF Owned

\* Taking a selection out keeps the identities: with the last one they become
\* jobs.
LEMMA DetachKeeps ==
    ASSUME NEW s \in State, NEW p \in Profiles
    PROVE  /\ Detach(s, p) \in State
           /\ Owned(Detach(s, p)) = Owned(s)
           /\ Detach(s, p).pending # None => Detach(s, p).pending = s.pending
<1>1. NotSelected \in Selection
  BY DEF NotSelected, Selection
<1>2. s.sel[p] \in Selection
  BY DEF State
<1>3. (IF s.sel[p].file THEN {s.sel[p].export} ELSE {}) \in SUBSET Exports
  BY <1>2 DEF Selection
<1>4. Deselect(s, p) \in State
  <2>1. [s.sel EXCEPT ![p] = NotSelected] \in [Profiles -> Selection]
    BY <1>1 DEF State
  <2> QED
    BY <2>1, <1>3 DEF Deselect, State
<1>5. /\ Deselect(s, p).active = s.active /\ Deselect(s, p).pending = s.pending
      /\ Deselect(s, p).jobs = s.jobs
  BY DEF Deselect, State
<1>6. CASE Selected(Deselect(s, p)) # {}
  BY <1>4, <1>5, <1>6 DEF Detach, Owned
<1>7. CASE Selected(Deselect(s, p)) = {}
  <2> DEFINE q == QueueIds(Deselect(s, p), {s.active, s.pending})
  <2>1. s.active \in Ids \cup {None} /\ s.pending \in Ids \cup {None}
    BY DEF State
  <2>2. q \in State
    BY <2>1, <1>4, StatesTyped
  <2>3. q.jobs = s.jobs \cup ({s.active, s.pending} \ {None})
    BY <1>4, <1>5 DEF QueueIds, State
  <2>4. WithoutPending(q) \in State
    BY <2>2, StatesTyped
  <2>5. WithoutPending(q).jobs = q.jobs /\ WithoutPending(q).pending = None
    BY <2>2 DEF WithoutPending, State
  <2>6. Detach(s, p) = [WithoutPending(q) EXCEPT !.active = None]
    BY <1>7 DEF Detach
  <2>7. Detach(s, p) \in State
    BY <2>4, <2>6 DEF State
  <2>8. /\ Detach(s, p).jobs = q.jobs /\ Detach(s, p).pending = None
        /\ Detach(s, p).active = None
    BY <2>4, <2>5, <2>6 DEF State
  <2> QED
    BY <2>3, <2>7, <2>8 DEF Owned
<1> QED
  BY <1>6, <1>7

\* What a step that saves s leaves of the invariant on mem, disk and key.
LEMMA SavedKeys ==
    ASSUME IInv, NEW s \in State, NEW step \in Calls, NEW t \in Task,
           SaveAs(s, step, t),
           \A id \in Ids : key'[id] # "none" => id \in Owned(s),
           \A id \in Ids : key'[id] # "none" => id \in Owned(disk),
           step \in {"key", "issue", "activate"} => s.pending # None
    PROVE  KeyInv'
<1>1. \/ mem' = s /\ disk' = s /\ pc' = step
      \/ mem' = disk /\ disk' = disk /\ pc' = "recover"
  BY SaveOutcome DEF IInv
<1>2. s.pending # None => s.pending \in Owned(s)
  BY DEF Owned
<1>3. disk.pending # None => disk.pending \in Owned(disk)
  BY DEF Owned
<1>4. Owned(mem)' = Owned(mem') /\ Owned(disk)' = Owned(disk')
  BY DEF Owned
<1>5. CASE mem' = s /\ disk' = s /\ pc' = step
  BY <1>2, <1>4, <1>5 DEF KeyInv
<1>6. CASE mem' = disk /\ disk' = disk /\ pc' = "recover"
  BY <1>3, <1>4, <1>6 DEF KeyInv
<1> QED
  BY <1>1, <1>5, <1>6

LEMMA InitIInv == Init => IInv
<1> SUFFICES ASSUME Init PROVE IInv
  OBVIOUS
<1>1. NotSelected \in Selection
  BY DEF NotSelected, Selection
<1>2. EmptyState \in State
  BY <1>1 DEF EmptyState, State
<1>3. TypeOK
  BY <1>2 DEF Init, TypeOK, Calls, Task, NoTask, Unauthorised, KeyStates
<1>4. KeyInv
  BY DEF Init, KeyInv, EmptyState
<1> QED
  BY <1>3, <1>4 DEF IInv

\* A step that leaves the persisted state, the keys and the calls about an
\* identity alone.
LEMMA QuietStep ==
    ASSUME KeyInv, UNCHANGED <<mem, disk, key>>,
           pc' \in {"key", "issue", "activate"} => mem.pending # None
    PROVE  KeyInv'
  BY DEF KeyInv, Owned

LEMMA NoTaskTyped == NoTask \in Task /\ [NoTask EXCEPT !.op = "check"] \in Task
  BY DEF NoTask, Task

\* RemoveProfile, called by Remove and by Check.
LEMMA RemovalStep ==
    ASSUME IInv, NEW p \in Profiles, NEW next \in {"cleanup", "withdraw"},
           RemoveProfile(p, next), UNCHANGED <<life, faulty>>
    PROVE  IInv'
<1>1. CASE Recognised(p) /\ installed' = [installed EXCEPT ![p] = None]
           /\ Save(Detach(mem, p), next) /\ UNCHANGED <<view, current, key, of, files, stray>>
  <2>1. mem \in State /\ task \in Task /\ next \in Calls
    BY DEF IInv, TypeOK, Calls
  <2>2. Detach(mem, p) \in State /\ Owned(Detach(mem, p)) = Owned(mem)
    BY <2>1, DetachKeeps
  <2>3. SaveAs(Detach(mem, p), next, task)
    BY <1>1 DEF Save
  <2>4. KeyInv'
    BY <1>1, <2>1, <2>2, <2>3, SavedKeys DEF IInv, KeyInv
  <2>5. TypeOK'
    BY <1>1, <2>1, <2>2, <2>3, SaveOutcome DEF IInv, TypeOK
  <2> QED
    BY <2>4, <2>5 DEF IInv
<1>2. CASE Return /\ UNCHANGED <<state, policy, system, current>>
  <2>1. KeyInv'
    BY <1>2, QuietStep DEF IInv, Return, Go, state, system
  <2>2. TypeOK'
    BY <1>2 DEF IInv, TypeOK, Return, Go, Calls, state, policy, system
  <2> QED
    BY <2>1, <2>2 DEF IInv
<1> QED
  BY <1>1, <1>2 DEF RemoveProfile

\* What is due to the identity in progress.
LEMMA IdentityStep == IInv /\ Identity => IInv'
<1> SUFFICES ASSUME IInv, Identity PROVE IInv'
  OBVIOUS
<1> DEFINE s == Replaced(mem)
<1>1. mem \in State /\ task \in Task
  BY DEF IInv, TypeOK
<1>2. /\ s \in State /\ Owned(s) = Owned(mem)
      /\ s.pending # None => s = mem
  BY <1>1, StatesTyped, OwnersKept
<1>3. Staging \in Task
  BY <1>1 DEF Staging, Task, Selected
<1>4. life' \in [Ids -> {"unused", "issued", "fresh", "due", "expired"}]
  BY DEF Identity, IInv, TypeOK
<1>5. CASE /\ s.pending = None
           /\ mem' = s /\ (StartStaging \/ Return) /\ UNCHANGED <<disk, granted>>
  <2>1. pc' \in {"stage", "recover"} /\ task' \in Task
    BY <1>1, <1>3, <1>5 DEF StartStaging, Return, Go
  <2>2. KeyInv'
    <3>1. Owned(mem)' = Owned(mem) /\ Owned(disk)' = Owned(disk)
      BY <1>2, <1>5 DEF Owned
    <3>2. key' = key
      BY DEF Identity, system
    <3> QED
      BY <1>5, <2>1, <3>1, <3>2 DEF IInv, KeyInv
  <2>3. TypeOK'
    BY <1>2, <1>4, <1>5, <2>1 DEF IInv, TypeOK, Calls, Identity, system
  <2> QED
    BY <2>2, <2>3 DEF IInv
<1>6. ASSUME NEW id \in Unused, Save([s EXCEPT !.pending = id], "key"), s.pending = None
      PROVE  IInv'
  <2> DEFINE r == [s EXCEPT !.pending = id]
  <2>1. id \in Ids /\ id # None
    BY AdmissionAssumption DEF Unused
  <2>2. r \in State /\ r.pending = id
    BY <1>2, <2>1 DEF State
  <2>3. Owned(mem) \subseteq Owned(r)
    BY <1>2, <1>6, <2>1 DEF Owned, State
  <2>4. SaveAs(r, "key", task) /\ "key" \in Calls
    BY <1>6 DEF Save, Calls
  <2>5. key' = key
    BY DEF Identity, system
  <2>6. KeyInv'
    <3>1. \A i \in Ids : key'[i] # "none" => i \in Owned(r)
      BY <2>3, <2>5 DEF IInv, KeyInv
    <3>2. \A i \in Ids : key'[i] # "none" => i \in Owned(disk)
      BY <2>5 DEF IInv, KeyInv
    <3> HIDE DEF r
    <3> QED
      BY <1>1, <2>1, <2>2, <2>4, <3>1, <3>2, SavedKeys
  <2>7. TypeOK'
    <3>1. /\ mem' \in State /\ disk' \in State /\ pc' \in Calls /\ task' \in Task
          /\ granted' \in [Profiles -> Policies \cup {None}]
      <4> HIDE DEF r
      <4> QED
        BY <1>1, <2>2, <2>4, SaveOutcome DEF IInv
    <3> QED
      BY <3>1, <1>4 DEF IInv, TypeOK, Identity, system
  <2> QED
    BY <2>6, <2>7 DEF IInv
<1>7. CASE /\ s.pending # None
           /\ mem' = s /\ Go("key") /\ UNCHANGED <<disk, granted>>
  <2>1. mem' = mem /\ pc' = "key" /\ task' = task
    BY <1>2, <1>7 DEF Go
  <2>2. KeyInv'
    BY <1>2, <1>7, <2>1, QuietStep DEF IInv, Identity, system
  <2>3. TypeOK'
    BY <1>4, <1>7, <2>1 DEF IInv, TypeOK, Calls, Identity, system
  <2> QED
    BY <2>2, <2>3 DEF IInv
<1> QED
  BY <1>5, <1>6, <1>7 DEF Identity

\* What an interrupted CreateCSR leaves.
LEMMA WrittenKeys ==
    ASSUME TypeOK, NEW id \in Ids, NEW k \in Written(key[id]), key' = [key EXCEPT ![id] = k]
    PROVE  /\ key' \in [Ids -> KeyStates]
           /\ \A i \in Ids : key[i] = "whole" => key'[i] = "whole"
           /\ \A i \in Ids : i # id => key'[i] = key[i]
<1>1. k \in KeyStates /\ (key[id] = "whole" => k = "whole")
  BY DEF TypeOK, Written, KeyStates
<1> QED
  BY <1>1 DEF TypeOK

LEMMA KeyStep == IInv /\ Key => IInv'
<1> SUFFICES ASSUME IInv, Key PROVE IInv'
  OBVIOUS
<1>1. /\ mem \in State /\ task \in Task /\ key \in [Ids -> KeyStates]
      /\ mem.pending \in Ids /\ mem.pending \in Owned(disk) /\ mem.pending \in Owned(mem)
      /\ "issue" \in Calls
  BY DEF IInv, TypeOK, KeyInv, Key, State, Owned, Calls
<1>2. CASE (Go("issue") \/ Return) /\ UNCHANGED <<state, granted, key>>
  <2>1. KeyInv'
    BY <1>1, <1>2, QuietStep, AdmissionAssumption DEF IInv, Go, Return, state
  <2>2. TypeOK'
    BY <1>2 DEF IInv, TypeOK, Key, Go, Return, Calls, state
  <2> QED
    BY <2>1, <2>2 DEF IInv
<1>3. CASE /\ key' = [key EXCEPT ![mem.pending] = "whole"]
           /\ Save([mem EXCEPT !.csr = TRUE], "issue")
  <2> DEFINE r == [mem EXCEPT !.csr = TRUE]
  <2>1. r \in State /\ r.pending = mem.pending /\ Owned(r) = Owned(mem)
    BY <1>1 DEF State, Owned
  <2>2. SaveAs(r, "issue", task)
    BY <1>3 DEF Save
  <2>3. \A i \in Ids : key'[i] # "none" => i \in Owned(r) /\ i \in Owned(disk)
    BY <1>1, <1>3, <2>1 DEF IInv, KeyInv
  <2>4. mem.pending # None
    BY <1>1, AdmissionAssumption
  <2> HIDE DEF r
  <2>5. KeyInv'
    BY <1>1, <2>1, <2>2, <2>3, <2>4, SavedKeys
  <2>6. TypeOK'
    <3>1. /\ mem' \in State /\ disk' \in State /\ pc' \in Calls /\ task' \in Task
          /\ granted' \in [Profiles -> Policies \cup {None}]
      BY <1>1, <2>1, <2>2, SaveOutcome DEF IInv
    <3> QED
      BY <1>1, <1>3, <3>1 DEF IInv, TypeOK, Key, KeyStates
  <2> QED
    BY <2>5, <2>6 DEF IInv
<1>4. CASE /\ \E k \in Written(key[mem.pending]) : key' = [key EXCEPT ![mem.pending] = k]
           /\ Return /\ UNCHANGED <<state, granted>>
  <2>1. /\ key' \in [Ids -> KeyStates]
        /\ \A i \in Ids : i # mem.pending => key'[i] = key[i]
    BY <1>1, <1>4, WrittenKeys DEF IInv
  <2>2. KeyInv'
    BY <1>1, <1>4, <2>1 DEF IInv, KeyInv, Owned, Return, Go, state
  <2>3. TypeOK'
    BY <1>1, <1>4, <2>1 DEF IInv, TypeOK, Key, Return, Go, Calls, state
  <2> QED
    BY <2>2, <2>3 DEF IInv
<1> QED
  BY <1>2, <1>3, <1>4 DEF Key

LEMMA IssueStep == IInv /\ Issue => IInv'
<1> SUFFICES ASSUME IInv, Issue PROVE IInv'
  OBVIOUS
<1>1. /\ mem \in State /\ task \in Task /\ Staging \in Task /\ mem.pending \in Ids
      /\ {"stage", "recover"} \subseteq Calls
  BY DEF IInv, TypeOK, KeyInv, Issue, State, Staging, Task, Selected, Calls
<1>2. life' \in [Ids -> {"unused", "issued", "fresh", "due", "expired"}]
  BY <1>1 DEF Issue, Certified, IInv, TypeOK
<1>3. ASSUME NEW s \in State, Owned(s) = Owned(mem),
             NEW step \in {"stage", "recover"}, NEW t \in Task, SaveAs(s, step, t)
      PROVE  IInv'
  <2>1. KeyInv'
    BY <1>1, <1>3, SavedKeys DEF IInv, KeyInv, Issue, system
  <2>2. TypeOK'
    BY <1>1, <1>2, <1>3, SaveOutcome DEF IInv, TypeOK, Issue, system
  <2> QED
    BY <2>1, <2>2 DEF IInv
<1>4. CASE (StartStaging \/ Return) /\ UNCHANGED <<state, granted>>
  <2>1. KeyInv'
    BY <1>4, QuietStep DEF IInv, Issue, StartStaging, Return, Go, state, system
  <2>2. TypeOK'
    BY <1>1, <1>2, <1>4 DEF IInv, TypeOK, Issue, StartStaging, Return, Go, state, system
  <2> QED
    BY <2>1, <2>2 DEF IInv
<1>5. [mem EXCEPT !.cert = TRUE] \in State /\ [mem EXCEPT !.stale = TRUE] \in State
  BY <1>1 DEF State
<1>6. /\ Owned([mem EXCEPT !.cert = TRUE]) = Owned(mem)
      /\ Owned([mem EXCEPT !.stale = TRUE]) = Owned(mem)
  BY <1>1 DEF State, Owned
<1>7. CASE SaveAs([mem EXCEPT !.cert = TRUE], "stage", Staging)
  BY <1>1, <1>3, <1>5, <1>6, <1>7
<1>8. CASE Save([mem EXCEPT !.stale = TRUE], "recover")
  BY <1>1, <1>3, <1>5, <1>6, <1>8 DEF Save
<1> QED
  BY <1>4, <1>7, <1>8 DEF Issue

\* What an export and a readback save.
Staged(p, e) ==
    QueueFiles([mem EXCEPT !.sel[p] = [mem.sel[p] EXCEPT !.export = e, !.file = TRUE,
                                                         !.prior = Remembered(p)]],
               IF mem.sel[p].file THEN {mem.sel[p].export} ELSE {})

AfterReadback ==
    QueueFiles([mem EXCEPT !.sel = [p \in Profiles |->
                                       [mem.sel[p] EXCEPT !.prior = {}, !.file = FALSE]]],
               {mem.sel[p].export : p \in {q \in Selected(mem) : mem.sel[q].file}})
AfterReadbackCall == IF mem.pending # None THEN "activate" ELSE "cleanup"

\* An export is recorded for its selection, and nothing else changes.
LEMMA StagedTyped ==
    ASSUME TypeOK, NEW p \in task.todo, NEW e \in Exports
    PROVE  /\ p \in Profiles /\ [task EXCEPT !.todo = @ \ {p}] \in Task
           /\ Staged(p, e) \in State /\ Owned(Staged(p, e)) = Owned(mem)
           /\ Staged(p, e).active = mem.active /\ Staged(p, e).pending = mem.pending
           /\ Staged(p, e).jobs = mem.jobs /\ Staged(p, e).csr = mem.csr
           /\ Staged(p, e).cert = mem.cert /\ Staged(p, e).stale = mem.stale
           /\ \A q \in Profiles : /\ Staged(p, e).sel[q].policy = mem.sel[q].policy
                                  /\ q # p => Staged(p, e).sel[q] = mem.sel[q]
<1> DEFINE new == [mem.sel[p] EXCEPT !.export = e, !.file = TRUE, !.prior = Remembered(p)]
           old == IF mem.sel[p].file THEN {mem.sel[p].export} ELSE {}
           r == [mem EXCEPT !.sel[p] = new]
<1>1. /\ mem \in State /\ p \in Profiles /\ mem.sel[p] \in Selection
      /\ [task EXCEPT !.todo = @ \ {p}] \in Task
  BY DEF TypeOK, Task, State
<1>2. Remembered(p) \in SUBSET Exports
  BY <1>1 DEF Remembered, Selection
<1>3. new \in Selection /\ new.policy = mem.sel[p].policy
  <2>1. e # None
    BY AdmissionAssumption
  <2> QED
    BY <1>1, <1>2, <2>1 DEF Selection
<1>4. old \in SUBSET Exports
  BY <1>1 DEF Selection
<1>5. /\ r \in State /\ Owned(r) = Owned(mem)
      /\ r.active = mem.active /\ r.pending = mem.pending /\ r.jobs = mem.jobs
      /\ r.csr = mem.csr /\ r.cert = mem.cert /\ r.stale = mem.stale
      /\ \A q \in Profiles : /\ r.sel[q].policy = mem.sel[q].policy
                             /\ q # p => r.sel[q] = mem.sel[q]
  <2> HIDE DEF new
  <2> QED
    BY <1>1, <1>3 DEF State, Owned
<1>6. Staged(p, e) = QueueFiles(r, old)
  BY DEF Staged
<1> HIDE DEF r, old
<1>7. QueueFiles(r, old) \in State /\ Owned(QueueFiles(r, old)) = Owned(r)
  BY <1>4, <1>5, StatesTyped, OwnersKept
<1>8. /\ QueueFiles(r, old).active = r.active /\ QueueFiles(r, old).pending = r.pending
      /\ QueueFiles(r, old).jobs = r.jobs /\ QueueFiles(r, old).csr = r.csr
      /\ QueueFiles(r, old).cert = r.cert /\ QueueFiles(r, old).stale = r.stale
      /\ QueueFiles(r, old).sel = r.sel
  BY <1>5 DEF QueueFiles, State
<1> QED
  BY <1>1, <1>5, <1>6, <1>7, <1>8

\* A readback takes the exports off the selections, and nothing else changes.
LEMMA AfterReadbackTyped ==
    ASSUME TypeOK
    PROVE  /\ AfterReadback \in State /\ Owned(AfterReadback) = Owned(mem)
           /\ AfterReadback.active = mem.active /\ AfterReadback.pending = mem.pending
           /\ AfterReadback.jobs = mem.jobs /\ AfterReadback.csr = mem.csr
           /\ AfterReadback.cert = mem.cert /\ AfterReadback.stale = mem.stale
           /\ \A p \in Profiles : /\ AfterReadback.sel[p].policy = mem.sel[p].policy
                                  /\ AfterReadback.sel[p].export = mem.sel[p].export
                                  /\ AfterReadback.sel[p].prior = {}
<1> DEFINE cleared == [p \in Profiles |-> [mem.sel[p] EXCEPT !.prior = {}, !.file = FALSE]]
           old == {mem.sel[p].export : p \in {q \in Selected(mem) : mem.sel[q].file}}
           r == [mem EXCEPT !.sel = cleared]
<1>1. mem \in State /\ \A p \in Profiles : mem.sel[p] \in Selection
  BY DEF TypeOK, State
<1>2. old \in SUBSET Exports
  BY <1>1 DEF Selected, Selection
<1>3. /\ cleared \in [Profiles -> Selection]
      /\ \A p \in Profiles : /\ cleared[p].policy = mem.sel[p].policy
                             /\ cleared[p].export = mem.sel[p].export /\ cleared[p].prior = {}
  BY <1>1 DEF Selection
<1>4. /\ r \in State /\ Owned(r) = Owned(mem) /\ r.sel = cleared
      /\ r.active = mem.active /\ r.pending = mem.pending /\ r.jobs = mem.jobs
      /\ r.csr = mem.csr /\ r.cert = mem.cert /\ r.stale = mem.stale
  <2> HIDE DEF cleared
  <2> QED
    BY <1>1, <1>3 DEF State, Owned
<1>5. AfterReadback = QueueFiles(r, old)
  BY DEF AfterReadback
<1> HIDE DEF r, old
<1>6. QueueFiles(r, old) \in State /\ Owned(QueueFiles(r, old)) = Owned(r)
  BY <1>2, <1>4, StatesTyped, OwnersKept
<1>7. /\ QueueFiles(r, old).active = r.active /\ QueueFiles(r, old).pending = r.pending
      /\ QueueFiles(r, old).jobs = r.jobs /\ QueueFiles(r, old).csr = r.csr
      /\ QueueFiles(r, old).cert = r.cert /\ QueueFiles(r, old).stale = r.stale
      /\ QueueFiles(r, old).sel = r.sel
  BY <1>4 DEF QueueFiles, State
<1> HIDE DEF cleared
<1>8. AfterReadback.sel = cleared
  BY <1>4, <1>5, <1>7
<1>9. \A p \in Profiles : /\ AfterReadback.sel[p].policy = mem.sel[p].policy
                          /\ AfterReadback.sel[p].export = mem.sel[p].export
                          /\ AfterReadback.sel[p].prior = {}
  BY <1>3, <1>8
<1> QED
  BY <1>4, <1>5, <1>6, <1>7, <1>9

\* The forms of the two steps.
LEMMA StageForms ==
    ASSUME StageStep
    PROVE  \/ \E p \in task.todo, e \in Exports :
                 /\ Unchanged(p, mem) /\ of[e] = None /\ Export(e)
                 /\ SaveAs(Staged(p, e), "stage", [task EXCEPT !.todo = @ \ {p}])
           \/ \E p \in task.todo : /\ task' = [task EXCEPT !.todo = @ \ {p}] /\ pc' = pc
                                   /\ UNCHANGED <<state, granted, of, files>>
           \/ /\ task' = task /\ pc' \in {"readback", "recover"}
              /\ UNCHANGED <<state, granted, of, files>>
BY DEF StageStep, Staged, Return, Go

LEMMA ReadbackForms ==
    ASSUME Readback
    PROVE  \/ /\ Stageable(mem) /\ \A p \in Selected(mem) : ReadBack(p)
              /\ \/ /\ AfterReadback = mem /\ pc' = AfterReadbackCall /\ task' = task
                    /\ UNCHANGED <<state, granted>>
                 \/ SaveAs(AfterReadback, AfterReadbackCall, task)
           \/ pc' = "recover" /\ task' = task /\ UNCHANGED <<state, granted>>
BY DEF Readback, AfterReadback, AfterReadbackCall, Save, Return, Go

LEMMA StageStepIInv == IInv /\ StageStep => IInv'
<1> SUFFICES ASSUME IInv, StageStep PROVE IInv'
  OBVIOUS
<1>1. /\ mem \in State /\ task \in Task
      /\ {"stage", "readback", "recover"} \subseteq Calls
  BY DEF IInv, TypeOK, Calls
<1>2. ASSUME NEW p \in task.todo, NEW e \in Exports, Export(e),
             SaveAs(Staged(p, e), "stage", [task EXCEPT !.todo = @ \ {p}])
      PROVE  IInv'
  <2>1. /\ [task EXCEPT !.todo = @ \ {p}] \in Task
        /\ Staged(p, e) \in State /\ Owned(Staged(p, e)) = Owned(mem)
    BY StagedTyped DEF IInv
  <2>2. Target(mem) \in Ids \cup {None}
    BY <1>1 DEF Target, State
  <2>3. KeyInv'
    BY <1>1, <1>2, <2>1, SavedKeys DEF IInv, KeyInv, StageStep
  <2>4. TypeOK'
    <3>1. /\ mem' \in State /\ disk' \in State /\ pc' \in Calls /\ task' \in Task
          /\ granted' \in [Profiles -> Policies \cup {None}]
      BY <1>1, <1>2, <2>1, SaveOutcome DEF IInv
    <3> QED
      BY <1>2, <2>2, <3>1 DEF IInv, TypeOK, StageStep, Export
  <2> QED
    BY <2>3, <2>4 DEF IInv
<1>3. CASE /\ UNCHANGED <<state, granted, of, files>>
           /\ task' \in Task /\ pc' \in {"stage", "readback", "recover"}
  <2>1. KeyInv'
    BY <1>3, QuietStep DEF IInv, StageStep, state
  <2>2. TypeOK'
    BY <1>1, <1>3 DEF IInv, TypeOK, StageStep, state
  <2> QED
    BY <2>1, <2>2 DEF IInv
<1>4. ASSUME NEW p \in task.todo, task' = [task EXCEPT !.todo = @ \ {p}], pc' = pc,
             UNCHANGED <<state, granted, of, files>>
      PROVE  IInv'
  BY <1>1, <1>3, <1>4 DEF Task, StageStep
<1> QED
  BY <1>1, <1>2, <1>3, <1>4, StageForms

LEMMA ReadbackStep == IInv /\ Readback => IInv'
<1> SUFFICES ASSUME IInv, Readback PROVE IInv'
  OBVIOUS
<1>1. mem \in State /\ task \in Task /\ AfterReadbackCall \in Calls /\ "recover" \in Calls
  BY DEF IInv, TypeOK, Calls, AfterReadbackCall
<1>2. /\ AfterReadback \in State /\ Owned(AfterReadback) = Owned(mem)
      /\ AfterReadback.pending = mem.pending
  BY AfterReadbackTyped DEF IInv
<1>3. AfterReadbackCall \in {"key", "issue", "activate"} => mem.pending # None
  BY DEF AfterReadbackCall
<1>4. CASE SaveAs(AfterReadback, AfterReadbackCall, task)
  <2>1. KeyInv'
    BY <1>1, <1>2, <1>3, <1>4, SavedKeys DEF IInv, KeyInv, Readback, system
  <2>2. TypeOK'
    BY <1>1, <1>2, <1>4, SaveOutcome DEF IInv, TypeOK, Readback, system
  <2> QED
    BY <2>1, <2>2 DEF IInv
<1>5. CASE /\ pc' \in {AfterReadbackCall, "recover"} /\ task' = task
           /\ UNCHANGED <<state, granted>>
  <2>1. KeyInv'
    BY <1>3, <1>5, QuietStep DEF IInv, Readback, state, system
  <2>2. TypeOK'
    BY <1>1, <1>5 DEF IInv, TypeOK, Readback, state, system
  <2> QED
    BY <2>1, <2>2 DEF IInv
<1> QED
  BY <1>4, <1>5, ReadbackForms

LEMMA ActivateStep == IInv /\ Activate => IInv'
<1> SUFFICES ASSUME IInv, Activate PROVE IInv'
  OBVIOUS
<1>1. /\ mem \in State /\ task \in Task /\ {"cleanup", "recover"} \subseteq Calls
      /\ mem.pending \in Ids
  BY DEF IInv, TypeOK, Calls, KeyInv, Activate, State
<1>2. mem.pending # None
  BY <1>1, AdmissionAssumption
<1>3. key' = key /\ current' \in Ids \cup {None} /\ view' \in {"old", "same", "other"}
  BY <1>1 DEF Activate, ControlActivates, system, IInv, TypeOK
<1>4. ASSUME NEW s \in State, Owned(s) = Owned(mem),
             NEW step \in {"cleanup", "recover"}, Save(s, step)
      PROVE  IInv'
  <2>1. SaveAs(s, step, task)
    BY <1>4 DEF Save
  <2>2. KeyInv'
    BY <1>1, <1>3, <1>4, <2>1, SavedKeys DEF IInv, KeyInv
  <2>3. TypeOK'
    BY <1>1, <1>3, <1>4, <2>1, SaveOutcome DEF IInv, TypeOK, Activate, system
  <2> QED
    BY <2>2, <2>3 DEF IInv
<1>5. CASE Save(Activated(mem), "cleanup")
  BY <1>1, <1>2, <1>4, <1>5, StatesTyped, OwnersKept
<1>6. CASE Save([mem EXCEPT !.stale = TRUE], "recover")
  <2>1. /\ [mem EXCEPT !.stale = TRUE] \in State
        /\ Owned([mem EXCEPT !.stale = TRUE]) = Owned(mem)
    BY <1>1 DEF State, Owned
  <2> QED
    BY <1>4, <1>6, <2>1
<1>7. CASE Return /\ UNCHANGED <<state, granted, view>>
  <2>1. KeyInv'
    BY <1>3, <1>7, QuietStep DEF IInv, Return, Go, state
  <2>2. TypeOK'
    BY <1>1, <1>3, <1>7 DEF IInv, TypeOK, Activate, Return, Go, state, system
  <2> QED
    BY <2>1, <2>2 DEF IInv
<1> QED
  BY <1>5, <1>6, <1>7 DEF Activate

LEMMA CleanupStep == IInv /\ Cleanup => IInv'
<1> SUFFICES ASSUME IInv, Cleanup PROVE IInv'
  OBVIOUS
<1>1. /\ mem \in State /\ task \in Task /\ {"cleanup", "recover"} \subseteq Calls
      /\ key \in [Ids -> KeyStates]
  BY DEF IInv, TypeOK, Calls
<1>2. ASSUME NEW id \in mem.jobs, key' = [key EXCEPT ![id] = "none"],
             Save([mem EXCEPT !.jobs = @ \ {id}], "cleanup"), files' = files
      PROVE  IInv'
  <2> DEFINE s == [mem EXCEPT !.jobs = @ \ {id}]
  <2>1. s \in State /\ SaveAs(s, "cleanup", task) /\ id \in Ids
    BY <1>1, <1>2 DEF State, Save
  <2>2. Owned(mem) \ {id} \subseteq Owned(s)
    BY <1>1 DEF State, Owned
  <2>3. \A i \in Ids : key'[i] # "none" => i \in Owned(s) /\ i \in Owned(disk)
    BY <1>1, <1>2, <2>1, <2>2 DEF IInv, KeyInv
  <2> HIDE DEF s
  <2>4. KeyInv'
    BY <1>1, <2>1, <2>3, SavedKeys
  <2>5. TypeOK'
    <3>1. /\ mem' \in State /\ disk' \in State /\ pc' \in Calls /\ task' \in Task
          /\ granted' \in [Profiles -> Policies \cup {None}]
      BY <1>1, <2>1, SaveOutcome DEF IInv
    <3> QED
      BY <1>1, <1>2, <3>1 DEF IInv, TypeOK, Cleanup, KeyStates
  <2> QED
    BY <2>4, <2>5 DEF IInv
<1>3. CASE /\ RemoveArtifacts(mem.files) /\ key' = key
           /\ Save([mem EXCEPT !.shared = FALSE, !.files = {}], "cleanup")
  <2> DEFINE s == [mem EXCEPT !.shared = FALSE, !.files = {}]
  <2>1. s \in State /\ SaveAs(s, "cleanup", task) /\ Owned(s) = Owned(mem)
    BY <1>1, <1>3 DEF State, Save, Owned
  <2> HIDE DEF s
  <2>2. KeyInv'
    BY <1>1, <1>3, <2>1, SavedKeys DEF IInv, KeyInv
  <2>3. TypeOK'
    BY <1>1, <1>3, <2>1, SaveOutcome DEF IInv, TypeOK, Cleanup, RemoveArtifacts
  <2> QED
    BY <2>2, <2>3 DEF IInv
<1>4. CASE Return /\ UNCHANGED <<state, granted, key, files>>
  <2>1. KeyInv'
    BY <1>4, QuietStep DEF IInv, Return, Go, state
  <2>2. TypeOK'
    BY <1>1, <1>4 DEF IInv, TypeOK, Cleanup, Return, Go, state
  <2> QED
    BY <2>1, <2>2 DEF IInv
<1> QED
  BY <1>2, <1>3, <1>4 DEF Cleanup

\* Prepare records what the profile is authorised for, and nothing else changes.
LEMMA PreparedTyped ==
    ASSUME TypeOK, NEW p \in Profiles
    PROVE  LET s == [mem EXCEPT !.sel[p].policy = granted[p]]
           IN  /\ s \in State /\ Owned(s) = Owned(mem)
               /\ s.sel[p].policy = granted[p] /\ s.sel[p].file = mem.sel[p].file
               /\ \A q \in Profiles \ {p} : s.sel[q] = mem.sel[q]
<1> DEFINE new == [mem.sel[p] EXCEPT !.policy = granted[p]]
           s == [mem EXCEPT !.sel[p].policy = granted[p]]
<1>1. mem \in State /\ mem.sel[p] \in Selection /\ granted[p] \in Policies \cup {None}
  BY DEF TypeOK, State
<1>2. new \in Selection /\ new.policy = granted[p] /\ new.file = mem.sel[p].file
  BY <1>1 DEF Selection
<1>3. s = [mem EXCEPT !.sel = [@ EXCEPT ![p] = new]]
  BY <1>1 DEF State
<1> QED
  <2> HIDE DEF new
  <2> QED
    BY <1>1, <1>2, <1>3 DEF State, Owned

LEMMA RecordedTyped ==
    ASSUME NEW s \in State, NEW p \in Profiles PROVE Recorded(s, p) \subseteq Exports
<1>1. s.sel[p] \in Selection
  BY DEF State
<1> QED
  BY <1>1 DEF Recorded, Selection

\* Operations up to their first call, and the actions of the environment.
LEMMA OtherSteps ==
    ASSUME IInv,
           \/ CheckStart \/ Continue \/ Recover \/ User \/ Environment
    PROVE  IInv'
<1>1. mem \in State /\ disk \in State /\ task \in Task /\ NoTask \in Task
  BY NoTaskTyped DEF IInv, TypeOK
<1>2. CASE CheckStart
  BY <1>2, QuietStep, NoTaskTyped
     DEF CheckStart, IInv, TypeOK, Calls, state, policy, system
<1>3. CASE Continue
  <2>1. pc' \in {"cleanup", "recover", "identity", "readback"}
    BY <1>3 DEF Continue, Go, AfterWithdrawal
  <2> QED
    BY <1>3, <2>1, QuietStep DEF Continue, Go, IInv, TypeOK, Calls, state, policy, system
<1>4. CASE Recover
  BY <1>1, <1>4, QuietStep DEF Recover, IInv, TypeOK, Calls, state, policy
<1>5. ASSUME NEW p \in Profiles, PrepareStart(p) PROVE IInv'
  <2> DEFINE call == [op |-> "prepare", profile |-> p, todo |-> {}]
             s == [mem EXCEPT !.sel[p].policy = granted[p]]
  <2>1. call \in Task /\ "identity" \in Calls
    BY DEF Task, Calls
  <2>2. CASE pc' = "identity" /\ task' = call /\ UNCHANGED <<state, granted>>
    BY <1>5, <2>1, <2>2, QuietStep DEF PrepareStart, IInv, TypeOK, state, system
  <2>3. CASE SaveAs(s, "identity", call)
    <3>1. s \in State /\ Owned(s) = Owned(mem)
      BY PreparedTyped DEF IInv
    <3> HIDE DEF s, call
    <3>2. KeyInv'
      BY <1>5, <2>1, <2>3, <3>1, SavedKeys DEF PrepareStart, IInv, KeyInv, system
    <3>3. TypeOK'
      BY <1>5, <2>1, <2>3, <3>1, SaveOutcome DEF PrepareStart, IInv, TypeOK, system
    <3> QED
      BY <3>2, <3>3 DEF IInv
  <2> QED
    BY <1>5, <2>2, <2>3 DEF PrepareStart
<1>6. ASSUME NEW p \in Profiles, RemoveStart(p) PROVE IInv'
  BY <1>6, QuietStep DEF RemoveStart, IInv, TypeOK, Calls, Task, state, policy, system
<1>7. ASSUME NEW p \in Profiles, Install(p) PROVE IInv'
  <2>1. Recorded(mem, p) \subseteq Exports
    BY <1>1, RecordedTyped
  <2>2. installed' \in [Profiles -> Exports \cup {None}]
    BY <1>7, <2>1 DEF Install, IInv, TypeOK
  <2> QED
    BY <1>7, <2>2, QuietStep DEF Install, IInv, TypeOK, KeyInv, state, policy
<1>8. CASE User
  BY <1>5, <1>6, <1>7, <1>8 DEF User
<1>9. CASE Observe
  <2>1. KeyInv'
    BY <1>9 DEF Observe, IInv, KeyInv, Owned, system
  <2>2. TypeOK'
    BY <1>1, <1>9 DEF Observe, IInv, TypeOK, Unauthorised, system
  <2> QED
    BY <2>1, <2>2 DEF IInv
<1>10. CASE Restart
  <2>1. /\ key' \in [Ids -> KeyStates]
        /\ \A i \in Ids : key'[i] # "none" => i \in Owned(disk)
    <3>1. CASE UNCHANGED key
      BY <3>1 DEF IInv, TypeOK, KeyInv
    <3>2. CASE pc = "key" /\ \E k \in Written(key[mem.pending]) :
                                 key' = [key EXCEPT ![mem.pending] = k]
      <4>1. mem.pending \in Ids /\ mem.pending \in Owned(disk)
        BY <1>1, <3>2 DEF IInv, KeyInv, State
      <4> QED
        BY <3>2, <4>1, WrittenKeys DEF IInv, KeyInv
    <3> QED
      BY <1>10, <3>1, <3>2 DEF Restart
  <2>2. KeyInv'
    BY <1>10, <2>1 DEF Restart, KeyInv, Owned
  <2>3. TypeOK'
    BY <1>1, <1>10, <2>1 DEF Restart, IInv, TypeOK, Unauthorised, Calls
  <2> QED
    BY <2>2, <2>3 DEF IInv
<1>11. CASE Withhold \/ Rotate \/ Heal \/ \E id \in Ids : Age(id)
  BY <1>11, QuietStep
     DEF Withhold, Rotate, Heal, Age, IInv, TypeOK, KeyInv, Unauthorised, state, policy, system
<1> QED
  BY <1>2, <1>3, <1>4, <1>8, <1>9, <1>10, <1>11 DEF Environment

(* Types, and the invariant about the keys, after every step of an           *)
(* operation, of the user, of time, of the control and of a restart.         *)
THEOREM AdmissionInvariant == Spec => []IInv
<1>1. IInv /\ [Next]_vars => IInv'
  <2> SUFFICES ASSUME IInv, [Next]_vars PROVE IInv'
    OBVIOUS
  <2>1. CASE UNCHANGED vars
    BY <2>1 DEF vars, IInv, TypeOK, KeyInv, Owned
  <2>2. CASE Remove
    BY <2>2, RemovalStep DEF Remove
  <2>3. ASSUME NEW p \in Profiles, Withdraw(p) PROVE IInv'
    BY <2>3, RemovalStep DEF Withdraw
  <2> QED
    BY <2>1, <2>2, <2>3, IdentityStep, KeyStep, IssueStep, StageStepIInv, ReadbackStep,
       ActivateStep, CleanupStep, OtherSteps DEF Next, Step
<1> QED
  BY InitIInv, <1>1, PTL DEF Spec

(* A private key on the device always belongs to an identity or a cleanup    *)
(* job of the protected file.                                                *)
THEOREM KeysAreAccounted == Spec => []KeysAccounted
<1>1. IInv => KeysAccounted
  BY DEF IInv, KeyInv, KeysAccounted
<1> QED
  BY <1>1, AdmissionInvariant, PTL

(* The types alone.                                                          *)
THEOREM AdmissionTypes == Spec => []TypeOK
<1>1. IInv => TypeOK
  BY DEF IInv
<1> QED
  BY <1>1, AdmissionInvariant, PTL

-----------------------------------------------------------------------------
(* Which key belongs to which identity, and what an operation has obtained    *)
(* when it gets to a call.                                                    *)

\* An identity is the active one, the one in progress or one to be deleted; what
\* the file says was made of it was made.
Apart(s, k, l) ==
    /\ s.active # None => /\ s.active \notin s.jobs /\ s.active # s.pending
                          /\ k[s.active] = "whole"
    /\ s.pending # None => s.pending \notin s.jobs
    /\ s.pending = None => ~s.csr /\ ~s.cert /\ ~s.stale
    /\ s.csr /\ ~s.stale => k[s.pending] = "whole"
    /\ s.cert => s.csr
    /\ \A id \in Owned(s) : l[id] # "unused"

(* Memory is ahead of the file only by the room made for a next identity, and *)
(* an operation gets to a call only with what the calls before it obtained.   *)
IdentityInv ==
    /\ mem \in {disk, Replaced(disk)}
    /\ Apart(disk, key, life)
    /\ pc \in {"key", "issue", "stage", "readback", "activate"} => ~mem.stale
    /\ pc = "issue" => mem.csr
    /\ pc = "activate" => mem.cert

\* Keys are written and certificates issued; what was there stays.
LEMMA ApartKept ==
    ASSUME NEW s \in State, NEW k, NEW l, Apart(s, k, l),
           NEW k2, \A id \in Ids : k[id] = "whole" => k2[id] = "whole",
           NEW l2, \A id \in Ids : l[id] # "unused" => l2[id] # "unused"
    PROVE  Apart(s, k2, l2)
<1>1. /\ s.active \in Ids \cup {None} /\ s.pending \in Ids \cup {None} /\ Owned(s) \subseteq Ids
      /\ s.csr => s.pending \in Ids
  BY DEF State, Owned, Apart
<1> QED
  BY <1>1 DEF Apart

\* Making room for the next identity keeps the others apart.
LEMMA ApartReplaced ==
    ASSUME NEW s \in State, NEW k, NEW l, Apart(s, k, l)
    PROVE  /\ Replaced(s) \in State /\ Apart(Replaced(s), k, l)
           /\ ~Replaced(s).stale /\ Replaced(Replaced(s)) = Replaced(s)
           /\ Replaced(s).sel = s.sel
<1>1. CASE ~s.stale
  BY <1>1 DEF Replaced, State
<1>2. CASE s.stale
  <2> DEFINE r == Replaced(s)
  <2>1. r \in State /\ Owned(r) = Owned(s)
    BY StatesTyped, OwnersKept
  <2>2. /\ r.active = s.active /\ r.pending = None /\ r.sel = s.sel
        /\ r.csr = FALSE /\ r.cert = FALSE /\ r.stale = FALSE
        /\ r.jobs = s.jobs \cup ({s.pending} \ {None})
    BY <1>2 DEF Replaced, WithoutPending, QueueIds, State
  <2>3. Replaced(r) = r
    <3> HIDE DEF r
    <3> QED
      BY <2>2 DEF Replaced
  <2> HIDE DEF r
  <2>4. Apart(r, k, l)
    BY <2>1, <2>2 DEF Apart
  <2> USE DEF r
  <2> QED
    BY <2>1, <2>2, <2>3, <2>4
<1> QED
  BY <1>1, <1>2

\* So memory keeps them apart as the file does, and has the same selections.
LEMMA MemoryApart ==
    ASSUME IInv, IdentityInv
    PROVE  /\ mem \in State /\ disk \in State /\ Apart(mem, key, life) /\ Apart(disk, key, life)
           /\ mem.sel = disk.sel /\ Replaced(mem) \in {disk, Replaced(disk)}
<1>1. mem \in State /\ disk \in State /\ Apart(disk, key, life)
  BY DEF IInv, TypeOK, IdentityInv
<1>2. CASE mem = disk
  BY <1>1, <1>2
<1>3. CASE mem = Replaced(disk)
  BY <1>1, <1>3, ApartReplaced
<1> QED
  BY <1>1, <1>2, <1>3 DEF IdentityInv

\* A save, whether it succeeds or falls back to the file.
LEMMA SavedIdentity ==
    ASSUME IInv, NEW s \in State, NEW step \in Calls, NEW t \in Task, SaveAs(s, step, t),
           Apart(disk, key', life'), Apart(s, key', life'),
           step \in {"key", "issue", "stage", "readback", "activate"} => ~s.stale,
           step = "issue" => s.csr, step = "activate" => s.cert
    PROVE  IdentityInv'
<1>1. \/ mem' = s /\ disk' = s /\ pc' = step
      \/ mem' = disk /\ disk' = disk /\ pc' = "recover"
  BY SaveOutcome DEF IInv
<1>2. Apart(disk', key', life') /\ mem' = disk'
  BY <1>1
<1>3. /\ pc' \in {"key", "issue", "stage", "readback", "activate"} => ~mem'.stale
      /\ pc' = "issue" => mem'.csr
      /\ pc' = "activate" => mem'.cert
  BY <1>1
<1>4. Apart(disk, key, life)'
  BY <1>2 DEF Apart, Owned
<1> QED
  BY <1>2, <1>3, <1>4 DEF IdentityInv

\* A step that leaves the persisted state alone.
LEMMA KeptIdentity ==
    ASSUME IInv, IdentityInv, UNCHANGED disk, mem' \in {disk, Replaced(disk)},
           \A id \in Ids : key[id] = "whole" => key'[id] = "whole",
           \A id \in Ids : life[id] # "unused" => life'[id] # "unused",
           pc' \in {"key", "issue", "stage", "readback", "activate"} => ~mem'.stale,
           pc' = "issue" => mem'.csr, pc' = "activate" => mem'.cert
    PROVE  IdentityInv'
<1>1. Apart(disk, key', life')
  BY MemoryApart, ApartKept
<1>2. Apart(disk, key, life)'
  BY <1>1 DEF Apart, Owned
<1>3. Replaced(disk)' = Replaced(disk)
  BY DEF Replaced, WithoutPending, QueueIds
<1> QED
  BY <1>2, <1>3 DEF IdentityInv

\* Taking a selection out.
LEMMA ApartDetached ==
    ASSUME NEW s \in State, NEW k, NEW l, Apart(s, k, l), NEW p \in Profiles
    PROVE  Apart(Detach(s, p), k, l)
<1>1. Owned(Detach(s, p)) = Owned(s)
  BY DetachKeeps
<1>2. CASE Selected(Deselect(s, p)) # {}
  <2>1. /\ Detach(s, p).active = s.active /\ Detach(s, p).pending = s.pending
        /\ Detach(s, p).jobs = s.jobs /\ Detach(s, p).csr = s.csr
        /\ Detach(s, p).cert = s.cert /\ Detach(s, p).stale = s.stale
    BY <1>2 DEF Detach, Deselect, State
  <2> QED
    BY <1>1, <2>1 DEF Apart
<1>3. CASE Selected(Deselect(s, p)) = {}
  <2> DEFINE d == Deselect(s, p)
  <2>1. Detach(s, p) = [WithoutPending(QueueIds(d, {s.active, s.pending})) EXCEPT !.active = None]
    BY <1>3 DEF Detach
  <2>2. DOMAIN d = DOMAIN s
    BY DEF Deselect
  <2>3. /\ Detach(s, p).active = None /\ Detach(s, p).pending = None
        /\ Detach(s, p).csr = FALSE /\ Detach(s, p).cert = FALSE /\ Detach(s, p).stale = FALSE
    <3> HIDE DEF d
    <3> QED
      BY <2>1, <2>2 DEF WithoutPending, QueueIds, State
  <2> QED
    BY <1>1, <2>3 DEF Apart
<1> QED
  BY <1>2, <1>3

LEMMA RemovalIdentity ==
    ASSUME IInv, IdentityInv, NEW p \in Profiles, NEW next \in {"cleanup", "withdraw"},
           RemoveProfile(p, next), UNCHANGED life
    PROVE  IdentityInv'
<1>1. mem \in State /\ task \in Task /\ next \in Calls
  BY DEF IInv, TypeOK, Calls
<1>2. CASE Save(Detach(mem, p), next) /\ UNCHANGED key
  <2>1. SaveAs(Detach(mem, p), next, task) /\ Detach(mem, p) \in State
    BY <1>1, <1>2, DetachKeeps DEF Save
  <2>2. Apart(Detach(mem, p), key', life') /\ Apart(disk, key', life')
    BY <1>2, MemoryApart, ApartDetached
  <2> QED
    BY <1>1, <2>1, <2>2, SavedIdentity
<1>3. CASE Return /\ UNCHANGED <<state, key>>
  BY <1>3, KeptIdentity DEF Return, Go, state, IdentityInv
<1> QED
  BY <1>2, <1>3 DEF RemoveProfile, system

\* The identity of a call is a new one, the one in progress, or the active one.
LEMMA IdentityIdentity == ASSUME IInv, IdentityInv, Identity PROVE IdentityInv'
<1> DEFINE s == Replaced(mem)
<1>1. /\ mem \in State /\ task \in Task /\ "key" \in Calls
      /\ s \in State /\ Apart(s, key, life) /\ ~s.stale /\ s \in {disk, Replaced(disk)}
  <2>1. mem \in State /\ Apart(mem, key, life) /\ Replaced(mem) \in {disk, Replaced(disk)}
    BY MemoryApart
  <2> QED
    BY <2>1, ApartReplaced DEF IInv, TypeOK, Calls
<1>2. key' = key
  BY DEF Identity, system
<1>3. \A id \in Ids : life[id] # "unused" => life'[id] # "unused"
  BY DEF Identity
<1>4. CASE mem' = s /\ pc' \in {"stage", "recover", "key"} /\ UNCHANGED disk
  BY <1>1, <1>2, <1>3, <1>4, KeptIdentity
<1>5. ASSUME NEW id \in Unused, Save([s EXCEPT !.pending = id], "key"), s.pending = None
      PROVE  IdentityInv'
  <2> DEFINE r == [s EXCEPT !.pending = id]
  <2>1. id \in Ids /\ id # None /\ life[id] = "unused"
    BY AdmissionAssumption DEF Unused
  <2>2. r \in State /\ SaveAs(r, "key", task)
    BY <1>1, <1>5, <2>1 DEF State, Save
  <2>3. /\ r.active = s.active /\ r.pending = id /\ r.jobs = s.jobs
        /\ r.csr = s.csr /\ r.cert = s.cert /\ r.stale = s.stale
    BY <1>1 DEF State
  <2>4. id \notin Owned(s) /\ Owned(r) = Owned(s) \cup {id}
    <3>1. id \notin Owned(s)
      BY <1>1, <2>1 DEF Apart
    <3> QED
      BY <1>5, <2>1, <2>3, <3>1 DEF Owned
  <2>5. id \notin s.jobs /\ s.active # id
    BY <2>1, <2>4 DEF Owned
  <2>6. Apart(disk, key', life')
    BY <1>2, <1>3, MemoryApart, ApartKept
  <2>7. CASE life'[id] # "unused"
    <3>1. Apart(s, key', life')
      BY <1>1, <1>2, <1>3, ApartKept
    <3>2. Apart(r, key', life')
      <4> HIDE DEF r, s
      <4> QED
        BY <1>1, <1>5, <2>1, <2>3, <2>4, <2>5, <2>7, <3>1 DEF Apart
    <3> HIDE DEF r
    <3> QED
      BY <1>1, <2>2, <2>3, <2>6, <3>2, SavedIdentity
  <2>8. CASE mem'.pending = id
    <3>1. life'[id] # "unused"
      BY <2>1, <2>8 DEF Identity
    <3> QED
      BY <2>7, <3>1
  <2>9. CASE mem'.pending # id
    <3>1. mem' = disk /\ disk' = disk /\ pc' = "recover"
      <4> HIDE DEF r
      <4> QED
        BY <1>1, <2>2, <2>3, <2>9, SaveOutcome DEF IInv
    <3> QED
      BY <1>2, <1>3, <3>1, KeptIdentity
  <2> QED
    BY <2>8, <2>9
<1> QED
  BY <1>4, <1>5 DEF Identity, StartStaging, Return, Go

LEMMA KeyIdentity == ASSUME IInv, IdentityInv, Key PROVE IdentityInv'
<1>1. /\ mem \in State /\ task \in Task /\ "issue" \in Calls /\ ~mem.stale
      /\ key \in [Ids -> KeyStates]
      /\ mem.pending \in Ids /\ mem.pending # None
      /\ Apart(mem, key, life) /\ Apart(disk, key, life)
  BY MemoryApart, AdmissionAssumption
     DEF IInv, TypeOK, KeyInv, Key, Calls, State, IdentityInv
<1>2. life' = life
  BY DEF Key
<1>3. \A id \in Ids : key[id] = "whole" => key'[id] = "whole"
  BY <1>1, WrittenKeys DEF Key, IInv
<1>4. CASE ((mem.csr /\ Go("issue")) \/ Return) /\ UNCHANGED state
  BY <1>1, <1>2, <1>3, <1>4, KeptIdentity DEF Go, Return, state, IdentityInv
<1>5. CASE /\ key' = [key EXCEPT ![mem.pending] = "whole"]
           /\ Save([mem EXCEPT !.csr = TRUE], "issue")
  <2> DEFINE r == [mem EXCEPT !.csr = TRUE]
  <2>1. /\ r \in State /\ SaveAs(r, "issue", task) /\ Owned(r) = Owned(mem)
        /\ r.active = mem.active /\ r.pending = mem.pending /\ r.jobs = mem.jobs
        /\ r.csr = TRUE /\ r.cert = mem.cert /\ r.stale = mem.stale
    BY <1>1, <1>5 DEF State, Save, Owned
  <2>2. Apart(mem, key', life') /\ Apart(disk, key', life')
    BY <1>1, <1>2, <1>3, MemoryApart, ApartKept
  <2>3. key'[mem.pending] = "whole"
    BY <1>1, <1>5
  <2> HIDE DEF r
  <2>4. Apart(r, key', life')
    BY <1>1, <2>1, <2>2, <2>3 DEF Apart
  <2> QED
    BY <1>1, <2>1, <2>2, <2>4, SavedIdentity
<1> QED
  BY <1>4, <1>5 DEF Key, Return, Go, state

LEMMA IssueIdentity == ASSUME IInv, IdentityInv, Issue PROVE IdentityInv'
<1>1. /\ mem \in State /\ task \in Task /\ Staging \in Task /\ ~mem.stale /\ mem.csr
      /\ {"stage", "recover"} \subseteq Calls
      /\ Apart(mem, key, life) /\ Apart(disk, key, life)
  BY MemoryApart DEF IInv, TypeOK, Issue, Calls, Staging, Task, Selected, IdentityInv
<1>2. key' = key
  BY DEF Issue, system
<1>3. \A id \in Ids : life[id] # "unused" => life'[id] # "unused"
  BY DEF Issue, Certified, IInv, TypeOK
<1>4. CASE (StartStaging \/ Return) /\ UNCHANGED state
  BY <1>1, <1>2, <1>3, <1>4, KeptIdentity DEF StartStaging, Return, Go, state, IdentityInv
<1>5. ASSUME NEW r \in {[mem EXCEPT !.cert = TRUE], [mem EXCEPT !.stale = TRUE]},
             NEW step \in {"stage", "recover"}, NEW t \in Task, SaveAs(r, step, t),
             step = "stage" => ~r.stale
      PROVE  IdentityInv'
  <2>1. /\ r \in State /\ Owned(r) = Owned(mem)
        /\ r.active = mem.active /\ r.pending = mem.pending /\ r.jobs = mem.jobs
        /\ r.csr = mem.csr
    BY <1>1, <1>5 DEF State, Owned
  <2>2. Apart(mem, key', life') /\ Apart(disk, key', life')
    BY <1>1, <1>2, <1>3, MemoryApart, ApartKept
  <2>3. Apart(r, key', life')
    BY <1>1, <2>1, <2>2 DEF Apart
  <2> QED
    BY <1>1, <1>5, <2>1, <2>2, <2>3, SavedIdentity
<1>6. CASE SaveAs([mem EXCEPT !.cert = TRUE], "stage", Staging)
  <2>1. ~[mem EXCEPT !.cert = TRUE].stale
    BY <1>1 DEF State
  <2> QED
    BY <1>1, <1>5, <1>6, <2>1
<1>7. CASE Save([mem EXCEPT !.stale = TRUE], "recover")
  BY <1>1, <1>5, <1>7 DEF Save
<1> QED
  BY <1>4, <1>6, <1>7 DEF Issue

LEMMA StageIdentity == ASSUME IInv, IdentityInv, StageStep PROVE IdentityInv'
<1>1. /\ mem \in State /\ task \in Task /\ "stage" \in Calls /\ pc = "stage" /\ ~mem.stale
      /\ Apart(mem, key, life) /\ Apart(disk, key, life)
  BY MemoryApart DEF IInv, TypeOK, StageStep, Calls, IdentityInv
<1>2. key' = key /\ life' = life
  BY DEF StageStep
<1>3. CASE UNCHANGED state /\ pc' \in {"stage", "readback", "recover"}
  BY <1>1, <1>2, <1>3, KeptIdentity DEF state, IdentityInv
<1>4. ASSUME NEW p \in task.todo, NEW e \in Exports,
             SaveAs(Staged(p, e), "stage", [task EXCEPT !.todo = @ \ {p}])
      PROVE  IdentityInv'
  <2> DEFINE s == Staged(p, e)
  <2>1. /\ s \in State /\ [task EXCEPT !.todo = @ \ {p}] \in Task
        /\ s.active = mem.active /\ s.pending = mem.pending /\ s.jobs = mem.jobs
        /\ s.csr = mem.csr /\ s.cert = mem.cert /\ s.stale = mem.stale
    BY <1>1, StagedTyped DEF IInv
  <2>2. SaveAs(s, "stage", [task EXCEPT !.todo = @ \ {p}])
    BY <1>4
  <2> HIDE DEF s
  <2>3. Apart(s, key', life') /\ Apart(disk, key', life')
    BY <1>1, <1>2, <2>1 DEF Apart, Owned
  <2> QED
    BY <1>1, <2>1, <2>2, <2>3, SavedIdentity
<1>5. CASE /\ pc' = pc \/ pc' \in {"readback", "recover"}
           /\ UNCHANGED <<state, granted, of, files>>
  BY <1>1, <1>3, <1>5
<1> QED
  BY <1>4, <1>5, StageForms

\* The readback gets to the activation only with the certificate.
LEMMA ReadbackIdentity == ASSUME IInv, IdentityInv, Readback PROVE IdentityInv'
<1>1. /\ mem \in State /\ task \in Task /\ AfterReadbackCall \in Calls /\ ~mem.stale
      /\ Apart(mem, key, life) /\ Apart(disk, key, life)
  BY MemoryApart DEF IInv, TypeOK, Readback, Calls, IdentityInv, AfterReadbackCall
<1>2. key' = key /\ life' = life
  BY DEF Readback, system
<1>3. /\ AfterReadbackCall \in {"activate", "cleanup"}
      /\ Stageable(mem) /\ AfterReadbackCall = "activate" => mem.cert
  BY DEF Stageable, HasCertificate, AfterReadbackCall
<1>4. CASE /\ (Stageable(mem) /\ pc' = AfterReadbackCall) \/ pc' = "recover"
           /\ UNCHANGED state
  BY <1>1, <1>2, <1>3, <1>4, KeptIdentity DEF state, IdentityInv
<1>5. CASE Stageable(mem) /\ SaveAs(AfterReadback, AfterReadbackCall, task)
  <2>1. /\ AfterReadback \in State
        /\ AfterReadback.active = mem.active /\ AfterReadback.pending = mem.pending
        /\ AfterReadback.jobs = mem.jobs /\ AfterReadback.csr = mem.csr
        /\ AfterReadback.cert = mem.cert /\ AfterReadback.stale = mem.stale
    BY AfterReadbackTyped DEF IInv
  <2>2. Apart(AfterReadback, key', life') /\ Apart(disk, key', life')
    BY <1>1, <1>2, <2>1 DEF Apart, Owned
  <2> QED
    BY <1>1, <1>3, <1>5, <2>1, <2>2, SavedIdentity
<1> QED
  BY <1>4, <1>5, ReadbackForms

LEMMA ActivateIdentity == ASSUME IInv, IdentityInv, Activate PROVE IdentityInv'
<1>1. /\ mem \in State /\ task \in Task /\ {"cleanup", "recover"} \subseteq Calls
      /\ ~mem.stale /\ mem.cert /\ mem.csr /\ key[mem.pending] = "whole"
      /\ Apart(mem, key, life) /\ Apart(disk, key, life)
  BY MemoryApart DEF IInv, TypeOK, Activate, Calls, IdentityInv, Apart
<1>2. key' = key /\ life' = life
  BY DEF Activate, system
<1>3. mem.pending # None /\ mem.pending \in Ids
  BY <1>1 DEF IInv, KeyInv, Activate, State
<1>4. CASE Save(Activated(mem), "cleanup")
  <2> DEFINE s == Activated(mem)
  <2>1. s \in State /\ SaveAs(s, "cleanup", task) /\ Owned(s) = Owned(mem)
    BY <1>1, <1>3, <1>4, StatesTyped, OwnersKept DEF Save
  <2>2. /\ s.active = mem.pending /\ s.pending = None
        /\ s.jobs = mem.jobs \cup ({mem.active} \ {None})
        /\ s.csr = FALSE /\ s.cert = FALSE /\ s.stale = FALSE
    BY <1>1 DEF Activated, WithoutPending, QueueIds, State
  <2> HIDE DEF s
  <2>3. Apart(s, key', life') /\ Apart(disk, key', life')
    BY <1>1, <1>2, <1>3, <2>1, <2>2 DEF Apart
  <2> QED
    BY <1>1, <2>1, <2>3, SavedIdentity
<1>5. CASE Save([mem EXCEPT !.stale = TRUE], "recover")
  <2> DEFINE s == [mem EXCEPT !.stale = TRUE]
  <2>1. /\ s \in State /\ SaveAs(s, "recover", task)
        /\ s.active = mem.active /\ s.pending = mem.pending /\ s.jobs = mem.jobs
        /\ s.csr = mem.csr /\ s.cert = mem.cert
    BY <1>1, <1>5 DEF State, Save
  <2> HIDE DEF s
  <2>2. Apart(s, key', life') /\ Apart(disk, key', life')
    BY <1>1, <1>2, <1>3, <2>1 DEF Apart, Owned
  <2> QED
    BY <1>1, <2>1, <2>2, SavedIdentity
<1>6. CASE Return /\ UNCHANGED state
  BY <1>2, <1>6, KeptIdentity DEF Return, Go, state, IdentityInv
<1> QED
  BY <1>4, <1>5, <1>6 DEF Activate, state

\* A job is of no identity that is used, in memory or in the file.
LEMMA CleanupIdentity == ASSUME IInv, IdentityInv, Cleanup PROVE IdentityInv'
<1>1. /\ mem \in State /\ disk \in State /\ task \in Task /\ {"cleanup", "recover"} \subseteq Calls
      /\ key \in [Ids -> KeyStates]
      /\ Apart(mem, key, life) /\ Apart(disk, key, life)
  BY MemoryApart DEF IInv, TypeOK, Calls
<1>2. life' = life /\ disk.active \in Ids \cup {None} /\ disk.pending \in Ids \cup {None}
  BY <1>1 DEF Cleanup, State
<1>3. ASSUME NEW id \in mem.jobs, key' = [key EXCEPT ![id] = "none"],
             Save([mem EXCEPT !.jobs = @ \ {id}], "cleanup")
      PROVE  IdentityInv'
  <2> DEFINE s == [mem EXCEPT !.jobs = @ \ {id}]
  <2>1. /\ s \in State /\ SaveAs(s, "cleanup", task) /\ id \in Ids
        /\ s.active = mem.active /\ s.pending = mem.pending /\ s.jobs = mem.jobs \ {id}
        /\ s.csr = mem.csr /\ s.cert = mem.cert /\ s.stale = mem.stale
    BY <1>1, <1>3 DEF State, Save
  <2> HIDE DEF s
  <2>2. id # mem.active /\ id # mem.pending /\ id # None
    BY <1>1, <1>3, <2>1, AdmissionAssumption DEF Apart
  <2>3. id # disk.active /\ (disk.csr /\ ~disk.stale => id # disk.pending)
    <3>1. CASE mem = disk
      BY <2>2, <3>1
    <3>2. CASE mem = Replaced(disk)
      BY <1>1, <1>3, <2>2, <3>2 DEF Replaced, WithoutPending, QueueIds, State
    <3> QED
      BY <3>1, <3>2 DEF IdentityInv
  <2>4. \A i \in Ids : i # id => key'[i] = key[i]
    BY <1>1, <1>3
  <2>5. mem.active \in Ids \cup {None} /\ mem.pending \in Ids \cup {None}
    BY <1>1 DEF State
  <2>6. Apart(s, key', life')
    BY <1>1, <1>2, <2>1, <2>2, <2>4, <2>5 DEF Apart, Owned
  <2>7. Apart(disk, key', life')
    BY <1>1, <1>2, <2>3, <2>4 DEF Apart
  <2> QED
    BY <1>1, <2>1, <2>6, <2>7, SavedIdentity
<1>4. CASE Save([mem EXCEPT !.shared = FALSE, !.files = {}], "cleanup") /\ key' = key
  <2> DEFINE s == [mem EXCEPT !.shared = FALSE, !.files = {}]
  <2>1. /\ s \in State /\ SaveAs(s, "cleanup", task)
        /\ s.active = mem.active /\ s.pending = mem.pending /\ s.jobs = mem.jobs
        /\ s.csr = mem.csr /\ s.cert = mem.cert /\ s.stale = mem.stale
    BY <1>1, <1>4 DEF State, Save
  <2> HIDE DEF s
  <2>2. Apart(s, key', life') /\ Apart(disk, key', life')
    BY <1>1, <1>2, <1>4, <2>1 DEF Apart, Owned
  <2> QED
    BY <1>1, <2>1, <2>2, SavedIdentity
<1>5. CASE Return /\ UNCHANGED <<state, key>>
  BY <1>2, <1>5, KeptIdentity DEF Return, Go, state, IdentityInv
<1> QED
  BY <1>3, <1>4, <1>5 DEF Cleanup, state

\* Operations up to their first call, and the actions of the environment.
LEMMA OtherIdentity ==
    ASSUME IInv, IdentityInv,
           \/ CheckStart \/ Continue \/ Recover \/ User \/ Environment \/ UNCHANGED vars
    PROVE  IdentityInv'
<1>1. /\ mem \in State /\ disk \in State /\ Apart(mem, key, life) /\ Apart(disk, key, life)
  BY MemoryApart
<1>2. ASSUME UNCHANGED <<mem, disk, key, life>>,
             pc' = pc \/ pc' \notin {"key", "issue", "stage", "readback", "activate"}
      PROVE  IdentityInv'
  BY <1>2, KeptIdentity DEF IdentityInv
<1>3. CASE CheckStart \/ Recover
  BY <1>2, <1>3 DEF CheckStart, Recover, state, system
<1>4. CASE Continue
  <2>1. /\ UNCHANGED <<mem, disk, key, life>> /\ pc' = AfterWithdrawal(mem)
    BY <1>4 DEF Continue, Go, state, system
  <2>2. AfterWithdrawal(mem) = "readback" => ~mem.stale
    BY DEF AfterWithdrawal
  <2>3. AfterWithdrawal(mem) \in {"cleanup", "recover", "identity", "readback"}
    BY DEF AfterWithdrawal
  <2> QED
    BY <2>1, <2>2, <2>3, KeptIdentity DEF IdentityInv
<1>5. ASSUME NEW p \in Profiles, PrepareStart(p) PROVE IdentityInv'
  <2> DEFINE call == [op |-> "prepare", profile |-> p, todo |-> {}]
             s == [mem EXCEPT !.sel[p].policy = granted[p]]
  <2>1. CASE pc' = "identity" /\ UNCHANGED <<state, granted>>
    BY <1>2, <1>5, <2>1 DEF PrepareStart, state, system
  <2>2. CASE SaveAs(s, "identity", call)
    <3>1. call \in Task /\ "identity" \in Calls
      BY DEF Task, Calls
    <3>2. s \in State
      BY PreparedTyped DEF IInv
    <3>3. /\ s.active = mem.active /\ s.pending = mem.pending /\ s.jobs = mem.jobs
          /\ s.csr = mem.csr /\ s.cert = mem.cert /\ s.stale = mem.stale
      BY <1>1 DEF State
    <3>4. key' = key /\ life' = life
      BY <1>5 DEF PrepareStart, system
    <3> HIDE DEF s, call
    <3>5. Apart(s, key', life') /\ Apart(disk, key', life')
      BY <1>1, <3>3, <3>4 DEF Apart, Owned
    <3> QED
      BY <2>2, <3>1, <3>2, <3>5, SavedIdentity
  <2> QED
    BY <1>5, <2>1, <2>2 DEF PrepareStart
<1>6. ASSUME NEW p \in Profiles, RemoveStart(p) \/ Install(p) PROVE IdentityInv'
  BY <1>2, <1>6 DEF RemoveStart, Install, state, system
<1>7. CASE User
  BY <1>5, <1>6, <1>7 DEF User
<1>8. CASE Observe \/ Restart
  <2>1. disk' \in {mem, disk} /\ mem' = disk' /\ life' = life
        /\ pc' \notin {"key", "issue", "stage", "readback", "activate"}
    BY <1>8 DEF Observe, Restart
  <2>2. \A id \in Ids : key[id] = "whole" => key'[id] = "whole"
    <3>1. pc = "key" => mem.pending \in Ids
      BY <1>1 DEF IInv, KeyInv, State
    <3> QED
      BY <1>8, <3>1, WrittenKeys DEF Observe, Restart, system, IInv
  <2>3. Apart(mem, key', life') /\ Apart(disk, key', life')
    BY <1>1, <2>1, <2>2, ApartKept
  <2>4. Apart(disk', key', life')
    BY <2>1, <2>3
  <2>5. Apart(disk, key, life)'
    BY <2>4 DEF Apart, Owned
  <2> QED
    BY <2>1, <2>5 DEF IdentityInv
<1>9. CASE Withhold \/ Rotate \/ Heal
  BY <1>2, <1>9 DEF Withhold, Rotate, Heal, state, system
<1>10. ASSUME NEW id \in Ids, Age(id) PROVE IdentityInv'
  <2>1. UNCHANGED <<mem, disk, key, pc>>
    BY <1>10 DEF Age, state, system
  <2>2. \A i \in Ids : life[i] # "unused" => life'[i] # "unused"
    BY <1>10 DEF Age, IInv, TypeOK
  <2> QED
    BY <2>1, <2>2, KeptIdentity DEF IdentityInv
<1>11. CASE UNCHANGED vars
  BY <1>2, <1>11 DEF vars
<1> QED
  BY <1>3, <1>4, <1>7, <1>8, <1>9, <1>10, <1>11 DEF Environment

LEMMA IdentityInvariant == Spec => [](IInv /\ IdentityInv)
<1>1. Init => IdentityInv
  BY DEF Init, IdentityInv, Apart, Owned, EmptyState
<1>2. ASSUME IInv, IdentityInv, [Next]_vars PROVE IdentityInv'
  <2>1. CASE Remove
    BY <1>2, <2>1, RemovalIdentity DEF Remove
  <2>2. ASSUME NEW p \in Profiles, Withdraw(p) PROVE IdentityInv'
    BY <1>2, <2>2, RemovalIdentity DEF Withdraw
  <2> QED
    BY <1>2, <2>1, <2>2, IdentityIdentity, KeyIdentity, IssueIdentity, StageIdentity,
       ReadbackIdentity, ActivateIdentity, CleanupIdentity, OtherIdentity DEF Next, Step
<1> QED
  BY <1>1, <1>2, AdmissionInvariant, PTL DEF Spec

(* Cleanup runs over jobs queued by renewals, stale certificates and          *)
(* removals, some of them rolled back, and never takes the key of the active   *)
(* identity, in memory or in the file (queueCleanup, cleanupPending).          *)
THEOREM ActiveKeyIsKept == Spec => []ActiveKeyKept
<1>1. IInv /\ IdentityInv => ActiveKeyKept
  BY MemoryApart DEF ActiveKeyKept, Apart
<1> QED
  BY <1>1, IdentityInvariant, PTL

-----------------------------------------------------------------------------
(* Which profiles are installed, offered and selected.                        *)

(* What is installed or recorded is selected.  From the readback to the       *)
(* activation only exports for the identity in progress are recorded, so that  *)
(* whatever the user installs in between is for it too.                        *)
ForPending(s, p) ==
    /\ \A e \in Recorded(s, p) : IdOf(e) = s.pending
    /\ IdOf(installed[p]) = s.pending

SelectionInv ==
    /\ InstalledIsSelected
    /\ \A p \in Profiles : Recorded(disk, p) # {} => p \in Selected(disk)
    /\ pc = "activate" => \A p \in Selected(mem) : ForPending(mem, p)

\* Memory and the file have the same selections.
LEMMA SameSelections ==
    ASSUME IInv, IdentityInv
    PROVE  mem.sel = disk.sel /\ Selected(mem) = Selected(disk)
BY MemoryApart DEF Selected

\* A save after which the selections of s hold, or still those of the file.
LEMMA SavedSelection ==
    ASSUME IInv, SelectionInv,
           NEW s \in State, NEW step \in Calls, NEW t \in Task, SaveAs(s, step, t),
           \A p \in Profiles : installed'[p] # None => p \in Selected(disk) /\ p \in Selected(s),
           \A p \in Profiles : Recorded(s, p) # {} => p \in Selected(s),
           step # "activate"
    PROVE  SelectionInv'
<1>1. \/ mem' = s /\ disk' = s /\ pc' = step
      \/ mem' = disk /\ disk' = disk /\ pc' = "recover"
  BY SaveOutcome DEF IInv
<1>2. pc' # "activate"
  BY <1>1
<1>3. \A p \in Profiles : p \in Selected(s) => s.sel[p].policy # None
  BY DEF Selected
<1>4. \A p \in Profiles : installed'[p] # None => disk'.sel[p].policy # None
  BY <1>1, <1>3 DEF Selected
<1>5. \A p \in Profiles : Recorded(disk', p) # {} => disk'.sel[p].policy # None
  BY <1>1, <1>3 DEF Selected, SelectionInv
<1>6. \A p : Recorded(disk, p)' = Recorded(disk', p)
  BY DEF Recorded
<1> QED
  BY <1>2, <1>4, <1>5, <1>6 DEF SelectionInv, InstalledIsSelected, Selected

\* A step that leaves the selections alone.
LEMMA KeptSelection ==
    ASSUME SelectionInv, UNCHANGED disk, \A p \in Profiles : installed'[p] \in {installed[p], None},
           pc' = "activate" => pc = "activate" /\ UNCHANGED <<mem, of, installed>>
    PROVE  SelectionInv'
<1>1. /\ InstalledIsSelected'
      /\ \A p \in Profiles : Recorded(disk, p)' # {} => p \in Selected(disk)'
  BY DEF SelectionInv, InstalledIsSelected, Selected, Recorded
<1>2. pc' = "activate" => \A p \in Selected(mem)' : ForPending(mem, p)'
  BY DEF SelectionInv, Selected, ForPending, Recorded, IdOf
<1> QED
  BY <1>1, <1>2 DEF SelectionInv

\* The profile goes before its selection.
LEMMA RemovalSelection ==
    ASSUME IInv, IdentityInv, SelectionInv, NEW p \in Profiles,
           NEW next \in {"cleanup", "withdraw"},
           RemoveProfile(p, next), UNCHANGED life
    PROVE  SelectionInv'
<1>1. mem \in State /\ task \in Task /\ next \in Calls /\ mem.sel = disk.sel
      /\ Selected(mem) = Selected(disk) /\ installed \in [Profiles -> Exports \cup {None}]
  BY SameSelections DEF IInv, TypeOK, Calls
<1>2. CASE installed' = [installed EXCEPT ![p] = None] /\ Save(Detach(mem, p), next)
  <2> DEFINE s == Detach(mem, p)
  <2>1. s \in State /\ SaveAs(s, next, task)
    BY <1>1, <1>2, DetachKeeps DEF Save
  <2>2. s.sel[p] = NotSelected /\ \A q \in Profiles \ {p} : s.sel[q] = mem.sel[q]
    <3>1. /\ Deselect(mem, p).sel[p] = NotSelected
          /\ \A q \in Profiles \ {p} : Deselect(mem, p).sel[q] = mem.sel[q]
      BY <1>1 DEF Deselect, State
    <3>2. s.sel = Deselect(mem, p).sel
      BY <1>1 DEF Detach, WithoutPending, QueueIds
    <3> QED
      BY <3>1, <3>2
  <2> HIDE DEF s
  <2>3. \A q \in Profiles : installed'[q] # None => q # p /\ q \in Selected(disk)
    BY <1>1, <1>2 DEF SelectionInv, InstalledIsSelected
  <2>4. \A q \in Profiles : q # p => (q \in Selected(s) <=> q \in Selected(disk))
    BY <1>1, <2>2 DEF Selected
  <2>5. \A q \in Profiles : Recorded(s, q) # {} => q \in Selected(s)
    <3>1. Recorded(s, p) = {}
      BY <2>2 DEF Recorded, NotSelected
    <3>2. \A q \in Profiles \ {p} : Recorded(s, q) = Recorded(disk, q)
      BY <1>1, <2>2 DEF Recorded
    <3> QED
      BY <2>4, <3>1, <3>2 DEF SelectionInv
  <2> QED
    BY <1>1, <2>1, <2>3, <2>4, <2>5, SavedSelection
<1>3. CASE Return /\ UNCHANGED <<state, system>>
  BY <1>3, KeptSelection DEF Return, Go, state, system
<1> QED
  BY <1>2, <1>3 DEF RemoveProfile

\* A save of a state with the same selections.
LEMMA SameSelectionSaved ==
    ASSUME IInv, IdentityInv, SelectionInv,
           NEW s \in State, NEW step \in Calls, NEW t \in Task, SaveAs(s, step, t),
           s.sel = mem.sel, UNCHANGED installed, step # "activate"
    PROVE  SelectionInv'
<1>1. mem.sel = disk.sel /\ Selected(s) = Selected(disk)
  BY SameSelections DEF Selected
<1>2. \A p \in Profiles : Recorded(s, p) = Recorded(disk, p)
  BY <1>1 DEF Recorded
<1> QED
  BY <1>1, <1>2, SavedSelection DEF SelectionInv, InstalledIsSelected

\* The calls about identities leave the selections alone.
LEMMA IdentitySelection ==
    ASSUME IInv, IdentityInv, SelectionInv, Identity \/ Key \/ Issue \/ Activate \/ Cleanup
    PROVE  SelectionInv'
<1>1. /\ mem \in State /\ task \in Task /\ Staging \in Task
      /\ {"key", "issue", "stage", "cleanup", "recover"} \subseteq Calls
  BY DEF IInv, TypeOK, Calls, Staging, Task, Selected
<1>2. installed' = installed
  BY DEF Identity, Key, Issue, Activate, Cleanup, system
<1>3. ASSUME UNCHANGED disk, pc' # "activate" PROVE SelectionInv'
  BY <1>2, <1>3, KeptSelection
<1>4. CASE Identity
  <2>1. /\ Replaced(mem) \in State /\ Replaced(mem).sel = mem.sel
    BY MemoryApart, ApartReplaced
  <2>2. ASSUME NEW id \in Unused, Save([Replaced(mem) EXCEPT !.pending = id], "key")
        PROVE  SelectionInv'
    <3>1. /\ [Replaced(mem) EXCEPT !.pending = id] \in State
          /\ [Replaced(mem) EXCEPT !.pending = id].sel = mem.sel
      BY <2>1 DEF State, Unused
    <3> QED
      BY <1>1, <1>2, <2>2, <3>1, SameSelectionSaved DEF Save
  <2> QED
    BY <1>3, <1>4, <2>2 DEF Identity, StartStaging, Return, Go
<1>5. CASE Key
  <2>1. [mem EXCEPT !.csr = TRUE] \in State /\ [mem EXCEPT !.csr = TRUE].sel = mem.sel
    BY <1>1 DEF State
  <2>2. CASE Save([mem EXCEPT !.csr = TRUE], "issue")
    BY <1>1, <1>2, <2>1, <2>2, SameSelectionSaved DEF Save
  <2> QED
    BY <1>3, <1>5, <2>2 DEF Key, Return, Go, state
<1>6. CASE Issue
  <2>1. /\ [mem EXCEPT !.cert = TRUE] \in State /\ [mem EXCEPT !.cert = TRUE].sel = mem.sel
        /\ [mem EXCEPT !.stale = TRUE] \in State /\ [mem EXCEPT !.stale = TRUE].sel = mem.sel
    BY <1>1 DEF State
  <2>2. CASE \/ SaveAs([mem EXCEPT !.cert = TRUE], "stage", Staging)
             \/ SaveAs([mem EXCEPT !.stale = TRUE], "recover", task)
    BY <1>1, <1>2, <2>1, <2>2, SameSelectionSaved
  <2> QED
    BY <1>3, <1>6, <2>2 DEF Issue, StartStaging, Return, Go, Save, state
<1>7. CASE Activate
  <2>1. /\ Activated(mem) \in State /\ Activated(mem).sel = mem.sel
        /\ [mem EXCEPT !.stale = TRUE] \in State /\ [mem EXCEPT !.stale = TRUE].sel = mem.sel
    <3>1. Activated(mem).sel = mem.sel
      BY <1>1 DEF Activated, WithoutPending, QueueIds, State
    <3> QED
      BY <1>1, <3>1, StatesTyped DEF State
  <2>2. CASE \/ SaveAs(Activated(mem), "cleanup", task)
             \/ SaveAs([mem EXCEPT !.stale = TRUE], "recover", task)
    BY <1>1, <1>2, <2>1, <2>2, SameSelectionSaved
  <2> QED
    BY <1>3, <1>7, <2>2 DEF Activate, Return, Go, Save, state
<1>8. CASE Cleanup
  <2>1. ASSUME NEW id \in mem.jobs, Save([mem EXCEPT !.jobs = @ \ {id}], "cleanup")
        PROVE  SelectionInv'
    <3>1. /\ [mem EXCEPT !.jobs = @ \ {id}] \in State
          /\ [mem EXCEPT !.jobs = @ \ {id}].sel = mem.sel
      BY <1>1 DEF State
    <3> QED
      BY <1>1, <1>2, <2>1, <3>1, SameSelectionSaved DEF Save
  <2>2. CASE Save([mem EXCEPT !.shared = FALSE, !.files = {}], "cleanup")
    <3>1. /\ [mem EXCEPT !.shared = FALSE, !.files = {}] \in State
          /\ [mem EXCEPT !.shared = FALSE, !.files = {}].sel = mem.sel
      BY <1>1 DEF State
    <3> QED
      BY <1>1, <1>2, <2>2, <3>1, SameSelectionSaved DEF Save
  <2> QED
    BY <1>3, <1>8, <2>1, <2>2 DEF Cleanup, Return, Go, state
<1> QED
  BY <1>4, <1>5, <1>6, <1>7, <1>8

\* Only a profile that is selected, and authorised as it was, is exported.
LEMMA StageSelection ==
    ASSUME IInv, IdentityInv, SelectionInv, StageStep
    PROVE  SelectionInv'
<1>1. /\ task \in Task /\ "stage" \in Calls /\ installed' = installed /\ pc = "stage"
  BY DEF IInv, TypeOK, Calls, StageStep
<1>2. ASSUME NEW p \in task.todo, NEW e \in Exports, Unchanged(p, mem),
             SaveAs(Staged(p, e), "stage", [task EXCEPT !.todo = @ \ {p}])
      PROVE  SelectionInv'
  <2> DEFINE s == Staged(p, e)
  <2>1. /\ p \in Profiles /\ [task EXCEPT !.todo = @ \ {p}] \in Task /\ s \in State
        /\ \A q \in Profiles : /\ s.sel[q].policy = mem.sel[q].policy
                               /\ q # p => s.sel[q] = mem.sel[q]
    BY StagedTyped DEF IInv
  <2>2. SaveAs(s, "stage", [task EXCEPT !.todo = @ \ {p}])
    BY <1>2
  <2> HIDE DEF s
  <2>3. \A q \in Profiles : s.sel[q].policy = mem.sel[q].policy
    BY <2>1
  <2>4. \A q \in Profiles : q # p => s.sel[q] = mem.sel[q]
    BY <2>1
  <2>5. mem.sel = disk.sel /\ Selected(mem) = Selected(disk)
    BY SameSelections
  <2>6. Selected(s) = Selected(mem)
    BY <2>3 DEF Selected
  <2>7. p \in Selected(mem)
    BY <1>2, <2>1 DEF Unchanged, Authorised, Selected
  <2>8. ASSUME NEW q \in Profiles, Recorded(s, q) # {} PROVE q \in Selected(s)
    <3>1. CASE q = p
      BY <2>6, <2>7, <3>1
    <3>2. CASE q # p
      BY <2>4, <2>5, <2>6, <2>8, <3>2 DEF SelectionInv, Recorded
    <3> QED
      BY <3>1, <3>2
  <2>9. \A q \in Profiles : installed'[q] # None => q \in Selected(disk)
    BY <1>1 DEF SelectionInv, InstalledIsSelected
  <2> QED
    BY <1>1, <2>1, <2>2, <2>5, <2>6, <2>8, <2>9, SavedSelection
<1>3. CASE pc' # "activate" /\ UNCHANGED <<state, granted, of, files>>
  BY <1>1, <1>3, KeptSelection DEF state
<1> QED
  BY <1>1, <1>2, <1>3, StageForms

\* The readback finds the profiles of the identity in progress installed, and
\* keeps nothing but their exports on record.
LEMMA ReadbackSelection ==
    ASSUME IInv, IdentityInv, SelectionInv, Readback
    PROVE  SelectionInv'
<1>1. /\ mem \in State /\ task \in Task /\ AfterReadbackCall \in Calls
      /\ installed' = installed /\ of' = of
  BY DEF IInv, TypeOK, Calls, AfterReadbackCall, Readback, system
<1>2. /\ AfterReadback \in State /\ AfterReadback.pending = mem.pending
      /\ \A p \in Profiles : /\ AfterReadback.sel[p].policy = mem.sel[p].policy
                             /\ AfterReadback.sel[p].export = mem.sel[p].export
                             /\ AfterReadback.sel[p].prior = {}
  BY AfterReadbackTyped DEF IInv
<1>3. Selected(AfterReadback) = Selected(mem) /\ Selected(mem) = Selected(disk)
  BY <1>2, SameSelections DEF Selected
<1>4. CASE pc' = "recover" /\ UNCHANGED <<state, granted>>
  BY <1>1, <1>4, KeptSelection DEF state
<1>5. CASE /\ \A p \in Selected(mem) : ReadBack(p)
           /\ mem' = AfterReadback /\ disk' \in {AfterReadback, disk} /\ pc' = AfterReadbackCall
  <2>1. pc' = "activate" => \A p \in Selected(mem) : /\ IdOf(installed[p]) = mem.pending
                                                    /\ IdOf(mem.sel[p].export) = mem.pending
    BY <1>5 DEF AfterReadbackCall, ReadBack, Target, Installed
  <2>2. pc' = "activate" => \A p \in Selected(mem)' : ForPending(mem, p)'
    <3>1. Selected(mem)' = Selected(mem) /\ Selected(mem) \subseteq Profiles
      BY <1>2, <1>5 DEF Selected
    <3>2. \A e : IdOf(e)' = IdOf(e)
      BY <1>1 DEF IdOf
    <3>3. \A p \in Profiles : Recorded(mem, p)' \subseteq {mem.sel[p].export}
      BY <1>2, <1>5 DEF Recorded
    <3>4. mem'.pending = mem.pending /\ installed' = installed
      BY <1>1, <1>2, <1>5
    <3>5. ASSUME NEW p \in Selected(mem)', pc' = "activate" PROVE ForPending(mem, p)'
      <4>1. p \in Profiles /\ p \in Selected(mem)
        BY <3>1, <3>5
      <4>2. \A e \in Recorded(mem, p)' : e = mem.sel[p].export
        BY <3>3, <4>1
      <4> QED
        BY <2>1, <3>2, <3>4, <3>5, <4>1, <4>2 DEF ForPending, IdOf
    <3> QED
      BY <3>5
  <2>3. Selected(disk)' = Selected(disk)
    BY <1>2, <1>3, <1>5 DEF Selected
  <2>4. \A p \in Profiles : Recorded(disk, p)' # {} => p \in Selected(disk)
    <3>1. \A p \in Profiles : Recorded(disk, p)' \subseteq Recorded(disk, p)
      BY <1>2, <1>5, SameSelections DEF Recorded
    <3> QED
      BY <3>1 DEF SelectionInv
  <2>5. InstalledIsSelected'
    BY <1>1, <2>3 DEF SelectionInv, InstalledIsSelected
  <2> QED
    BY <2>2, <2>3, <2>4, <2>5 DEF SelectionInv
<1>6. CASE SaveAs(AfterReadback, AfterReadbackCall, task) /\ \A p \in Selected(mem) : ReadBack(p)
  <2>1. \/ mem' = AfterReadback /\ disk' = AfterReadback /\ pc' = AfterReadbackCall
        \/ mem' = disk /\ disk' = disk /\ pc' = "recover"
    BY <1>1, <1>2, <1>6, SaveOutcome DEF IInv
  <2>2. CASE disk' = disk /\ pc' = "recover"
    BY <1>1, <2>2, KeptSelection
  <2> QED
    BY <1>5, <1>6, <2>1, <2>2
<1> QED
  BY <1>4, <1>5, <1>6, ReadbackForms DEF state

\* Operations up to their first call, and the actions of the environment.
LEMMA OtherSelection ==
    ASSUME IInv, IdentityInv, SelectionInv,
           \/ CheckStart \/ Continue \/ Recover \/ User \/ Environment \/ UNCHANGED vars
    PROVE  SelectionInv'
<1>1. ASSUME UNCHANGED <<mem, disk, of, installed>>, pc' = pc \/ pc' # "activate"
      PROVE  SelectionInv'
  BY <1>1, KeptSelection
<1>2. CASE CheckStart \/ Recover
  BY <1>1, <1>2 DEF CheckStart, Recover, state, system
<1>3. CASE Continue
  <2>1. UNCHANGED <<mem, disk, of, installed>> /\ pc' = AfterWithdrawal(mem)
    BY <1>3 DEF Continue, Go, state, system
  <2>2. AfterWithdrawal(mem) # "activate"
    BY DEF AfterWithdrawal
  <2> QED
    BY <1>1, <2>1, <2>2
<1>4. ASSUME NEW p \in Profiles, PrepareStart(p) PROVE SelectionInv'
  <2> DEFINE call == [op |-> "prepare", profile |-> p, todo |-> {}]
             s == [mem EXCEPT !.sel[p].policy = granted[p]]
  <2>1. CASE pc' = "identity" /\ UNCHANGED <<state, granted>>
    BY <1>1, <1>4, <2>1 DEF PrepareStart, state, system
  <2>2. CASE p \notin Selected(mem) /\ SaveAs(s, "identity", call)
    <3>1. call \in Task /\ "identity" \in Calls /\ installed' = installed
      BY <1>4 DEF Task, Calls, PrepareStart, system
    <3>2. /\ s \in State /\ s.sel[p].policy = granted[p]
          /\ \A q \in Profiles \ {p} : s.sel[q] = mem.sel[q]
      BY PreparedTyped DEF IInv
    <3>3. granted[p] # None
      BY <1>4 DEF PrepareStart, Authorised
    <3> HIDE DEF s, call
    <3>4. mem.sel = disk.sel
      BY SameSelections
    <3>5. Selected(s) = Selected(disk) \cup {p}
      BY <3>2, <3>3, <3>4 DEF Selected
    <3>6. \A q \in Profiles : Recorded(s, q) # {} => q \in Selected(s)
      BY <3>2, <3>4, <3>5 DEF SelectionInv, Recorded
    <3>7. \A q \in Profiles : installed'[q] # None => q \in Selected(disk)
      BY <3>1 DEF SelectionInv, InstalledIsSelected
    <3> QED
      BY <2>2, <3>1, <3>2, <3>5, <3>6, <3>7, SavedSelection
  <2> QED
    BY <1>4, <2>1, <2>2 DEF PrepareStart
<1>5. ASSUME NEW p \in Profiles, RemoveStart(p) PROVE SelectionInv'
  BY <1>1, <1>5 DEF RemoveStart, state, system
<1>6. ASSUME NEW p \in Profiles, Install(p) PROVE SelectionInv'
  <2>1. PICK e \in Recorded(mem, p) : installed' = [installed EXCEPT ![p] = e]
    BY <1>6 DEF Install
  <2>2. UNCHANGED <<mem, disk, pc, of>> /\ installed \in [Profiles -> Exports \cup {None}]
    BY <1>6 DEF Install, state, IInv, TypeOK
  <2>3. p \in Selected(disk) /\ p \in Selected(mem)
    BY <2>1, SameSelections DEF SelectionInv, Recorded
  <2>4. InstalledIsSelected'
    BY <2>1, <2>2, <2>3 DEF SelectionInv, InstalledIsSelected, Selected
  <2>5. ASSUME pc = "activate", NEW q \in Selected(mem) PROVE ForPending(mem, q)'
    <3>1. IdOf(installed'[q]) = mem.pending
      BY <2>1, <2>2, <2>3, <2>5 DEF SelectionInv, ForPending, Selected
    <3>2. \A x : IdOf(x)' = IdOf(x)
      BY <2>2 DEF IdOf
    <3> QED
      BY <2>2, <2>5, <3>1, <3>2 DEF SelectionInv, ForPending, Recorded, IdOf
  <2> QED
    BY <2>2, <2>4, <2>5 DEF SelectionInv, Selected, Recorded
<1>7. CASE User
  BY <1>4, <1>5, <1>6, <1>7 DEF User
<1>8. CASE Observe \/ Restart
  <2>1. /\ disk' \in {mem, disk} /\ UNCHANGED <<of, installed>>
        /\ pc' # "activate"
    BY <1>8 DEF Observe, Restart, system
  <2>2. disk'.sel = disk.sel
    BY <2>1, SameSelections
  <2> QED
    BY <2>1, <2>2 DEF SelectionInv, InstalledIsSelected, Selected, Recorded
<1>9. CASE Withhold \/ Rotate \/ Heal \/ \E id \in Ids : Age(id)
  BY <1>1, <1>9 DEF Withhold, Rotate, Heal, Age, state, system
<1>10. CASE UNCHANGED vars
  BY <1>1, <1>10 DEF vars
<1> QED
  BY <1>2, <1>3, <1>7, <1>8, <1>9, <1>10 DEF Environment

LEMMA SelectionInvariant == Spec => [](IInv /\ IdentityInv /\ SelectionInv)
<1>1. Init => SelectionInv
  BY DEF Init, SelectionInv, InstalledIsSelected, EmptyState, NotSelected, Recorded
<1>2. ASSUME IInv, IdentityInv, SelectionInv, [Next]_vars PROVE SelectionInv'
  <2>1. CASE Remove
    BY <1>2, <2>1, RemovalSelection DEF Remove
  <2>2. ASSUME NEW p \in Profiles, Withdraw(p) PROVE SelectionInv'
    BY <1>2, <2>2, RemovalSelection DEF Withdraw
  <2> QED
    BY <1>2, <2>1, <2>2, IdentitySelection, StageSelection, ReadbackSelection,
       OtherSelection DEF Next, Step
<1> QED
  BY <1>1, <1>2, IdentityInvariant, PTL DEF Spec

(* The profile goes before the record of its selection, also when the save    *)
(* fails and memory falls back to the file: whatever is installed can still    *)
(* be removed by a profile identifier of the file (Remove, detachSelection).    *)
THEOREM InstalledIsAlwaysSelected == Spec => []InstalledIsSelected
<1>1. SelectionInv => InstalledIsSelected
  BY DEF SelectionInv
<1> QED
  BY <1>1, SelectionInvariant, PTL

(* Check activates a new identity only after every selected network has a     *)
(* profile for it installed, whatever is installed, withdrawn or restarted     *)
(* between the readback and the activation (checkLocked, activate).            *)
THEOREM InstalledBeforeActivation == Spec => ActivatedWhenInstalled
<1>1. ASSUME [Next]_vars, current' # current, current' # None PROVE Activate
  <2>1. ASSUME NEW p, NEW next, RemoveProfile(p, next) PROVE UNCHANGED current
    BY <2>1 DEF RemoveProfile
  <2>2. Remove \/ (\E p \in Profiles : Withdraw(p)) => UNCHANGED current
    BY <2>1 DEF Remove, Withdraw
  <2>3. Continue \/ Identity \/ Key \/ Issue \/ StageStep \/ Readback \/ Cleanup \/ Recover
           => UNCHANGED current
    BY DEF Continue, Identity, Key, Issue, StageStep, Readback, Cleanup, Recover
  <2>4. CheckStart \/ User => UNCHANGED current
    BY DEF CheckStart, User, PrepareStart, RemoveStart, Install
  <2>5. Environment => current' = current \/ current' = None
    BY DEF Environment, Observe, Withhold, Rotate, Restart, Heal, Age
  <2> QED
    BY <1>1, <2>2, <2>3, <2>4, <2>5 DEF Next, Step, vars
<1>2. ASSUME IInv, IdentityInv, SelectionInv, Activate, current' # current
      PROVE  \A p \in Selected(disk) : IdOf(installed[p]) = current'
  <2>1. current' = mem.pending /\ pc = "activate"
    BY <1>2 DEF Activate, ControlActivates
  <2> QED
    BY <1>2, <2>1, SameSelections DEF SelectionInv, ForPending
<1>3. IInv /\ IdentityInv /\ SelectionInv /\ [Next]_vars
          => [current' # current /\ current' # None =>
                 \A p \in Selected(disk) : IdOf(installed[p]) = current']_vars
  BY <1>1, <1>2
<1> QED
  BY <1>3, SelectionInvariant, PTL DEF Spec, ActivatedWhenInstalled
=============================================================================
