--------------------------- MODULE SoftwareLibrary ---------------------------
(***************************************************************************)
(* The software library of the desktop host (software.go): requests look a   *)
(* package up in the catalog and try the lock, and the one that gets it has   *)
(* its package fetched, verified and opened by a goroutine while the catalog  *)
(* and the file behind it change.  A task is the one a request would start.  *)
(***************************************************************************)
EXTENDS Naturals

CONSTANTS Tasks,
          MaxVersion,  \* bound on the publications
          None

VARIABLES
    pc,        \* the step of each request and of its goroutine
    locked,    \* installMu
    artifact,  \* the version whose size and digest each was given, or 0
    fetched,   \* what is in its file: a version, or 0 when damaged
    tasks,     \* library.tasks
    kept,      \* the directories that remain: of each task "partial", "final" or None
    opened,    \* what the system installer was given, with what was asked for
    offered,   \* the version in the catalog
    served     \* the version behind its link

vars == <<pc, locked, artifact, fetched, tasks, kept, opened, offered, served>>

Steps == {"idle", "found", "download", "copy", "verify", "open", "unlock", "done"}
Unfinished == {"queued", "downloading", "verifying", "opening"}
Final == {"completed", "failed"}

\* updateTask
Update(t, state) == tasks' = [tasks EXCEPT ![t] = state]
Move(t, step) == pc' = [pc EXCEPT ![t] = step]

-----------------------------------------------------------------------------
(* install, by any number of requests at once.                              *)

\* The catalog is loaded before the lock: what it said may be old by then.  A
\* catalog that fails, and an unknown package, change nothing.
Lookup(t) ==
    /\ pc[t] = "idle" /\ Move(t, "found")
    /\ artifact' = [artifact EXCEPT ![t] = offered]
    /\ UNCHANGED <<locked, fetched, tasks, kept, opened, offered, served>>

\* errSoftwareInstallBusy
Refuse(t) ==
    /\ pc[t] = "found" /\ locked /\ Move(t, "idle")
    /\ artifact' = [artifact EXCEPT ![t] = 0]
    /\ UNCHANGED <<locked, fetched, tasks, kept, opened, offered, served>>

InstallAnyway(t) ==   \* mutant: the lock is not tried
    /\ pc[t] = "found" /\ Move(t, "download")
    /\ locked' = TRUE /\ Update(t, "queued")
    /\ UNCHANGED <<artifact, fetched, kept, opened, offered, served>>

\* The task is there before its goroutine is.
Install(t) ==
    /\ pc[t] = "found" /\ ~locked /\ Move(t, "download")
    /\ locked' = TRUE /\ Update(t, "queued")
    /\ UNCHANGED <<artifact, fetched, kept, opened, offered, served>>

-----------------------------------------------------------------------------
(* runInstall, by the goroutine.                                            *)

\* The directory of a download that fails goes with it.
Discard(t) == kept' = [kept EXCEPT ![t] = None]

FailQuietly(t) ==   \* mutant: the task is left as it was
    Move(t, "unlock") /\ Discard(t) /\ UNCHANGED tasks

Fail(t) == Move(t, "unlock") /\ Discard(t) /\ Update(t, "failed")

\* The directory and the request.
Request(t) ==
    /\ pc[t] = "download"
    /\ \/ Move(t, "copy") /\ Update(t, "downloading")
          /\ kept' = [kept EXCEPT ![t] = "partial"]
       \/ Fail(t)
    /\ UNCHANGED <<locked, artifact, fetched, opened, offered, served>>

\* The body: whole, of the size the artifact has or another.
Copy(t) ==
    /\ pc[t] = "copy"
    /\ \/ Move(t, "verify") /\ Update(t, "verifying") /\ UNCHANGED kept
          /\ \E body \in {served, 0} : fetched' = [fetched EXCEPT ![t] = body]
       \/ Fail(t) /\ UNCHANGED fetched
    /\ UNCHANGED <<locked, artifact, opened, offered, served>>

Verify(t) ==
    /\ pc[t] = "verify"
    /\ \/ /\ fetched[t] = artifact[t]
          /\ Move(t, "open") /\ Update(t, "opening")
          /\ kept' = [kept EXCEPT ![t] = "final"]
       \/ Fail(t)
    /\ UNCHANGED <<locked, artifact, fetched, opened, offered, served>>

\* The installer opens, or does not; the file stays.
Open(t) ==
    /\ pc[t] = "open" /\ Move(t, "unlock")
    /\ \/ Update(t, "completed") /\ opened' = opened \cup {<<fetched[t], artifact[t]>>}
       \/ Update(t, "failed") /\ UNCHANGED opened
    /\ UNCHANGED <<locked, artifact, fetched, kept, offered, served>>

\* The deferred unlock, after the last state of the task.
Unlock(t) ==
    /\ pc[t] = "unlock" /\ Move(t, "done") /\ locked' = FALSE
    /\ artifact' = [artifact EXCEPT ![t] = 0] /\ fetched' = [fetched EXCEPT ![t] = 0]
    /\ UNCHANGED <<tasks, kept, opened, offered, served>>

-----------------------------------------------------------------------------
\* The server publishes a version: its file and its catalog entry change one
\* after the other, in either order.
Publish ==
    /\ \/ served < MaxVersion /\ served <= offered /\ served' = served + 1 /\ UNCHANGED offered
       \/ offered < MaxVersion /\ offered <= served /\ offered' = offered + 1 /\ UNCHANGED served
    /\ UNCHANGED <<pc, locked, artifact, fetched, tasks, kept, opened>>

Init ==
    /\ pc = [t \in Tasks |-> "idle"] /\ locked = FALSE
    /\ artifact = [t \in Tasks |-> 0] /\ fetched = [t \in Tasks |-> 0]
    /\ tasks = [t \in Tasks |-> None] /\ kept = [t \in Tasks |-> None]
    /\ opened = {} /\ offered = 1 /\ served = 1

Run(t) == Request(t) \/ Copy(t) \/ Verify(t) \/ Open(t) \/ Unlock(t)
Next == Publish \/ \E t \in Tasks : Lookup(t) \/ Refuse(t) \/ Install(t) \/ Run(t)

Spec == Init /\ [][Next]_vars

-----------------------------------------------------------------------------
(* Types, and what the task that runs holds.                                 *)
TypeOK ==
    /\ pc \in [Tasks -> Steps] /\ locked \in BOOLEAN
    /\ artifact \in [Tasks -> Nat] /\ fetched \in [Tasks -> Nat]
    /\ offered \in Nat /\ served \in Nat
    /\ tasks \in [Tasks -> Unfinished \cup Final \cup {None}]
    /\ kept \in [Tasks -> {None, "partial", "final"}] /\ opened \in SUBSET (Nat \X Nat)

\* A goroutine holds the lock from its task's first state to beyond its last;
\* what is about to be opened was compared with its artifact.
TaskInv ==
    /\ \A t \in Tasks : pc[t] \notin {"idle", "found", "done"} =>
          locked /\ \A u \in Tasks \ {t} : pc[u] \in {"idle", "found", "done"}
    /\ \A t \in Tasks : tasks[t] \in Unfinished => pc[t] \in {"download", "copy", "verify", "open"}
    /\ \A t \in Tasks : pc[t] = "open" => fetched[t] = artifact[t]
    /\ \A t \in Tasks : kept[t] = "partial" => pc[t] \in {"copy", "verify"}

-----------------------------------------------------------------------------
(* The installer is opened only with the package its catalog entry described,  *)
(* whatever is published between the catalog, the lock and the download.      *)
OpenedIsVerified == \A o \in opened : o[1] = o[2]

(* Requests that come at once start one installation: while its task is not   *)
(* final it is the only one and the library is busy, and a directory with a   *)
(* part of a package is of no other (software.go:321-336, 386-391).           *)
OneInstallation ==
    /\ \A t \in Tasks : tasks[t] \in Unfinished => locked
    /\ \A t, u \in Tasks : tasks[t] \in Unfinished /\ (tasks[u] \in Unfinished \/ kept[u] = "partial")
                           => t = u
=============================================================================
