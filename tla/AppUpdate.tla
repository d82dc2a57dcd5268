----------------------------- MODULE AppUpdate -----------------------------
(***************************************************************************)
(* Updates of the application (runtime.go, update_provider.go): checks of   *)
(* the user and of a timer, and an install, share one lock; the manifest,   *)
(* its signature and the assets are separate files of a mirror that may lag *)
(* behind what is published.                                                *)
(***************************************************************************)
EXTENDS Naturals

CONSTANTS MaxVersion,  \* bound on the published versions
          None

Versions == 1..MaxVersion

VARIABLES
    pc, op,      \* the step of the request that holds checkMu: "check" or "install"
    manifest,    \* the manifest it fetched
    asked,       \* an install that read "self" (runtime.go:286) and has to try the lock
    candidate,   \* the release its check found, with a delta or without
    delivered,   \* what the provider hands to the updater
    status,      \* runtimeAPI.status: how to install, and what
    installed,   \* the running version
    executable,  \* the content of its file: the version's, or 0
    published,   \* how each signed version is to be installed
    writable,    \* the executable can be replaced
    platform     \* "darwin" or "windows"

world == <<installed, executable, published, writable, platform>>
vars == <<pc, op, asked, manifest, candidate, delivered, status, world>>

Signed == {v \in Versions : published[v] # None}
Idle(s) == pc' = "idle" /\ status' = s /\ candidate' = None /\ delivered' = None

-----------------------------------------------------------------------------
\* An install goes by what the last check had found when it asks, which another
\* check may replace before it has the lock.
Ask ==
    /\ ~asked /\ status.mode = "self" /\ asked' = TRUE
    /\ UNCHANGED <<pc, op, manifest, candidate, delivered, status, world>>

Start(o) ==
    /\ pc = "idle" /\ op' = o /\ pc' = "manifest"
    /\ IF o = "install" THEN asked /\ asked' = FALSE ELSE UNCHANGED asked
    /\ UNCHANGED <<manifest, candidate, delivered, status, world>>

\* While another request holds the lock, both answer with the status as it is.
Busy ==
    /\ asked /\ pc # "idle" /\ asked' = FALSE
    /\ UNCHANGED <<pc, op, manifest, candidate, delivered, status, world>>

Mode(v) == IF published[v] = "self" /\ writable THEN "self" ELSE "external"
Found(v) == [mode |-> Mode(v), available |-> v]
Default == IF platform = "darwin" THEN "self" ELSE "external"
NotFound == [mode |-> Default, available |-> None]

Fetch ==
    /\ pc = "manifest"
    /\ \/ manifest' \in Signed /\ pc' = "signature" /\ UNCHANGED <<candidate, delivered, status>>
       \/ Idle(status) /\ UNCHANGED manifest
    /\ UNCHANGED <<op, asked, world>>

\* The release of a check: of the same platform, channel and schema, and a delta
\* if the executable is the one it was made from.
Release(v) ==
    IF op = "check" THEN Idle(Found(v))
    ELSE /\ \E d \in {FALSE, platform = "windows" /\ executable = installed} :
                 candidate' = [version |-> v, delta |-> d]
         /\ pc' = IF candidate'.delta THEN "delta" ELSE "full"
         /\ UNCHANGED <<delivered, status>>

Check ==
    /\ pc = "signature"
    /\ \/ \E signature \in Signed :
             CASE signature # manifest \/ manifest < installed -> Idle(status)
               [] signature = manifest /\ manifest = installed ->
                    Idle(IF op = "check" THEN NotFound ELSE status)
               [] OTHER -> Release(manifest)
       \/ Idle(status)
    /\ UNCHANGED <<op, asked, manifest, world>>

-----------------------------------------------------------------------------
\* A patch yields its version only on the executable it was made from.
Patched == IF executable = installed THEN candidate.version ELSE 0

DeltaUnverified ==    \* mutant: the patched executable is not compared
    /\ pc = "delta" /\ pc' = "replace" /\ delivered' = Patched
    /\ UNCHANGED <<op, asked, manifest, candidate, status, world>>

\* applyDelta: any failure falls back to the full asset.
Delta ==
    /\ pc = "delta"
    /\ \/ Patched = candidate.version /\ delivered' = Patched /\ pc' = "replace"
       \/ pc' = "full" /\ UNCHANGED delivered
    /\ UNCHANGED <<op, asked, manifest, candidate, status, world>>

\* The mirror answers with the asset, with another one, or not at all.
Full ==
    /\ pc = "full"
    /\ \/ delivered' = candidate.version /\ pc' = "replace" /\ UNCHANGED <<candidate, status>>
       \/ Idle(status)
    /\ UNCHANGED <<op, asked, manifest, world>>

\* The updater replaces the executable and starts it; or it fails.
Replace ==
    /\ pc = "replace"
    /\ \/ /\ writable /\ executable' = delivered
          /\ installed' = candidate.version /\ Idle(NotFound) /\ asked' = FALSE
       \/ Idle(status) /\ UNCHANGED <<installed, executable, asked>>
    /\ UNCHANGED <<op, manifest, published, writable, platform>>

-----------------------------------------------------------------------------
Publish(v, mode) ==
    /\ v \in Versions \ Signed /\ published' = [published EXCEPT ![v] = mode]
    /\ UNCHANGED <<pc, op, asked, manifest, candidate, delivered, status, installed, executable,
                   writable, platform>>

\* The executable is changed by another program, or its permissions are.
Change == /\ \/ executable' \in {installed, 0} /\ UNCHANGED writable
             \/ writable' = ~writable /\ UNCHANGED executable
          /\ UNCHANGED <<pc, op, asked, manifest, candidate, delivered, status, installed, published, platform>>

Init ==
    /\ pc = "idle" /\ op = "check" /\ asked = FALSE
    /\ manifest = None /\ candidate = None /\ delivered = None
    /\ installed \in Versions /\ executable = installed
    /\ published = [v \in Versions |-> IF v = installed THEN "self" ELSE None]
    /\ writable = TRUE /\ platform \in {"darwin", "windows"} /\ status = NotFound

Next == \/ Ask \/ Busy \/ Fetch \/ Check \/ Delta \/ Full \/ Replace \/ Change
        \/ \E o \in {"check", "install"} : Start(o)
        \/ \E v \in Versions, mode \in {"self", "external"} : Publish(v, mode)

Spec == Init /\ [][Next]_vars

-----------------------------------------------------------------------------
(* Types, and what the provider has verified so far.                          *)
TypeOK ==
    /\ pc \in {"idle", "manifest", "signature", "delta", "full", "replace"}
    /\ op \in {"check", "install"} /\ asked \in BOOLEAN
    /\ manifest \in Versions \cup {None} /\ delivered \in Versions \cup {None}
    /\ candidate \in [version : Versions, delta : BOOLEAN] \cup {None}
    /\ status \in [mode : {"self", "external"}, available : Versions \cup {None}]
    /\ installed \in Versions /\ executable \in Versions \cup {0}
    /\ published \in [Versions -> {"self", "external", None}]
    /\ writable \in BOOLEAN /\ platform \in {"darwin", "windows"}

\* A candidate is a signed successor of the running version, and what is handed
\* over is its content.
CandidateInv ==
    /\ pc = "signature" => manifest \in Signed
    /\ pc \in {"delta", "full", "replace"} =>
          /\ candidate \in [version : Signed, delta : BOOLEAN]
          /\ candidate.version > installed
    /\ pc = "replace" => delivered = candidate.version

-----------------------------------------------------------------------------
(* The application is replaced only by the content of a newer signed version,  *)
(* though the executable changes between the check of a delta's base and its   *)
(* patching, and the mirror answers with a manifest it had before.             *)
OnlySignedSuccessors ==
    [][installed' # installed => /\ installed' > installed /\ installed' \in Signed
                                 /\ executable' = installed']_vars

(* What is to be installed by other means is not installed by the application. *)
ExternalIsNotInstalled ==
    [][installed' # installed => published[installed'] = "self"]_vars
=============================================================================
