--------------------------- MODULE DesktopSession ---------------------------
(***************************************************************************)
(* The session of the desktop application (proxy.go, session_credentials.go, *)
(* desktop_auth.go, config.go): concurrent handlers of the webview's         *)
(* requests share the target, the pending switch, the block on credentials,  *)
(* the keyring and the configuration file.  Answers of the server come late  *)
(* and in any order.  A token is [server, session, turn]: a login begins a   *)
(* session, a refresh its next turn.                                        *)
(***************************************************************************)
EXTENDS Naturals

CONSTANTS
    Servers,
    Requests,     \* handlers that can run at once
    MaxTokens,    \* bound on refresh tokens issued by the servers
    MaxEpoch,     \* bound on the targets stored since the application started
    None

ASSUME SessionAssumption ==
    None \notin Servers \cup [server : Servers, session : Nat, turn : Nat]
                     \cup [token : [server : Servers, session : Nat, turn : Nat], epoch : Nat]

VARIABLES
    running,
    target, epoch,   \* h.target: the server, and which pointer it is
    managed,         \* h.locked: the server is given by the environment
    blocked,         \* h.credentialsBlocked
    pending,         \* h.pending
    requests,        \* handlers under way
    ring,            \* the keyring: a refresh token for each server, or None
    saved, unsaved,  \* the configuration file; whether its last write failed
    issued,          \* tokens issued so far, by any server
    current,         \* the last token the webview was given, and its epoch
    ended,           \* sessions cleared, logged out, refused, replaced or switched away from
    faulty           \* what may fail: "keyring", "file"

memory == <<running, target, epoch, managed, blocked, pending>>
session == <<blocked, ring, saved, unsaved, current, ended>>
vars == <<memory, requests, ring, saved, unsaved, issued, current, ended, faulty>>

-----------------------------------------------------------------------------
Idle == [step |-> "idle", kind |-> None, server |-> None, epoch |-> 0,
         cookie |-> None, answer |-> None]

Targeted(r) == requests[r].epoch = epoch
At(r, step) == running /\ requests[r].step = step
Move(r, step) == requests' = [requests EXCEPT ![r].step = step]
Finish(r) == requests' = [requests EXCEPT ![r] = Idle]

\* Save: a failure leaves the old file, or the new one whose directory was not synced.
Save(server, block) ==
    LET new == [server |-> server, blocked |-> block]
    IN  \/ saved' = new /\ unsaved' = FALSE
        \/ "file" \in faulty /\ saved' \in {saved, new} /\ unsaved' = TRUE

\* replaceRefreshCredentialLocked: a credential that cannot be written is removed.
Replace(server, token) ==
    ring' \in {[ring EXCEPT ![server] = t] :
                  t \in {token} \cup (IF "keyring" \in faulty THEN {None, ring[server]} ELSE {})}

Delete(server) ==
    ring' \in {[ring EXCEPT ![server] = t] :
                  t \in {None} \cup (IF "keyring" \in faulty THEN {ring[server]} ELSE {})}

\* What a read of the keyring gives: an unreadable one counts as empty.
Stored(server) == {ring[server]} \cup (IF "keyring" \in faulty THEN {None} ELSE {})

\* The session in use: the one the webview was given, and the stored one.
Present == {t.session : t \in ({ring[target]} \cup (IF current = None THEN {} ELSE {current.token}))
                               \ {None}}

\* Those that a refresh under way may still continue.
Refreshing == {requests[r].cookie.session :
                  r \in {q \in Requests : requests[q].kind = "refresh" /\ requests[q].cookie # None}}

-----------------------------------------------------------------------------
(* The answers that change the session, each under sessionMu.               *)

\* persistAuthenticatedLocked
Persist(r, token) ==
    /\ Replace(requests[r].server, token)
    /\ Save(requests[r].server, FALSE)
    /\ blocked' = FALSE
    /\ current' = [token |-> token, epoch |-> requests[r].epoch]

MarkAuthenticatedOfServer(r) ==
    IF requests[r].server = target
    THEN Persist(r, requests[r].answer) /\ ended' = ended \cup Present
    ELSE UNCHANGED session

\* markAuthenticated: a login counts for the target it was sent to.
MarkAuthenticated(r) ==
    IF Targeted(r)
    THEN /\ Persist(r, requests[r].answer)
         /\ ended' = ended \cup Present
    ELSE UNCHANGED session

MarkRefreshedAnyway(r) ==
    IF Targeted(r) /\ ~blocked
    THEN Persist(r, requests[r].answer) /\ UNCHANGED ended
    ELSE UNCHANGED session

\* markRefreshed: unless the session was ended or replaced in the meantime.
MarkRefreshed(r) ==
    \E stored \in Stored(requests[r].server) :
        IF /\ Targeted(r) /\ ~blocked
           /\ requests[r].cookie = None \/ stored \in {None, requests[r].cookie}
        THEN Persist(r, requests[r].answer) /\ UNCHANGED ended
        ELSE UNCHANGED session

\* blockSession: the credential is removed and the block recorded, whichever fails.
BlockSession(server, mine, rejected) ==
    \E stored \in Stored(server) :
        IF ~mine \/ (rejected # None /\ stored \notin {None, rejected})
        THEN UNCHANGED session
        ELSE /\ Delete(server)
             /\ Save(server, TRUE)
             /\ blocked' = TRUE
             /\ ended' = ended \cup Present /\ current' = None

-----------------------------------------------------------------------------
(* A request of the webview: handleAPI refuses it while a switch is pending, *)
(* and binds it to the target.  (A request bound later than it was admitted  *)
(* is one admitted before the switch was pending, or after it was activated.) *)

Kinds == {"login", "browser", "refresh", "logout"}

Ask(r, kind) ==
    /\ At(r, "idle") /\ pending = None
    /\ kind = "browser" => \A q \in Requests : requests[q].kind # "browser"
    /\ \E cookie \in {None} \cup (IF current = None \/ kind \in {"login", "browser"}
                               THEN {} ELSE {current.token}) :
          requests' = [requests EXCEPT ![r] =
             [step |-> "bound", kind |-> kind, server |-> target, epoch |-> epoch,
              cookie |-> cookie, answer |-> None]]
    /\ UNCHANGED <<memory, ring, saved, unsaved, issued, current, ended, faulty>>

\* injectStoredRefreshCredential
Injected(r) ==
    IF blocked \/ ~Targeted(r) \/ requests[r].kind = "login"
    THEN {None} ELSE Stored(requests[r].server)

\* Rewrite: nothing is sent while credentials are blocked; the webview's cookie
\* goes before the stored credential.
Send(r) ==
    /\ At(r, "bound") /\ requests[r].kind # "browser"
    /\ \E cookie \in IF blocked \/ requests[r].cookie = None THEN Injected(r)
                    ELSE {requests[r].cookie} :
          requests' = [requests EXCEPT ![r].step = "sent", ![r].cookie = cookie]
    /\ UNCHANGED <<memory, ring, saved, unsaved, issued, current, ended, faulty>>

\* handleDesktopAuth: the callback of the browser comes back to another target.
Callback(r) ==
    /\ At(r, "bound") /\ requests[r].kind = "browser"
    /\ IF Targeted(r) THEN Move(r, "sent") ELSE Finish(r)
    /\ UNCHANGED <<memory, ring, saved, unsaved, issued, current, ended, faulty>>

NewToken(r) ==
    LET n == issued + 1 IN
    [server |-> requests[r].server, turn |-> n,
     session |-> IF requests[r].kind = "refresh" THEN requests[r].cookie.session ELSE n]

\* The server answers with a token.
Serve(r) ==
    /\ At(r, "sent") /\ requests[r].kind # "logout" /\ issued < MaxTokens
    /\ requests[r].kind = "refresh" => requests[r].cookie # None
    /\ issued' = issued + 1
    /\ requests' = [requests EXCEPT ![r].step = "answered", ![r].answer = NewToken(r)]
    /\ UNCHANGED <<memory, ring, saved, unsaved, current, ended, faulty>>

\* A refused login, a timeout, a cancelled or broken request: nothing is read from it.
Drop(r) ==
    /\ running /\ requests[r].step \notin {"idle", "forget"}
    /\ Finish(r)
    /\ UNCHANGED <<memory, ring, saved, unsaved, issued, current, ended, faulty>>

\* modifyProxyResponse and the end of handleDesktopAuth; a refresh without an
\* answer was refused.
Receive(r) ==
    /\ At(r, "answered") \/ (At(r, "sent") /\ requests[r].kind \in {"refresh", "logout"})
    /\ LET q == requests[r] IN
       CASE q.kind \in {"login", "browser"}      -> MarkAuthenticated(r)
         [] q.kind = "logout"                    -> BlockSession(q.server, Targeted(r), None)
         [] q.kind = "refresh" /\ q.answer = None -> BlockSession(q.server, Targeted(r), q.cookie)
         [] OTHER                                -> MarkRefreshed(r)
    /\ Finish(r)
    /\ UNCHANGED <<running, target, epoch, managed, pending, issued, faulty>>

\* handleSessionClear
Clear ==
    /\ running
    /\ BlockSession(target, TRUE, None)
    /\ UNCHANGED <<running, target, epoch, managed, pending, requests, issued, faulty>>

-----------------------------------------------------------------------------
(* Another server: the switch is prepared while the old target is probed and *)
(* logged out, and activated by the webview with the token it was answered.  *)

Switch(r) ==
    /\ At(r, "idle") /\ ~managed
    /\ requests' = [requests EXCEPT ![r].step = "probing", ![r].kind = "switch",
                       ![r].server = target, ![r].epoch = epoch]
    /\ UNCHANGED <<memory, ring, saved, unsaved, issued, current, ended, faulty>>

Prepare(r) ==
    /\ At(r, "probing")
    /\ IF pending = None /\ Targeted(r)
       THEN pending' \in Servers /\ Move(r, "forget")
       ELSE Finish(r) /\ UNCHANGED pending
    /\ UNCHANGED <<running, target, epoch, managed, blocked, ring, saved, unsaved, issued,
                   current, ended, faulty>>

\* logoutOldServer waits for at most three seconds and ignores the answer.  The
\* session is not blocked: a refresh that is under way is not refused by that,
\* and no longer by the credential it is compared with.
Forget(r) ==
    /\ At(r, "forget")
    /\ Delete(requests[r].server)
    /\ Finish(r) /\ current' = None
    /\ ended' = (ended \cup Present) \ Refreshing
    /\ UNCHANGED <<memory, saved, unsaved, issued, faulty>>

ActivateUnblocked ==
    /\ running /\ pending # None /\ epoch < MaxEpoch
    /\ \A r \in Requests : requests[r].step # "forget"
    /\ Save(pending, blocked)
    /\ IF unsaved' THEN UNCHANGED <<target, epoch>>
                   ELSE target' = pending /\ epoch' = epoch + 1
    /\ blocked' = TRUE /\ pending' = None /\ current' = None
    /\ UNCHANGED <<running, managed, requests, ring, issued, ended, faulty>>

Activate ==
    /\ running /\ pending # None /\ epoch < MaxEpoch
    /\ \A r \in Requests : requests[r].step # "forget"
    /\ Save(pending, TRUE)
    /\ IF unsaved' THEN UNCHANGED <<target, epoch>>
                   ELSE target' = pending /\ epoch' = epoch + 1
    /\ blocked' = TRUE /\ pending' = None /\ current' = None
    /\ UNCHANGED <<running, managed, requests, ring, issued, ended, faulty>>

-----------------------------------------------------------------------------
(* The application stops at any time, and starts with the server of the      *)
(* environment or with the saved one.                                        *)

Quit ==
    /\ running
    /\ running' = FALSE
    /\ requests' = [r \in Requests |-> Idle] /\ pending' = None
    /\ blocked' = FALSE /\ current' = None /\ epoch' = 1
    /\ UNCHANGED <<target, managed, ring, saved, unsaved, issued, ended, faulty>>

\* initialServerConfiguration
Start ==
    /\ ~running /\ running' = TRUE
    /\ \/ /\ managed' = FALSE /\ target' = saved.server /\ blocked' = saved.blocked
       \/ /\ managed' = TRUE /\ target' \in Servers
          /\ blocked' = (saved = [server |-> target', blocked |-> TRUE])
    /\ unsaved' = FALSE
    /\ UNCHANGED <<epoch, pending, requests, ring, saved, issued, current, ended, faulty>>

Failing == {"keyring", "file"}

Init ==
    /\ faulty \in SUBSET Failing
    /\ running = FALSE /\ target \in Servers /\ epoch = 1 /\ managed = FALSE
    /\ blocked = FALSE /\ pending = None
    /\ requests = [r \in Requests |-> Idle]
    /\ ring = [s \in Servers |-> None]
    /\ saved \in [server : Servers, blocked : {FALSE}] /\ unsaved = FALSE
    /\ issued = 0 /\ current = None /\ ended = {}

Next ==
    \/ Quit \/ Start \/ Clear \/ Activate
    \/ \E r \in Requests :
          \/ \E kind \in Kinds : Ask(r, kind)
          \/ Send(r) \/ Callback(r) \/ Serve(r) \/ Drop(r) \/ Receive(r)
          \/ Switch(r) \/ Prepare(r) \/ Forget(r)

Spec == Init /\ [][Next]_vars

-----------------------------------------------------------------------------
(* Types, and the inductive invariants behind the properties below.          *)

Steps == {"idle", "bound", "sent", "answered", "probing", "forget"}
Token == [server : Servers, session : Nat, turn : Nat]
Request == [step : Steps, kind : Kinds \cup {"switch", None}, server : Servers \cup {None},
            epoch : Nat, cookie : Token \cup {None}, answer : Token \cup {None}]

TypeOK ==
    /\ running \in BOOLEAN /\ managed \in BOOLEAN /\ blocked \in BOOLEAN
    /\ unsaved \in BOOLEAN /\ faulty \in SUBSET Failing
    /\ target \in Servers /\ pending \in Servers \cup {None}
    /\ epoch \in Nat \ {0} /\ issued \in Nat /\ ended \in SUBSET Nat
    /\ requests \in [Requests -> Request] /\ ring \in [Servers -> Token \cup {None}]
    /\ saved \in [server : Servers, blocked : BOOLEAN]
    /\ current \in [token : Token, epoch : Nat] \cup {None}

\* A handler that is bound to the present target works on its server.
TargetInv ==
    /\ ~running => current = None /\ \A r \in Requests : requests[r] = Idle
    /\ \A r \in Requests : requests[r].step = "answered" <=> requests[r].answer # None
    /\ \A r \in Requests : requests[r].step # "idle" => requests[r].server # None
    /\ \A r \in Requests : requests[r].epoch <= epoch
    /\ \A r \in Requests : Targeted(r) => requests[r].server = target
    /\ \A r \in Requests : requests[r].step = "forget" => Targeted(r)
    /\ current # None => current.epoch = epoch

\* The tokens there are, and where those of one session can be.
Tokens == ({ring[s] : s \in Servers} \cup {requests[r].cookie : r \in Requests}
           \cup {requests[r].answer : r \in Requests}
           \cup (IF current = None THEN {} ELSE {current.token})) \ {None}

Opening(r) == requests[r].answer # None /\ requests[r].kind # "refresh"

RequestInv(q) ==
    /\ IF q.step \in {"bound", "sent", "answered"} THEN q.kind \in Kinds ELSE q.cookie = None
    /\ q.cookie # None => q.cookie.server = q.server
    /\ q.answer # None => q.answer.server = q.server /\ q.kind # "logout"
    /\ q.kind = "refresh" /\ q.answer # None =>
           q.cookie # None /\ q.answer.session = q.cookie.session

TokenInv ==
    /\ \A t \in Tokens : t.session <= issued
    /\ \A n \in ended : n <= issued
    /\ \A t, u \in Tokens : t.session = u.session => t.server = u.server
    /\ \A s \in Servers : ring[s] # None => ring[s].server = s
    /\ current # None => current.token.server = target
    /\ \A r \in Requests : RequestInv(requests[r])

\* The session that a login has opened but not yet begun is nowhere else.
OpeningInv ==
    \A r \in Requests : Opening(r) => LET n == requests[r].answer.session IN
        /\ n \notin ended
        /\ current # None => current.token.session # n
        /\ \A s \in Servers : ring[s] # None => ring[s].session # n
        /\ \A q \in Requests : requests[q].cookie # None => requests[q].cookie.session # n
        /\ \A q \in Requests \ {r} : requests[q].answer # None => requests[q].answer.session # n

\* While the keyring works no stored session is an ended one, and where it is
\* empty no handler can bring one back.
EndedInv ==
    "keyring" \notin faulty =>
        /\ \A s \in Servers : ring[s] # None => ring[s].session \notin ended
        /\ running /\ ~blocked /\ ring[target] = None =>
              /\ current # None => current.token.session \notin ended
              /\ \A r \in Requests :
                    Targeted(r) /\ requests[r].kind = "refresh" /\ requests[r].cookie # None =>
                        requests[r].cookie.session \notin ended

-----------------------------------------------------------------------------
(* A session that was cleared, logged out, refused, replaced by a new login  *)
(* or left by a switch is not taken up again: not by a late answer, nor by a *)
(* restart, nor because the block could not be written to the file.  The     *)
(* keyring works, and a refresh that was under way when a switch deleted the *)
(* credential is excepted (session_credentials.go:144-184; SwitchForgets).   *)
EndedStaysOut ==
    running /\ "keyring" \notin faulty /\ ~blocked /\ ring[target] # None =>
        ring[target].session \notin ended

(* Credentials are released only by a login or refresh that was asked of the *)
(* target in force: not by a late answer of an earlier one, even of the same *)
(* server (proxy.go:758-769).                                               *)
UnblockedForTarget ==
    running /\ ~blocked /\ current # None => current.epoch = epoch

\* The file after a write that succeeded, and after any other: at least it does
\* not release credentials to another server than the one in force.
FileAgrees ==
    running /\ ~unsaved =>
        /\ blocked <=> saved = [server |-> target, blocked |-> TRUE]
        /\ ~managed => saved.server = target
FileKeepsServer == running /\ ~managed /\ ~saved.blocked => saved.server = target

(* Unless the last write of the configuration failed, a restart finds the    *)
(* block and the server as they were.  And whatever write failed, of a login, *)
(* a block or an activation, and whatever it left in the file: a restart      *)
(* without a server in the environment never sends stored credentials to     *)
(* another server than the one that was in force (proxy.go:376-412, where an  *)
(* activation records the block with the new server; main.go:194-209).       *)
RestartKeepsServer == FileAgrees /\ FileKeepsServer

(* Once a switch is activated, no credential of the server that was left is  *)
(* stored (proxy_test.go:572).                                              *)
SwitchForgets ==
    running /\ faulty = {} /\ ~managed =>
        \A s \in Servers \ {target} : ring[s] = None

=============================================================================
