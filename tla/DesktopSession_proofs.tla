------------------------ MODULE DesktopSession_proofs ------------------------
(***************************************************************************)
(* What the desktop host owes to a session, for any servers, any number of  *)
(* concurrent requests and any order of the answers.                        *)
(***************************************************************************)
EXTENDS DesktopSession, TLAPS

\* None is neither a server nor a token nor what the webview was given.
LEMMA NoneIsNothing ==
    /\ None \notin Servers /\ None \notin Token
    /\ \A t \in Token, e \in Nat : [token |-> t, epoch |-> e] # None
BY SessionAssumption DEF Token

-----------------------------------------------------------------------------
(* The writes of the keyring and of the configuration file.                 *)

\* replaceRefreshCredentialLocked touches the credential of one server.
LEMMA ReplaceTyped ==
    ASSUME TypeOK, NEW s \in Servers, NEW t \in Token, Replace(s, t)
    PROVE  /\ ring' \in [Servers -> Token \cup {None}]
           /\ \A u \in Servers \ {s} : ring'[u] = ring[u]
           /\ ring'[s] \in {t, None, ring[s]}
           /\ "keyring" \notin faulty => ring'[s] = t
BY DEF TypeOK, Replace

\* So does its removal.
LEMMA DeleteTyped ==
    ASSUME TypeOK, NEW s \in Servers, Delete(s)
    PROVE  /\ ring' \in [Servers -> Token \cup {None}]
           /\ \A u \in Servers \ {s} : ring'[u] = ring[u]
           /\ ring'[s] \in {None, ring[s]}
           /\ "keyring" \notin faulty => ring'[s] = None
BY DEF TypeOK, Delete

\* Save tells when the file is not known to be the new one.
LEMMA SaveTyped ==
    ASSUME TypeOK, NEW s \in Servers, NEW b \in BOOLEAN, Save(s, b)
    PROVE  /\ saved' \in [server : Servers, blocked : BOOLEAN]
           /\ unsaved' \in BOOLEAN
           /\ ~unsaved' => saved' = [server |-> s, blocked |-> b]
           /\ saved' \in {saved, [server |-> s, blocked |-> b]}
<1>1. [server |-> s, blocked |-> b] \in [server : Servers, blocked : BOOLEAN]
  OBVIOUS
<1>2. CASE saved' = [server |-> s, blocked |-> b] /\ unsaved' = FALSE
  BY <1>1, <1>2
<1>3. CASE saved' \in {saved, [server |-> s, blocked |-> b]} /\ unsaved' = TRUE
  BY <1>1, <1>3 DEF TypeOK
<1> QED
  BY <1>2, <1>3 DEF Save

-----------------------------------------------------------------------------
(* The three things that an answer, or the clearing of the session, can do. *)

\* persistAuthenticatedLocked is reached only for the target in force.
Released(r) ==
    /\ Targeted(r) /\ requests[r].server = target /\ requests[r].answer \in Token
    /\ requests[r].step = "answered"
    /\ Persist(r, requests[r].answer)
    /\ \/ /\ requests[r].kind \in {"login", "browser"}
          /\ ended' = ended \cup Present
       \/ /\ requests[r].kind \notin {"login", "browser"} /\ ~blocked
          /\ \E stored \in Stored(target) :
                requests[r].cookie = None \/ stored \in {None, requests[r].cookie}
          /\ ended' = ended

Cleared ==
    /\ Delete(target) /\ Save(target, TRUE)
    /\ blocked' = TRUE /\ ended' = ended \cup Present /\ current' = None

LEMMA ReceiveForms ==
    ASSUME TypeOK, TargetInv, NEW r \in Requests, Receive(r)
    PROVE  UNCHANGED session \/ Released(r) \/ Cleared
<1> DEFINE q == requests[r]
<1>1. /\ q.step = "answered" => q.answer \in Token
      /\ Targeted(r) => q.server = target
  BY DEF TypeOK, Request, TargetInv
<1>2. CASE q.kind \in {"login", "browser"}
  BY <1>1, <1>2 DEF Receive, At, MarkAuthenticated, Released
<1>3. CASE q.kind = "logout"
  BY <1>1, <1>3 DEF Receive, BlockSession, Cleared
<1>4. CASE q.kind = "refresh" /\ q.answer = None
  BY <1>1, <1>4 DEF Receive, BlockSession, Cleared
<1>5. CASE ~(q.kind \in {"login", "browser", "logout"}) /\ ~(q.kind = "refresh" /\ q.answer = None)
  <2>1. MarkRefreshed(r)
    BY <1>5 DEF Receive
  <2>2. q.step = "answered"
    BY <1>5 DEF Receive, At, TargetInv
  <2> QED
    BY <1>1, <1>5, <2>1, <2>2 DEF MarkRefreshed, Released
<1> QED
  BY <1>2, <1>3, <1>4, <1>5

LEMMA ClearForm == ASSUME Clear PROVE UNCHANGED session \/ Cleared
BY DEF Clear, BlockSession, Cleared

-----------------------------------------------------------------------------
(* Types, and the target that a handler is bound to.                        *)

Bound == TypeOK /\ TargetInv /\ FileAgrees /\ FileKeepsServer

\* The application before its first start.
LEMMA InitBound == Init => Bound
<1> SUFFICES ASSUME Init PROVE Bound
  OBVIOUS
<1>1. Idle \in Request /\ Idle.step = "idle" /\ Idle.answer = None /\ Idle.epoch = 0
  BY DEF Idle, Request, Steps
<1>2. saved \in [server : Servers, blocked : BOOLEAN]
  BY DEF Init
<1>3. TypeOK
  <2>1. requests \in [Requests -> Request] /\ ring \in [Servers -> Token \cup {None}]
    BY <1>1 DEF Init
  <2>2. /\ running = FALSE /\ managed = FALSE /\ blocked = FALSE /\ unsaved = FALSE
        /\ faulty \in SUBSET Failing /\ target \in Servers
    BY DEF Init
  <2>3. epoch \in Nat \ {0} /\ pending = None /\ issued \in Nat /\ current = None
        /\ ended \in SUBSET Nat
    BY DEF Init
  <2> QED
    BY <1>2, <2>1, <2>2, <2>3 DEF TypeOK
<1>4. TargetInv
  <2>1. \A r \in Requests : requests[r] = Idle
    BY DEF Init
  <2>2. epoch = 1 /\ current = None
    BY DEF Init
  <2>3. \A r \in Requests : ~Targeted(r) /\ requests[r].epoch <= epoch
    BY <1>1, <2>1, <2>2 DEF Targeted
  <2> QED
    BY <1>1, <2>1, <2>2, <2>3 DEF TargetInv
<1> QED
  BY <1>3, <1>4 DEF Init, Bound, FileAgrees, FileKeepsServer

\* Sessions are numbers.
LEMMA PresentTyped == TypeOK => Present \in SUBSET Nat
<1> SUFFICES ASSUME TypeOK PROVE Present \in SUBSET Nat
  OBVIOUS
<1>1. ring[target] \in Token \cup {None} /\ (current # None => current.token \in Token)
  BY DEF TypeOK
<1>2. \A t \in Token : t.session \in Nat
  BY DEF Token
<1> QED
  BY <1>1, <1>2 DEF Present

LEMMA ReleasedBound ==
    ASSUME Bound, NEW r \in Requests, running, Released(r), Finish(r),
           UNCHANGED <<running, target, epoch, managed, pending, issued, faulty>>
    PROVE  Bound'
<1>1. /\ ring' \in [Servers -> Token \cup {None}]
      /\ saved' \in [server : Servers, blocked : BOOLEAN] /\ unsaved' \in BOOLEAN
      /\ ~unsaved' => saved' = [server |-> target, blocked |-> FALSE]
      /\ saved' \in {saved, [server |-> target, blocked |-> FALSE]}
      /\ ~blocked' /\ blocked' \in BOOLEAN
      /\ current' = [token |-> requests[r].answer, epoch |-> epoch]
  BY ReplaceTyped, SaveTyped DEF Bound, Released, Persist, Targeted, TypeOK
<1>2. Present \in SUBSET Nat
  BY PresentTyped DEF Bound
<1>3. ended' \in SUBSET Nat
  BY <1>2 DEF Released, Bound, TypeOK
<1>4. /\ requests' \in [Requests -> Request]
      /\ \A q \in Requests \ {r} : requests'[q] = requests[q]
      /\ requests'[r] = Idle
  BY DEF Finish, Idle, Bound, TypeOK, Request, Steps
<1>5. current' \in [token : Token, epoch : Nat] \cup {None}
  BY <1>1 DEF Released, Bound, TypeOK
<1>6. TypeOK'
  BY <1>1, <1>3, <1>4, <1>5 DEF Bound, TypeOK
<1>7. TargetInv'
  BY <1>1, <1>4 DEF Bound, TypeOK, TargetInv, Targeted, Idle
<1>8. FileAgrees' /\ FileKeepsServer'
  BY <1>1 DEF FileAgrees, FileKeepsServer, Bound
<1> QED
  BY <1>6, <1>7, <1>8 DEF Bound

LEMMA ClearedBound ==
    ASSUME Bound, running, Cleared,
           requests' = requests \/ \E r \in Requests : Finish(r),
           UNCHANGED <<running, target, epoch, managed, pending, issued, faulty>>
    PROVE  Bound'
<1>1. /\ ring' \in [Servers -> Token \cup {None}]
      /\ saved' \in [server : Servers, blocked : BOOLEAN] /\ unsaved' \in BOOLEAN
      /\ ~unsaved' => saved' = [server |-> target, blocked |-> TRUE]
      /\ saved' \in {saved, [server |-> target, blocked |-> TRUE]}
      /\ blocked' = TRUE /\ current' = None
  BY DeleteTyped, SaveTyped DEF Bound, Cleared, TypeOK
<1>2. Present \in SUBSET Nat
  BY PresentTyped DEF Bound
<1>3. ended' \in SUBSET Nat
  BY <1>2 DEF Cleared, Bound, TypeOK
<1>4. /\ requests' \in [Requests -> Request]
      /\ \A q \in Requests : requests'[q] \in {requests[q], Idle}
  BY DEF Finish, Idle, Bound, TypeOK, Request, Steps
<1>5. TypeOK'
  BY <1>1, <1>3, <1>4 DEF Bound, TypeOK
<1>6. TargetInv'
  BY <1>1, <1>4 DEF Bound, TypeOK, TargetInv, Targeted, Idle
<1>7. FileAgrees' /\ FileKeepsServer'
  BY <1>1 DEF FileAgrees, FileKeepsServer, Bound
<1> QED
  BY <1>5, <1>6, <1>7 DEF Bound

\* A step that moves one handler, which stays bound as it was or is bound now.
LEMMA MovedBound ==
    ASSUME Bound, running, NEW r \in Requests, NEW q \in Request,
           requests' = [requests EXCEPT ![r] = q],
           q.epoch <= epoch, q.epoch = epoch => q.server = target,
           q.step = "answered" <=> q.answer # None, q.step = "forget" => q.epoch = epoch,
           q.step # "idle" => q.server # None,
           pending' \in Servers \cup {None}, issued' \in Nat, ended' \in SUBSET Nat,
           ring' \in [Servers -> Token \cup {None}],
           current' \in {current, None},
           UNCHANGED <<running, target, epoch, managed, blocked, saved, unsaved, faulty>>
    PROVE  Bound'
<1>1. TypeOK'
  BY DEF Bound, TypeOK
<1>2. TargetInv'
  BY DEF Bound, TypeOK, TargetInv, Targeted
<1>3. FileAgrees' /\ FileKeepsServer'
  BY DEF Bound, FileAgrees, FileKeepsServer
<1> QED
  BY <1>1, <1>2, <1>3 DEF Bound

\* Every step keeps the types, the targets of the handlers and the file.
LEMMA StepBound == Bound /\ [Next]_vars => Bound'
<1> SUFFICES ASSUME Bound, [Next]_vars PROVE Bound'
  OBVIOUS
<1> USE DEF Bound
<1>1. CASE Quit
  <2>1. Idle \in Request /\ Idle.step = "idle" /\ Idle.answer = None /\ Idle.epoch = 0
    BY DEF Idle, Request, Steps
  <2>2. /\ requests' \in [Requests -> Request]
        /\ \A r \in Requests : requests'[r] = Idle
    BY <1>1, <2>1 DEF Quit
  <2>3. TypeOK'
    <3>1. epoch' \in Nat \ {0} /\ pending' = None /\ current' = None
          /\ running' = FALSE /\ blocked' = FALSE
      BY <1>1 DEF Quit
    <3> QED
      BY <1>1, <2>2, <3>1 DEF Quit, TypeOK
  <2>4. epoch' = 1 /\ current' = None
    BY <1>1 DEF Quit
  <2>5. \A r \in Requests : ~Targeted(r)' /\ requests'[r].epoch <= epoch'
    BY <2>1, <2>2, <2>4 DEF Targeted
  <2>6. TargetInv'
    BY <2>1, <2>2, <2>4, <2>5 DEF TargetInv
  <2> QED
    BY <1>1, <2>3, <2>6 DEF Quit, FileAgrees, FileKeepsServer
<1>2. CASE Start
  <2>1. target' \in Servers /\ blocked' \in BOOLEAN /\ managed' \in BOOLEAN
    BY <1>2 DEF Start, TypeOK
  <2>2. TypeOK'
    BY <1>2, <2>1 DEF Start, TypeOK
  <2>3. \A r \in Requests : requests[r].epoch = 0 /\ epoch # 0
    BY <1>2 DEF Start, TypeOK, TargetInv, Idle
  <2>4. TargetInv'
    BY <1>2, <2>3 DEF Start, TargetInv, Targeted
  <2>5. saved = [server |-> saved.server, blocked |-> saved.blocked]
    BY DEF TypeOK
  <2>6. FileAgrees' /\ FileKeepsServer'
    BY <1>2, <2>1, <2>5 DEF Start, FileAgrees, FileKeepsServer, TypeOK
  <2> QED
    BY <2>2, <2>4, <2>6
<1>3. CASE Clear
  <2>1. CASE UNCHANGED session
    BY <1>3, <2>1 DEF Clear, session, TypeOK, TargetInv, Targeted, FileAgrees, FileKeepsServer
  <2>2. CASE Cleared
    BY <1>3, <2>2, ClearedBound DEF Clear
  <2> QED
    BY <1>3, <2>1, <2>2, ClearForm
<1>4. CASE Activate
  <2>1. /\ pending \in Servers /\ saved' \in [server : Servers, blocked : BOOLEAN]
        /\ unsaved' \in BOOLEAN
        /\ ~unsaved' => saved' = [server |-> pending, blocked |-> TRUE]
        /\ saved' \in {saved, [server |-> pending, blocked |-> TRUE]}
    BY <1>4, SaveTyped DEF Activate, TypeOK
  <2>2. TypeOK'
    BY <1>4, <2>1 DEF Activate, TypeOK
  <2>3. CASE unsaved'
    <3>1. TargetInv'
      BY <1>4, <2>3 DEF Activate, TargetInv, Targeted
    <3>2. FileKeepsServer'
      BY <1>4, <2>1, <2>3 DEF Activate, FileKeepsServer
    <3> QED
      BY <2>2, <2>3, <3>1, <3>2 DEF FileAgrees
  <2>4. CASE ~unsaved'
    <3>1. target' = pending /\ epoch' = epoch + 1
      BY <1>4, <2>4 DEF Activate
    <3>2. \A r \in Requests : requests[r].epoch \in Nat /\ requests[r].epoch <= epoch
      BY DEF TypeOK, TargetInv, Request
    <3>3. \A r \in Requests : requests'[r].epoch <= epoch' /\ ~Targeted(r)'
      BY <1>4, <3>1, <3>2 DEF Activate, Targeted, TypeOK
    <3>4. TargetInv'
      BY <1>4, <3>3 DEF Activate, TargetInv
    <3>5. FileAgrees' /\ FileKeepsServer'
      BY <1>4, <2>1, <2>4, <3>1 DEF Activate, FileAgrees, FileKeepsServer
    <3> QED
      BY <2>2, <3>4, <3>5
  <2> QED
    BY <2>1, <2>3, <2>4
<1>5. ASSUME NEW r \in Requests, NEW kind \in Kinds, Ask(r, kind)
      PROVE  Bound'
  <2> PICK cookie \in {None} \cup (IF current = None \/ kind \in {"login", "browser"}
                                 THEN {} ELSE {current.token}) :
          requests' = [requests EXCEPT ![r] =
             [step |-> "bound", kind |-> kind, server |-> target, epoch |-> epoch,
              cookie |-> cookie, answer |-> None]]
    BY <1>5 DEF Ask
  <2> DEFINE q == [step |-> "bound", kind |-> kind, server |-> target, epoch |-> epoch,
                   cookie |-> cookie, answer |-> None]
  <2>1. cookie \in Token \cup {None}
    BY DEF TypeOK
  <2>2. q \in Request
    BY <2>1 DEF TypeOK, Request, Steps
  <2>3. /\ q.answer = None /\ q.epoch = epoch /\ q.server = target /\ q.step = "bound"
        /\ requests' = [requests EXCEPT ![r] = q]
    OBVIOUS
  <2> HIDE DEF q
  <2>4. target # None /\ epoch <= epoch
    BY NoneIsNothing DEF TypeOK
  <2> QED
    BY <1>5, <2>2, <2>3, <2>4, MovedBound DEF Ask, At, memory, TypeOK
<1>6. ASSUME NEW r \in Requests, Send(r)
      PROVE  Bound'
  <2> PICK cookie \in IF blocked \/ requests[r].cookie = None THEN Injected(r)
                      ELSE {requests[r].cookie} :
          requests' = [requests EXCEPT ![r].step = "sent", ![r].cookie = cookie]
    BY <1>6 DEF Send
  <2> DEFINE q == [requests[r] EXCEPT !.step = "sent", !.cookie = cookie]
  <2>1. Injected(r) \in SUBSET (Token \cup {None})
    BY DEF Injected, Stored, TypeOK, TargetInv
  <2>2. requests[r] \in Request /\ cookie \in Token \cup {None}
    BY <2>1 DEF TypeOK, Request
  <2>3. q \in Request /\ requests' = [requests EXCEPT ![r] = q]
    BY <2>2 DEF TypeOK, Request, Steps
  <2>4. /\ q.answer = None /\ q.epoch = requests[r].epoch /\ q.server = requests[r].server
        /\ q.step = "sent" /\ requests[r].step = "bound"
    BY <1>6, <2>2 DEF Send, At, TargetInv, Request
  <2> HIDE DEF q
  <2>5. q.server # None /\ q.epoch <= epoch /\ (q.epoch = epoch => q.server = target)
    BY <2>4 DEF TargetInv, Targeted
  <2> QED
    BY <1>6, <2>3, <2>4, <2>5, MovedBound DEF Send, At, memory, TypeOK
<1>7. ASSUME NEW r \in Requests, Finish(r), running,
             UNCHANGED <<memory, saved, unsaved, faulty>>, current' \in {current, None},
             issued' \in Nat, ended' \in SUBSET Nat, ring' \in [Servers -> Token \cup {None}]
      PROVE  Bound'
  <2>1. Idle \in Request /\ Idle.step = "idle" /\ Idle.answer = None /\ Idle.epoch = 0
    BY DEF Idle, Request, Steps
  <2>2. 0 <= epoch /\ 0 # epoch
    BY DEF TypeOK
  <2> QED
    BY <1>7, <2>1, <2>2, MovedBound DEF Finish, memory, TypeOK
<1>8. ASSUME NEW r \in Requests, Move(r, "sent") \/ Move(r, "forget"), running,
             requests[r].step \notin {"answered", "idle"}, pending' \in Servers \cup {None},
             Move(r, "forget") => Targeted(r),
             UNCHANGED <<running, target, epoch, managed, blocked, ring, saved, unsaved,
                         issued, current, ended, faulty>>
      PROVE  Bound'
  <2> PICK step \in {"sent", "forget"} : Move(r, step)
    BY <1>8
  <2> DEFINE q == [requests[r] EXCEPT !.step = step]
  <2>1. requests[r] \in Request
    BY DEF TypeOK
  <2>2. q \in Request /\ requests' = [requests EXCEPT ![r] = q]
    BY <2>1 DEF TypeOK, Request, Steps, Move
  <2>3. /\ q.answer = None /\ q.epoch = requests[r].epoch /\ q.server = requests[r].server
        /\ q.step \notin {"answered", "idle"}
    BY <1>8, <2>1 DEF TargetInv, Request
  <2> HIDE DEF q
  <2>4. q.server # None /\ q.epoch <= epoch /\ (q.epoch = epoch => q.server = target)
    BY <1>8, <2>3 DEF TargetInv, Targeted
  <2>5. q.step = "forget" => q.epoch = epoch
    <3>1. q.step = step
      BY <2>1 DEF q, Request
    <3> QED
      BY <1>8, <2>3, <3>1 DEF Targeted
  <2> QED
    BY <1>8, <2>2, <2>3, <2>4, <2>5, MovedBound DEF TypeOK
<1>9. ASSUME NEW r \in Requests, Callback(r)
      PROVE  Bound'
  BY <1>7, <1>8, <1>9 DEF Callback, At, memory, TypeOK
<1>10. ASSUME NEW r \in Requests, Serve(r)
       PROVE  Bound'
  <2> DEFINE q == [requests[r] EXCEPT !.step = "answered", !.answer = NewToken(r)]
  <2>1. requests[r] \in Request
    BY DEF TypeOK
  <2>2. requests[r].kind = "refresh" => requests[r].cookie \in Token
    BY <1>10, <2>1 DEF Serve, Request
  <2>3. requests[r].server \in Servers
    BY <1>10, <2>1 DEF Serve, At, Request, TargetInv
  <2>4. NewToken(r) \in Token
    BY <2>2, <2>3 DEF NewToken, TypeOK, Token
  <2>5. q \in Request /\ requests' = [requests EXCEPT ![r] = q]
    BY <1>10, <2>1, <2>4 DEF Serve, TypeOK, Request, Steps
  <2>6. /\ q.answer # None /\ q.epoch = requests[r].epoch /\ q.server = requests[r].server
        /\ q.step = "answered"
    BY <2>1, <2>4, NoneIsNothing DEF Request
  <2> HIDE DEF q
  <2>7. q.server # None /\ q.epoch <= epoch /\ (q.epoch = epoch => q.server = target)
    BY <2>3, <2>6, NoneIsNothing DEF TargetInv, Targeted
  <2>8. issued' \in Nat
    BY <1>10 DEF Serve, TypeOK
  <2> QED
    BY <1>10, <2>5, <2>6, <2>7, <2>8, MovedBound DEF Serve, At, memory, TypeOK
<1>11. ASSUME NEW r \in Requests, Drop(r)
       PROVE  Bound'
  BY <1>7, <1>11 DEF Drop, TypeOK
<1>12. ASSUME NEW r \in Requests, Receive(r)
       PROVE  Bound'
  <2>1. running /\ Finish(r)
        /\ UNCHANGED <<running, target, epoch, managed, pending, issued, faulty>>
    BY <1>12 DEF Receive, At
  <2>2. CASE UNCHANGED session
    BY <1>7, <2>1, <2>2 DEF session, memory, TypeOK
  <2> QED
    BY <1>12, <2>1, <2>2, ReceiveForms, ReleasedBound, ClearedBound
<1>13. ASSUME NEW r \in Requests, Switch(r)
       PROVE  Bound'
  <2> DEFINE q == [requests[r] EXCEPT !.step = "probing", !.kind = "switch",
                                      !.server = target, !.epoch = epoch]
  <2>1. requests[r] \in Request
    BY DEF TypeOK
  <2>2. q \in Request /\ requests' = [requests EXCEPT ![r] = q]
    BY <1>13, <2>1 DEF Switch, TypeOK, Request, Steps
  <2>3. q.answer = None /\ q.epoch = epoch /\ q.server = target /\ q.step = "probing"
    BY <1>13, <2>1 DEF Switch, At, TargetInv, Request
  <2> HIDE DEF q
  <2>4. target # None /\ epoch <= epoch
    BY NoneIsNothing DEF TypeOK
  <2> QED
    BY <1>13, <2>2, <2>3, <2>4, MovedBound DEF Switch, At, memory, TypeOK
<1>14. ASSUME NEW r \in Requests, Prepare(r)
       PROVE  Bound'
  BY <1>7, <1>8, <1>14 DEF Prepare, At, memory, TypeOK
<1>15. ASSUME NEW r \in Requests, Forget(r)
       PROVE  Bound'
  <2>1. ring' \in [Servers -> Token \cup {None}]
    BY <1>15 DEF Forget, Delete, TypeOK
  <2>2. ended' \in SUBSET Nat
    BY <1>15, PresentTyped DEF Forget, TypeOK
  <2> QED
    BY <1>7, <1>15, <2>1, <2>2 DEF Forget, At, TypeOK
<1>16. CASE UNCHANGED vars
  BY <1>16 DEF vars, memory, TypeOK, TargetInv, Targeted, FileAgrees, FileKeepsServer
<1> QED
  BY <1>1, <1>2, <1>3, <1>4, <1>5, <1>6, <1>9, <1>10, <1>11, <1>12, <1>13, <1>14, <1>15, <1>16
     DEF Next

\* Types, targets and the file, in every state.
LEMMA BoundInvariant == Spec => []Bound
BY InitBound, StepBound, PTL DEF Spec

\* A late answer, of whatever request, never releases the credentials of a
\* target it was not asked of (markAuthenticated, markRefreshed).
THEOREM ReleasedForTarget == Spec => []UnblockedForTarget
<1>1. Bound => UnblockedForTarget
  BY DEF Bound, TargetInv, UnblockedForTarget
<1> QED
  BY <1>1, BoundInvariant, PTL

\* The configuration file keeps the block and the server that memory has, unless
\* its last write failed; and after any failed write a restart without a server in
\* the environment sends stored credentials to the server that was in force, or to
\* none (configStore.Save, handleConnectionActivate, initialServerConfiguration).
THEOREM RestartStaysWithServer == Spec => []RestartKeepsServer
<1>1. Bound => RestartKeepsServer
  BY DEF Bound, RestartKeepsServer
<1> QED
  BY <1>1, BoundInvariant, PTL

-----------------------------------------------------------------------------
(* Where the tokens of a session are.                                       *)

Sessions == Bound /\ TokenInv /\ OpeningInv /\ EndedInv

\* Every token lies in the keyring, with a handler or with the webview.
LEMMA TokensTyped ==
    ASSUME TypeOK
    PROVE  /\ Tokens \subseteq Token
           /\ \A s \in Servers : ring[s] # None => ring[s] \in Tokens
           /\ \A r \in Requests : /\ requests[r].cookie # None => requests[r].cookie \in Tokens
                                  /\ requests[r].answer # None => requests[r].answer \in Tokens
           /\ current # None => current.token \in Tokens /\ current.token.session \in Present
           /\ \A n \in Present : \E t \in Tokens :
                 /\ n = t.session
                 /\ t = ring[target] \/ (current # None /\ t = current.token)
<1>1. \A s \in Servers : ring[s] \in Token \cup {None}
  BY DEF TypeOK
<1>2. \A r \in Requests : /\ requests[r].cookie \in Token \cup {None}
                          /\ requests[r].answer \in Token \cup {None}
  BY DEF TypeOK, Request
<1>3. current # None => current.token \in Token
  BY DEF TypeOK
<1>4. Tokens \subseteq Token
  BY <1>1, <1>2, <1>3 DEF Tokens
<1>5. /\ \A s \in Servers : ring[s] # None => ring[s] \in Tokens
      /\ current # None => current.token \in Tokens
  BY <1>3, NoneIsNothing DEF Tokens
<1>6. \A r \in Requests : /\ requests[r].cookie # None => requests[r].cookie \in Tokens
                          /\ requests[r].answer # None => requests[r].answer \in Tokens
  BY DEF Tokens
<1>7. current # None => current.token.session \in Present
  BY <1>3, NoneIsNothing DEF Present
<1>8. ASSUME NEW n \in Present
      PROVE  \E t \in Tokens : /\ n = t.session
                               /\ t = ring[target] \/ (current # None /\ t = current.token)
  <2>1. PICK t \in ({ring[target]} \cup (IF current = None THEN {} ELSE {current.token})) \ {None} :
               n = t.session
    BY <1>8 DEF Present
  <2>2. target \in Servers
    BY DEF TypeOK
  <2> QED
    BY <1>5, <2>1, <2>2
<1> QED
  BY <1>4, <1>5, <1>6, <1>7, <1>8

\* Copies of tokens, and their loss, make no new ones.
LEMMA TokensFrom ==
    ASSUME NEW T, TypeOK',
           \A s \in Servers : ring'[s] \in T \cup {None},
           \A r \in Requests : /\ requests'[r].cookie \in T \cup {None}
                               /\ requests'[r].answer \in T \cup {None},
           current' # None => current'.token \in T
    PROVE  Tokens' \subseteq T
BY DEF Tokens

\* What holds of all tokens holds of fewer.
LEMMA FewerTokens ==
    ASSUME TypeOK, TokenInv, Tokens' \subseteq Tokens, ended' \subseteq ended \cup Present,
           issued' = issued
    PROVE  /\ \A t \in Tokens' : t.session <= issued'
           /\ \A n \in ended' : n <= issued'
           /\ \A t, u \in Tokens' : t.session = u.session => t.server = u.server
<1>1. \A n \in Present : n <= issued
  BY TokensTyped DEF TokenInv
<1> QED
  BY <1>1 DEF TokenInv

\* Sessions that are with another server are not the webview's.
LEMMA ElsewhereIsNotPresent ==
    ASSUME Sessions, NEW s \in Servers \ {target}, ring[s] # None
    PROVE  ring[s].session \notin Present
<1>1. ring[s] \in Tokens /\ ring[s].server = s
  BY TokensTyped DEF Sessions, Bound, TokenInv
<1>2. ASSUME NEW t \in Tokens, t = ring[target] \/ (current # None /\ t = current.token)
      PROVE  t.session # ring[s].session
  <2>1. t.server = target
    BY <1>2, TokensTyped, NoneIsNothing DEF Sessions, Bound, TokenInv, TypeOK
  <2> QED
    BY <1>1, <2>1 DEF Sessions, TokenInv
<1> QED
  BY <1>2, TokensTyped DEF Sessions, Bound

\* A session that is only being opened is not in use.
LEMMA OpeningIsNotPresent ==
    ASSUME TypeOK, OpeningInv, NEW r \in Requests, Opening(r)
    PROVE  requests[r].answer.session \notin Present
<1> DEFINE n == requests[r].answer.session
<1>1. target \in Servers
  BY DEF TypeOK
<1>2. /\ current # None => current.token.session # n
      /\ \A s \in Servers : ring[s] # None => ring[s].session # n
  BY DEF OpeningInv
<1>3. ASSUME NEW t \in Tokens, t = ring[target] \/ (current # None /\ t = current.token)
      PROVE  t.session # n
  <2>1. t # None
    BY DEF Tokens
  <2> QED
    BY <1>1, <1>2, <1>3, <2>1
<1> HIDE DEF n
<1>4. n \notin Present
  BY <1>3, TokensTyped
<1> QED
  BY <1>4 DEF n

LEMMA InitSessions == Init => Sessions
<1> SUFFICES ASSUME Init PROVE Sessions
  OBVIOUS
<1>1. Bound
  BY InitBound
<1>2. \A r \in Requests : requests[r] = Idle
  BY DEF Init
<1>3. \A s \in Servers : ring[s] = None
  BY DEF Init
<1>4. current = None /\ ended = {}
  BY DEF Init
<1>5. Tokens = {}
  BY <1>2, <1>3, <1>4 DEF Tokens, Idle
<1>6. TokenInv
  BY <1>2, <1>3, <1>4, <1>5 DEF TokenInv, RequestInv, Idle
<1> QED
  BY <1>1, <1>2, <1>3, <1>4, <1>6 DEF Sessions, OpeningInv, Opening, EndedInv, Idle

\* Steps that only lose tokens: the end of the application and its start, the
\* clearing of the session, and a switch.
LEMMA LostSessions ==
    ASSUME Sessions, Bound', issued' = issued, ended' \subseteq ended \cup Present,
           \A s \in Servers : ring'[s] \in {ring[s], None},
           \A r \in Requests : requests'[r] \in {requests[r], Idle},
           current' \in {None, current}, current' # None => target' = target
    PROVE  TokenInv' /\ OpeningInv'
<1> USE DEF Sessions, Bound
<1>1. Idle.cookie = None /\ Idle.answer = None /\ RequestInv(Idle) /\ Idle.kind = None
  BY DEF Idle, RequestInv
<1>2. Tokens' \subseteq Tokens
  BY <1>1, TokensTyped, TokensFrom
<1>3. \A r \in Requests : RequestInv(requests'[r])
  BY <1>1 DEF TokenInv
<1>4. TokenInv'
  BY <1>2, <1>3, FewerTokens DEF TokenInv
<1>5. ASSUME NEW r \in Requests, Opening(r)'
      PROVE  requests'[r] = requests[r] /\ Opening(r) /\ requests[r].answer.session \notin Present
  BY <1>1, <1>5, OpeningIsNotPresent DEF Opening
<1>6. OpeningInv'
  BY <1>1, <1>5 DEF OpeningInv
<1> QED
  BY <1>4, <1>6

\* A step of a handler that reads the keyring or takes what the webview sent.
LEMMA MovedSessions ==
    ASSUME Sessions, Bound', NEW r \in Requests, NEW q \in Request,
           requests' = [requests EXCEPT ![r] = q],
           UNCHANGED <<running, target, epoch, blocked, ring, issued, current, ended, faulty>>,
           RequestInv(q), q.answer \in {None, requests[r].answer},
           q.answer # None => q.kind = requests[r].kind,
           \/ q.cookie = None
           \/ /\ q.cookie = requests[r].cookie /\ q.epoch = requests[r].epoch
              /\ q.kind = requests[r].kind
           \/ current # None /\ q.cookie = current.token
           \/ \E s \in Servers : q.cookie = ring[s] /\ (q.epoch = epoch => s = target)
    PROVE  Sessions'
<1> USE DEF Sessions, Bound
<1>1. /\ requests'[r] = q
      /\ \A p \in Requests \ {r} : requests'[p] = requests[p]
  BY DEF TypeOK
<1>2. q.cookie \in Tokens \cup {None} /\ q.answer \in Tokens \cup {None}
  BY TokensTyped
<1>3. Tokens' \subseteq Tokens
  BY <1>1, <1>2, TokensTyped, TokensFrom
<1>4. \A p \in Requests : RequestInv(requests'[p])
  BY <1>1 DEF TokenInv
<1>5. TokenInv'
  BY <1>3, <1>4, FewerTokens DEF TokenInv
<1>6. ASSUME NEW p \in Requests, Opening(p)'
      PROVE  Opening(p) /\ requests'[p].answer = requests[p].answer
  BY <1>1, <1>6 DEF Opening
<1>7. ASSUME NEW p \in Requests, Opening(p), NEW o \in Requests, requests'[o].cookie # None
      PROVE  requests'[o].cookie.session # requests[p].answer.session
  BY <1>1, <1>7 DEF OpeningInv
<1>8. ASSUME NEW p \in Requests, NEW o \in Requests \ {p}, Opening(p), requests'[o].answer # None
      PROVE  requests'[o].answer.session # requests[p].answer.session
  BY <1>1, <1>8 DEF OpeningInv
<1>9. OpeningInv'
  BY <1>6, <1>7, <1>8 DEF OpeningInv
<1>10. EndedInv'
  <2> SUFFICES ASSUME "keyring" \notin faulty, running, ~blocked, ring[target] = None,
                      NEW p \in Requests, Targeted(p)', requests'[p].kind = "refresh",
                      requests'[p].cookie # None
               PROVE  requests'[p].cookie.session \notin ended
    BY DEF EndedInv
  <2>1. CASE p # r
    BY <1>1, <2>1 DEF EndedInv, Targeted
  <2>2. CASE p = r
    BY <1>1, <2>2 DEF EndedInv, Targeted
  <2> QED
    BY <2>1, <2>2
<1> QED
  BY <1>5, <1>9, <1>10

\* The server begins a session that nobody has a token of, or continues the one
\* whose token it was sent.
LEMMA ServedSessions ==
    ASSUME Sessions, Bound', NEW r \in Requests, Serve(r)
    PROVE  Sessions'
<1> USE DEF Sessions, Bound
<1> DEFINE new == NewToken(r)
<1>1. /\ requests[r] \in Request /\ requests[r].answer = None
      /\ requests[r].step = "sent" /\ requests[r].kind \in Kinds \ {"logout"}
      /\ requests[r].kind = "refresh" => requests[r].cookie \in Token
      /\ RequestInv(requests[r]) /\ issued \in Nat
  BY DEF Serve, At, TypeOK, TargetInv, TokenInv, RequestInv, Request
<1>2. /\ new \in Token /\ new.server = requests[r].server
      /\ IF requests[r].kind = "refresh" THEN new.session = requests[r].cookie.session
                                         ELSE new.session = issued + 1
  <2>1. requests[r].server \in Servers
    BY <1>1 DEF TargetInv, Request
  <2> QED
    BY <1>1, <2>1 DEF NewToken, Token
<1> HIDE DEF new
<1>3. /\ \A p \in Requests \ {r} : requests'[p] = requests[p]
      /\ issued' = issued + 1
      /\ UNCHANGED <<running, target, epoch, blocked, ring, current, ended, faulty>>
  BY DEF Serve, TypeOK, memory
<1>4. /\ requests'[r].answer = new /\ requests'[r].cookie = requests[r].cookie
      /\ requests'[r].kind = requests[r].kind /\ requests'[r].server = requests[r].server
      /\ requests'[r].step = "answered" /\ requests'[r].epoch = requests[r].epoch
  BY <1>1 DEF Serve, TypeOK, Request, new
<1>5. Tokens' \subseteq Tokens \cup {new}
  <2> DEFINE T == Tokens \cup {new}
  <2>1. \A p \in Requests : /\ requests'[p].cookie \in T \cup {None}
                            /\ requests'[p].answer \in T \cup {None}
    BY <1>3, <1>4, TokensTyped
  <2>2. \A s \in Servers : ring'[s] \in T \cup {None}
    BY <1>3, TokensTyped
  <2>3. current' # None => current'.token \in T
    BY <1>3, TokensTyped
  <2> HIDE DEF T
  <2>4. Tokens' \subseteq T
    BY <2>1, <2>2, <2>3, TokensFrom
  <2> QED
    BY <2>4 DEF T
<1>6. \A t \in Tokens : t \in Token /\ t.session \in Nat /\ t.session <= issued
  BY TokensTyped DEF TokenInv, Token
<1>7. requests[r].kind = "refresh" => requests[r].cookie \in Tokens
  BY <1>1, TokensTyped, NoneIsNothing
<1>8. TokenInv'
  <2>1. RequestInv(requests'[r])
    BY <1>1, <1>2, <1>4, NoneIsNothing DEF RequestInv
  <2>2. \A p \in Requests : RequestInv(requests'[p])
    BY <1>3, <2>1 DEF TokenInv
  <2>3. \A t \in Tokens' : t.session <= issued'
    BY <1>1, <1>2, <1>3, <1>5, <1>6, <1>7
  <2>4. \A n \in ended' : n <= issued'
    <3>1. ended' = ended /\ \A n \in ended : n \in Nat /\ n <= issued
      BY <1>3 DEF TokenInv, TypeOK
    <3>2. \A n \in Nat : n <= issued => n <= issued'
      BY <1>1, <1>3
    <3> QED
      BY <3>1, <3>2
  <2>5. \A t \in Tokens : t.session = new.session => t.server = new.server
    <3>1. CASE requests[r].kind = "refresh"
      BY <1>1, <1>2, <1>7, <3>1, NoneIsNothing DEF TokenInv, RequestInv
    <3>2. CASE requests[r].kind # "refresh"
      BY <1>1, <1>2, <1>6, <3>2
    <3> QED
      BY <3>1, <3>2
  <2>6. \A t, u \in Tokens' : t.session = u.session => t.server = u.server
    BY <1>5, <2>5 DEF TokenInv
  <2> QED
    BY <1>3, <2>2, <2>3, <2>4, <2>6 DEF TokenInv
<1>9. OpeningInv'
  <2>1. \A p \in Requests \ {r} : Opening(p)' => Opening(p) /\ requests'[p] = requests[p]
    BY <1>3 DEF Opening
  <2>2. \A p \in Requests : requests'[p].cookie = requests[p].cookie
    BY <1>3, <1>4
  <2>3. CASE requests[r].kind # "refresh"
    <3>1. new.session \notin ended /\ \A t \in Tokens : t.session # new.session
      BY <1>1, <1>2, <1>6, <2>3 DEF TokenInv, TypeOK
    <3>2. /\ current # None => current.token.session # new.session
          /\ \A s \in Servers : ring[s] # None => ring[s].session # new.session
          /\ \A p \in Requests : requests[p].cookie # None =>
                                   requests[p].cookie.session # new.session
          /\ \A p \in Requests : requests[p].answer # None =>
                                   requests[p].answer.session # new.session
      BY <3>1, TokensTyped
    <3>3. \A p \in Requests : Opening(p) => p # r
      BY <1>1 DEF Opening
    <3>4. ASSUME NEW p \in Requests, Opening(p)'
          PROVE  LET n == requests'[p].answer.session IN
                 /\ n \notin ended
                 /\ current # None => current.token.session # n
                 /\ \A s \in Servers : ring[s] # None => ring[s].session # n
                 /\ \A q \in Requests : requests'[q].cookie # None =>
                                          requests'[q].cookie.session # n
                 /\ \A q \in Requests \ {p} : requests'[q].answer # None =>
                                                requests'[q].answer.session # n
      <4>1. CASE p = r
        BY <1>3, <1>4, <2>2, <3>1, <3>2, <4>1
      <4>2. CASE p # r
        <5>1. Opening(p) /\ requests'[p].answer = requests[p].answer
          BY <2>1, <3>4, <4>2
        <5>2. requests[p].answer.session # new.session
          BY <3>2, <5>1 DEF Opening
        <5>3. \A q \in Requests \ {p} : requests'[q].answer # None =>
                                          requests'[q].answer.session # requests[p].answer.session
          BY <1>3, <1>4, <5>1, <5>2 DEF OpeningInv
        <5> QED
          BY <2>2, <5>1, <5>3 DEF OpeningInv
      <4> QED
        BY <4>1, <4>2
    <3> QED
      BY <1>3, <3>4 DEF OpeningInv
  <2>4. CASE requests[r].kind = "refresh"
    <3>1. \A p \in Requests : Opening(p)' => p # r
      BY <1>4, <2>4 DEF Opening
    <3>2. \A p \in Requests : Opening(p) => requests[p].answer.session # new.session
      BY <1>2, <1>7, <2>4, TokensTyped, NoneIsNothing DEF OpeningInv
    <3>3. ASSUME NEW p \in Requests, Opening(p)', NEW q \in Requests \ {p},
                 requests'[q].answer # None
          PROVE  requests'[q].answer.session # requests'[p].answer.session
      BY <1>3, <1>4, <2>1, <3>1, <3>2, <3>3 DEF OpeningInv
    <3> QED
      BY <1>3, <2>1, <2>2, <3>1, <3>3 DEF OpeningInv
  <2> QED
    BY <2>3, <2>4
<1>10. EndedInv'
  <2>1. \A p \in Requests : /\ requests'[p].cookie = requests[p].cookie
                            /\ requests'[p].epoch = requests[p].epoch
                            /\ requests'[p].kind = requests[p].kind
    BY <1>3, <1>4
  <2> SUFFICES ASSUME "keyring" \notin faulty
               PROVE  EndedInv'
    BY <1>3 DEF EndedInv
  <2>2. \A s \in Servers : ring'[s] # None => ring'[s].session \notin ended'
    BY <1>3 DEF EndedInv
  <2>3. ASSUME running, ~blocked, ring[target] = None
        PROVE  /\ current # None => current.token.session \notin ended
               /\ \A p \in Requests :
                     /\ requests'[p].epoch = epoch /\ requests'[p].kind = "refresh"
                     /\ requests'[p].cookie # None
                     => requests'[p].cookie.session \notin ended
    BY <2>1, <2>3 DEF EndedInv, Targeted
  <2> QED
    BY <1>3, <2>2, <2>3 DEF EndedInv, Targeted
<1> QED
  BY <1>8, <1>9, <1>10

\* A session that is ended is in no keyring that works.
LEMMA ClearedSessions ==
    ASSUME Sessions, Bound', Cleared, \A r \in Requests : requests'[r] \in {requests[r], Idle},
           UNCHANGED <<running, target, epoch, issued, faulty>>
    PROVE  Sessions'
<1>1. /\ \A s \in Servers \ {target} : ring'[s] = ring[s]
      /\ ring'[target] \in {None, ring[target]} /\ ("keyring" \notin faulty => ring'[target] = None)
      /\ ended' = ended \cup Present /\ current' = None /\ blocked' = TRUE
  BY DeleteTyped DEF Cleared, Sessions, Bound, TypeOK
<1>2. TokenInv' /\ OpeningInv'
  BY <1>1, LostSessions
<1>3. EndedInv'
  <2>1. ASSUME "keyring" \notin faulty, NEW s \in Servers, ring'[s] # None
        PROVE  ring'[s].session \notin ended'
    BY <1>1, <2>1, ElsewhereIsNotPresent DEF Sessions, EndedInv
  <2> QED
    BY <1>1, <2>1 DEF EndedInv
<1> QED
  BY <1>2, <1>3 DEF Sessions

\* A switch ends the session it leaves, as far as no refresh is under way.
LEMMA ForgottenSessions ==
    ASSUME Sessions, Bound', NEW r \in Requests, Forget(r)
    PROVE  Sessions'
<1> USE DEF Sessions, Bound
<1>1. /\ \A s \in Servers : ring'[s] \in {ring[s], None}
      /\ \A q \in Requests : requests'[q] \in {requests[q], Idle}
  BY DEF Forget, Delete, Finish, TypeOK
<1>2. TokenInv' /\ OpeningInv'
  BY <1>1, LostSessions DEF Forget, memory
<1>3. "keyring" \notin faulty => ring'[target] = None
  BY DeleteTyped DEF Forget, At, TargetInv, TypeOK
<1>4. EndedInv'
  <2> SUFFICES ASSUME "keyring" \notin faulty PROVE EndedInv'
    BY DEF Forget, EndedInv
  <2>1. ended' = (ended \cup Present) \ Refreshing /\ current' = None /\ target' = target
    BY DEF Forget, memory
  <2>2. ASSUME NEW s \in Servers, ring'[s] # None PROVE ring'[s].session \notin ended'
    <3>1. ring'[s] = ring[s]
      BY <1>1, <2>2
    <3>2. CASE s = target
      BY <1>3, <2>2, <3>2
    <3>3. CASE s # target
      BY <2>1, <2>2, <3>1, <3>3, ElsewhereIsNotPresent DEF EndedInv
    <3> QED
      BY <3>2, <3>3
  <2>3. ASSUME NEW q \in Requests, requests'[q].kind = "refresh", requests'[q].cookie # None
        PROVE  requests'[q].cookie.session \notin ended'
    <3>1. requests'[q] = requests[q]
      BY <1>1, <2>3 DEF Idle
    <3> QED
      BY <2>1, <2>3, <3>1 DEF Refreshing
  <2> QED
    BY <2>1, <2>2, <2>3 DEF EndedInv
<1> QED
  BY <1>2, <1>4

\* A session that is taken up is a new one, or one that nobody ended.
LEMMA ReleasedSessions ==
    ASSUME Sessions, Bound', NEW r \in Requests, running, Released(r), Finish(r),
           UNCHANGED <<running, target, epoch, issued, faulty>>
    PROVE  Sessions'
<1> USE DEF Sessions, Bound
<1> DEFINE new == requests[r].answer
<1>1. /\ \A s \in Servers \ {target} : ring'[s] = ring[s]
      /\ ring'[target] \in {new, None, ring[target]} /\ ("keyring" \notin faulty => ring'[target] = new)
      /\ current' = [token |-> new, epoch |-> epoch]
      /\ new \in Token /\ new # None /\ new.server = target /\ new \in Tokens
      /\ current' # None /\ current'.token = new
  BY ReplaceTyped, NoneIsNothing, TokensTyped
     DEF Released, Persist, Targeted, TypeOK, TokenInv, RequestInv
<1>2. /\ requests'[r] = Idle
      /\ \A p \in Requests \ {r} : requests'[p] = requests[p]
      /\ Idle.cookie = None /\ Idle.answer = None /\ RequestInv(Idle)
  BY DEF Finish, TypeOK, Idle, RequestInv
<1>3. ended' \subseteq ended \cup Present
  BY DEF Released
<1> HIDE DEF new
<1>4. Tokens' \subseteq Tokens
  BY <1>1, <1>2, TokensTyped, TokensFrom
<1>5. TokenInv'
  <2>1. \A p \in Requests : RequestInv(requests'[p])
    BY <1>2 DEF TokenInv
  <2> QED
    BY <1>1, <1>3, <1>4, <2>1, FewerTokens DEF TokenInv
<1>6. OpeningInv'
  <2>1. ASSUME NEW p \in Requests, Opening(p)'
        PROVE  /\ p # r /\ Opening(p) /\ requests'[p] = requests[p]
               /\ requests[p].answer.session \notin Present \cup {new.session}
    BY <1>1, <1>2, <2>1, OpeningIsNotPresent DEF Opening, OpeningInv, new
  <2> QED
    BY <1>1, <1>2, <1>3, <2>1 DEF OpeningInv
<1>7. EndedInv'
  <2> SUFFICES ASSUME "keyring" \notin faulty PROVE EndedInv'
    BY DEF EndedInv
  <2>1. new.session \notin ended'
    <3>1. CASE requests[r].kind \in {"login", "browser"}
      BY <1>1, <3>1, OpeningIsNotPresent DEF Released, OpeningInv, Opening, new
    <3>2. CASE requests[r].kind \notin {"login", "browser"}
      <4>1. requests[r].kind = "refresh"
        BY <1>1, <3>2 DEF Released, TokenInv, RequestInv, Kinds, new
      <4>2. requests[r].cookie # None /\ new.session = requests[r].cookie.session
        BY <1>1, <4>1 DEF TokenInv, RequestInv, new
      <4>3. ~blocked /\ ended' = ended /\ ring[target] \in {None, requests[r].cookie}
        BY <3>2, <4>2 DEF Released, Stored
      <4>4. Targeted(r)
        BY DEF Released
      <4>5. requests[r].cookie.session \notin ended
        BY <4>1, <4>2, <4>3, <4>4 DEF EndedInv, TypeOK
      <4> QED
        BY <4>2, <4>3, <4>5
    <3> QED
      BY <3>1, <3>2
  <2>2. \A s \in Servers : ring'[s] # None => ring'[s].session \notin ended'
    BY <1>1, <1>3, <2>1, ElsewhereIsNotPresent DEF EndedInv
  <2> QED
    BY <1>1, <2>2 DEF EndedInv, TypeOK
<1> QED
  BY <1>5, <1>6, <1>7

\* Every step keeps the sessions apart.
LEMMA StepSessions == Sessions /\ [Next]_vars => Sessions'
<1> SUFFICES ASSUME Sessions, [Next]_vars PROVE Sessions'
  OBVIOUS
<1>0. Bound'
  BY StepBound DEF Sessions
<1>1. CASE Quit
  <2>1. TokenInv' /\ OpeningInv'
    BY <1>0, <1>1, LostSessions DEF Quit
  <2>2. EndedInv'
    BY <1>1 DEF Quit, Sessions, EndedInv
  <2> QED
    BY <1>0, <2>1, <2>2 DEF Sessions
<1>2. CASE Start
  <2>1. current = None /\ \A r \in Requests : requests[r] = Idle /\ Idle.cookie = None
    BY <1>2 DEF Start, Sessions, Bound, TargetInv, Idle
  <2>2. TokenInv' /\ OpeningInv'
    BY <1>0, <1>2, <2>1, LostSessions DEF Start
  <2>3. EndedInv'
    BY <1>2, <2>1 DEF Start, Sessions, EndedInv
  <2> QED
    BY <1>0, <2>2, <2>3 DEF Sessions
<1>3. CASE UNCHANGED session /\ UNCHANGED <<running, target, epoch, requests, issued, faulty>>
  <2>1. UNCHANGED <<running, target, epoch, requests, issued, faulty, blocked, ring, current, ended>>
    BY <1>3 DEF session
  <2>2. Tokens' = Tokens /\ \A r \in Requests : Opening(r)' <=> Opening(r)
    BY <2>1 DEF Tokens, Opening
  <2>3. TokenInv' /\ OpeningInv' /\ EndedInv'
    BY <2>1, <2>2 DEF Sessions, TokenInv, OpeningInv, Opening, EndedInv, Targeted
  <2> QED
    BY <1>0, <2>3 DEF Sessions
<1>4. CASE Clear
  BY <1>0, <1>3, <1>4, ClearForm, ClearedSessions DEF Clear
<1>5. CASE Activate
  <2>1. TokenInv' /\ OpeningInv'
    BY <1>0, <1>5, LostSessions DEF Activate
  <2>2. EndedInv'
    BY <1>5 DEF Activate, Sessions, EndedInv
  <2> QED
    BY <1>0, <2>1, <2>2 DEF Sessions
<1>6. ASSUME NEW r \in Requests
      PROVE  requests[r] \in Request /\ RequestInv(requests[r])
  BY DEF Sessions, Bound, TypeOK, TokenInv
<1>7. ASSUME NEW r \in Requests, NEW kind \in Kinds, Ask(r, kind)
      PROVE  Sessions'
  <2> PICK cookie \in {None} \cup (IF current = None \/ kind \in {"login", "browser"}
                                 THEN {} ELSE {current.token}) :
          requests' = [requests EXCEPT ![r] =
             [step |-> "bound", kind |-> kind, server |-> target, epoch |-> epoch,
              cookie |-> cookie, answer |-> None]]
    BY <1>7 DEF Ask
  <2> DEFINE q == [step |-> "bound", kind |-> kind, server |-> target, epoch |-> epoch,
                   cookie |-> cookie, answer |-> None]
  <2>1. cookie = None \/ (current # None /\ cookie = current.token)
    OBVIOUS
  <2>2. cookie \in Token \cup {None}
    BY <2>1 DEF Sessions, Bound, TypeOK
  <2>3. q \in Request
    BY <2>2 DEF Sessions, Bound, TypeOK, Request, Steps
  <2>4. RequestInv(q)
    BY <2>1 DEF RequestInv, Sessions, TokenInv
  <2>5. q.cookie = cookie /\ q.answer = None /\ requests' = [requests EXCEPT ![r] = q]
    OBVIOUS
  <2> HIDE DEF q
  <2> QED
    BY <1>0, <1>7, <2>1, <2>3, <2>4, <2>5, MovedSessions DEF Ask, memory
<1>8. ASSUME NEW r \in Requests, Send(r)
      PROVE  Sessions'
  <2> PICK cookie \in IF blocked \/ requests[r].cookie = None THEN Injected(r)
                      ELSE {requests[r].cookie} :
          requests' = [requests EXCEPT ![r].step = "sent", ![r].cookie = cookie]
    BY <1>8 DEF Send
  <2> DEFINE q == [requests[r] EXCEPT !.step = "sent", !.cookie = cookie]
  <2>1. \/ cookie = None
        \/ cookie = requests[r].cookie
        \/ Targeted(r) /\ cookie = ring[requests[r].server]
    BY DEF Injected, Stored
  <2>2. /\ requests[r].step = "bound" /\ requests[r].server \in Servers
        /\ requests[r].answer = None
        /\ Targeted(r) => requests[r].server = target
    BY <1>6, <1>8 DEF Send, At, Sessions, Bound, TargetInv, Request
  <2>3. cookie \in Token \cup {None}
    BY <1>6, <2>1, <2>2 DEF Sessions, Bound, TypeOK, Request
  <2>4. q \in Request /\ requests' = [requests EXCEPT ![r] = q]
    BY <1>6, <2>3 DEF Sessions, Bound, TypeOK, Request, Steps
  <2>5. /\ q.step = "sent" /\ q.cookie = cookie /\ q.answer = None
        /\ q.kind = requests[r].kind /\ q.server = requests[r].server
        /\ q.epoch = requests[r].epoch
    BY <1>6, <2>2 DEF Request
  <2> HIDE DEF q
  <2>6. cookie # None => cookie.server = requests[r].server
    BY <1>6, <2>1, <2>2 DEF RequestInv, Sessions, TokenInv
  <2>7. RequestInv(q)
    BY <1>6, <2>2, <2>5, <2>6 DEF RequestInv
  <2>8. \/ q.cookie = None
        \/ /\ q.cookie = requests[r].cookie /\ q.epoch = requests[r].epoch
           /\ q.kind = requests[r].kind
        \/ \E s \in Servers : q.cookie = ring[s] /\ (q.epoch = epoch => s = target)
    BY <2>1, <2>2, <2>5 DEF Targeted
  <2> QED
    BY <1>0, <1>8, <2>4, <2>5, <2>7, <2>8, MovedSessions DEF Send, memory
<1>9. ASSUME NEW r \in Requests, Finish(r), running,
             UNCHANGED <<running, target, epoch, blocked, ring, issued, current, ended, faulty>>
      PROVE  Sessions'
  <2>1. /\ Idle \in Request /\ Idle.answer = None /\ Idle.cookie = None /\ RequestInv(Idle)
    BY DEF Idle, Request, Steps, RequestInv
  <2> QED
    BY <1>0, <1>9, <2>1, MovedSessions DEF Finish
<1>10. ASSUME NEW r \in Requests,
              \/ Move(r, "sent") /\ requests[r].step = "bound"
              \/ Move(r, "forget") /\ requests[r].step = "probing",
              UNCHANGED <<running, target, epoch, blocked, ring, issued, current, ended, faulty>>
       PROVE  Sessions'
  <2> PICK step \in {"sent", "forget"} : Move(r, step)
    BY <1>10
  <2> DEFINE q == [requests[r] EXCEPT !.step = step]
  <2>1. q \in Request /\ requests' = [requests EXCEPT ![r] = q]
    BY <1>6 DEF Sessions, Bound, TypeOK, Request, Steps, Move
  <2>2. /\ q.step = step /\ q.cookie = requests[r].cookie /\ q.answer = requests[r].answer
        /\ q.kind = requests[r].kind /\ q.server = requests[r].server
        /\ q.epoch = requests[r].epoch
    BY <1>6 DEF Request
  <2>3. requests'[r].step = step
    BY <2>1, <2>2 DEF Sessions, Bound, TypeOK
  <2>4. step = "sent" <=> requests[r].step = "bound"
    BY <1>6, <1>10, <2>3 DEF Move, Sessions, Bound, TypeOK, Request
  <2> HIDE DEF q
  <2>5. RequestInv(q)
    BY <1>6, <1>10, <2>2, <2>4 DEF RequestInv
  <2> QED
    BY <1>0, <1>10, <2>1, <2>2, <2>5, MovedSessions
<1>11. ASSUME NEW r \in Requests, Callback(r)
       PROVE  Sessions'
  BY <1>9, <1>10, <1>11 DEF Callback, At, memory
<1>12. ASSUME NEW r \in Requests, Serve(r)
       PROVE  Sessions'
  BY <1>0, <1>12, ServedSessions
<1>13. ASSUME NEW r \in Requests, Drop(r)
       PROVE  Sessions'
  BY <1>9, <1>13 DEF Drop, memory
<1>14. ASSUME NEW r \in Requests, Receive(r)
       PROVE  Sessions'
  <2>1. running /\ Finish(r)
        /\ UNCHANGED <<running, target, epoch, managed, pending, issued, faulty>>
    BY <1>14 DEF Receive, At
  <2>2. CASE UNCHANGED session
    BY <1>9, <2>1, <2>2 DEF session
  <2>3. CASE Cleared
    <3>1. \A q \in Requests : requests'[q] \in {requests[q], Idle}
      BY <2>1 DEF Finish, Sessions, Bound, TypeOK
    <3> QED
      BY <1>0, <2>1, <2>3, <3>1, ClearedSessions
  <2>4. CASE Released(r)
    BY <1>0, <2>1, <2>4, ReleasedSessions
  <2> QED
    BY <1>14, <2>2, <2>3, <2>4, ReceiveForms DEF Sessions, Bound
<1>15. ASSUME NEW r \in Requests, Switch(r)
       PROVE  Sessions'
  <2> DEFINE q == [requests[r] EXCEPT !.step = "probing", !.kind = "switch",
                                      !.server = target, !.epoch = epoch]
  <2>1. q \in Request /\ requests' = [requests EXCEPT ![r] = q]
    BY <1>6, <1>15 DEF Switch, Sessions, Bound, TypeOK, Request, Steps
  <2>2. /\ q.step = "probing" /\ q.cookie = requests[r].cookie /\ q.answer = requests[r].answer
    BY <1>6 DEF Request
  <2> HIDE DEF q
  <2>3. q.cookie = None /\ q.answer = None
    BY <1>6, <1>15, <2>2 DEF Switch, At, RequestInv, Sessions, Bound, TargetInv
  <2>4. RequestInv(q)
    BY <2>2, <2>3 DEF RequestInv
  <2> QED
    BY <1>0, <1>15, <2>1, <2>3, <2>4, MovedSessions DEF Switch, memory
<1>16. ASSUME NEW r \in Requests, Prepare(r)
       PROVE  Sessions'
  BY <1>9, <1>10, <1>16 DEF Prepare, At
<1>17. ASSUME NEW r \in Requests, Forget(r)
       PROVE  Sessions'
  BY <1>0, <1>17, ForgottenSessions
<1>18. CASE UNCHANGED vars
  BY <1>3, <1>18 DEF vars, memory, session
<1> QED
  BY <1>1, <1>2, <1>4, <1>5, <1>7, <1>8, <1>11, <1>12, <1>13, <1>14, <1>15, <1>16, <1>17, <1>18
     DEF Next

\* A session that was ended stays out, whatever answer comes late and wherever
\* the application is stopped, and whether or not the file could be written: the
\* comparison with the keyring in markRefreshed and the block suffice while the
\* keyring works, but for a refresh under way when a switch deletes the credential.
THEOREM EndedIsNotTakenUp == Spec => []EndedStaysOut
<1>1. Sessions => EndedStaysOut
  BY DEF Sessions, Bound, TypeOK, EndedInv, EndedStaysOut
<1> QED
  BY <1>1, InitSessions, StepSessions, PTL DEF Spec
=============================================================================
