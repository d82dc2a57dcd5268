------------------------ MODULE ChannelManager_proofs ------------------------
(***************************************************************************)
(* What the channel controls owe to the printers, for any printers, access  *)
(* lists and published policies, wherever the service stops.                *)
(***************************************************************************)
EXTENDS ChannelManager, TLAPS

\* The restriction of an access list, and the list, are access lists.
LEMMA ListsTyped ==
    ASSUME NEW b \in Bases, NEW d \in BOOLEAN
    PROVE  [base |-> b, deny |-> d] \in ACL /\ [base |-> b, deny |-> d] # None
BY ChannelAssumption DEF ACL

\* A restriction on a queue has a base, so that its printer is journaled.
LEMMA NoListOfNone ==
    ASSUME TypeOK, NEW p \in Printers, acl[p] = Expected(p)
    PROVE  journal[p] # None
<1>1. CASE acl[p] \in ACL
  <2>1. acl[p].base \in Bases
    BY <1>1 DEF ACL
  <2>2. acl[p].base = journal[p]
    BY DEF Expected
  <2> QED
    BY <2>1, <2>2, ChannelAssumption
<1>2. CASE acl[p] = None
  <2>1. journal[p] \in Bases \cup {None}
    BY DEF TypeOK, Journals
  <2>2. Expected(p) \in [base : Bases \cup {None}, deny : BOOLEAN]
    BY <2>1 DEF Expected
  <2> QED
    BY <1>2, <2>2, ChannelAssumption
<1>3. acl[p] \in ACL \cup {None}
  BY DEF TypeOK
<1> QED
  BY <1>1, <1>2, <1>3

\* A new service, and queues that nobody restricted for it.
LEMMA InitChannelInv == Init => TypeOK /\ ChannelInv
BY DEF Init, TypeOK, ChannelInv, Journals, Stages, Empty

\* What a write of an access list does to its queue.
LEMMA SetTyped ==
    ASSUME TypeOK, NEW p \in Printers, NEW list \in ACL, Set(p, list)
    PROVE  /\ acl' \in [Printers -> ACL \cup {None}] /\ ours' \in [Printers -> BOOLEAN]
           /\ acl'[p] = list /\ ours'[p] = list.deny
           /\ \A q \in Printers \ {p} : acl'[q] = acl[q] /\ ours'[q] = ours[q]
BY DEF TypeOK, Set, ACL

\* restrictPrinter and restorePrinter write the restriction of a journaled
\* list or the list itself, and nothing else.
LEMMA WriteTyped ==
    ASSUME TypeOK, ChannelInv, pc # "stopped", UNCHANGED journalFile,
           NEW p \in Printers, journal[p] # None,
           \/ Write(p, Original(p), Expected(p))
           \/ acl[p] = Expected(p) /\ Set(p, Original(p))
    PROVE  /\ acl' \in [Printers -> ACL \cup {None}] /\ ours' \in [Printers -> BOOLEAN]
           /\ \A q \in Printers : ours'[q] =>
                 /\ acl'[q] = [base |-> journalFile'[q], deny |-> TRUE]
                 /\ journalFile'[q] # None
           /\ \A q \in Printers : acl'[q] # acl[q] =>
                 {acl[q], acl'[q]} = {[base |-> journalFile[q], deny |-> FALSE],
                                      [base |-> journalFile[q], deny |-> TRUE]}
           /\ \A q \in Printers : acl'[q] # acl[q] => q = p
<1>1. journal[p] \in Bases /\ journal[p] = journalFile[p]
  BY DEF TypeOK, Journals, ChannelInv
<1>2. /\ Original(p) \in ACL /\ Expected(p) \in ACL
      /\ ~Original(p).deny /\ Expected(p).deny
  BY <1>1, ListsTyped DEF Original, Expected
<1>3. CASE acl[p] = Original(p) /\ Set(p, Expected(p))
  <2>1. /\ acl' \in [Printers -> ACL \cup {None}] /\ ours' \in [Printers -> BOOLEAN]
        /\ acl'[p] = Expected(p) /\ ours'[p]
        /\ \A q \in Printers \ {p} : acl'[q] = acl[q] /\ ours'[q] = ours[q]
    BY <1>2, <1>3, SetTyped
  <2> QED
    BY <1>1, <1>3, <2>1 DEF ChannelInv, Original, Expected
<1>4. CASE acl[p] = Expected(p) /\ Set(p, Original(p))
  <2>1. /\ acl' \in [Printers -> ACL \cup {None}] /\ ours' \in [Printers -> BOOLEAN]
        /\ acl'[p] = Original(p) /\ ~ours'[p]
        /\ \A q \in Printers \ {p} : acl'[q] = acl[q] /\ ours'[q] = ours[q]
    BY <1>2, <1>4, SetTyped
  <2>2. ASSUME NEW q \in Printers, acl'[q] # acl[q]
        PROVE  /\ q = p
               /\ {acl[q], acl'[q]} = {[base |-> journalFile[q], deny |-> FALSE],
                                       [base |-> journalFile[q], deny |-> TRUE]}
    <3>1. /\ q = p
          /\ acl[q] = [base |-> journalFile[q], deny |-> TRUE]
          /\ acl'[q] = [base |-> journalFile[q], deny |-> FALSE]
      BY <1>1, <1>4, <2>1, <2>2 DEF Original, Expected
    <3> QED
      BY <3>1
  <2> QED
    BY <2>1, <2>2 DEF ChannelInv
<1>5. CASE UNCHANGED queues
  BY <1>5 DEF queues, TypeOK, ChannelInv
<1> QED
  BY <1>3, <1>4, <1>5 DEF Write

\* Journal entries are made for queues that are not restricted, and removed for
\* queues that are not restricted any more.
LEMMA EntryTyped ==
    ASSUME TypeOK, ChannelInv, pc # "stopped", UNCHANGED queues,
           NEW p \in Printers, NEW b \in Bases \cup {None}, ~ours[p],
           journal' = [journal EXCEPT ![p] = b], journalFile' = journal'
    PROVE  /\ journal' \in Journals /\ journalFile' \in Journals
           /\ \A q \in Printers : ours'[q] =>
                 /\ acl'[q] = [base |-> journalFile'[q], deny |-> TRUE]
                 /\ journalFile'[q] # None
BY DEF TypeOK, ChannelInv, Journals, queues

\* A queue with its original list, or without a list, is not restricted by us.
LEMMA NotOurs ==
    ASSUME TypeOK, ChannelInv, NEW p \in Printers,
           acl[p] \in {None, Original(p)} \/ ~Denied(p)
    PROVE  ~ours[p]
<1> SUFFICES ASSUME ours[p] PROVE FALSE
  BY DEF TypeOK
<1>1. /\ acl[p] = [base |-> journalFile[p], deny |-> TRUE]
      /\ journalFile[p] \in Bases
  BY DEF TypeOK, ChannelInv, Journals
<1>2. acl[p] # None
  BY <1>1, ListsTyped
<1>3. acl[p].deny = TRUE
  BY <1>1
<1>4. acl[p] # Original(p)
  BY <1>3 DEF Original
<1> QED
  BY <1>2, <1>3, <1>4 DEF Denied

\* Every step keeps the types and what the journal is for.
LEMMA StepChannelInv == TypeOK /\ ChannelInv /\ [Next]_vars => (TypeOK /\ ChannelInv)'
<1> SUFFICES ASSUME TypeOK, ChannelInv, [Next]_vars PROVE (TypeOK /\ ChannelInv)'
  OBVIOUS
<1>1. CASE Start
  BY <1>1 DEF Start, Go, TypeOK, ChannelInv, queues, Stages
<1>2. CASE Poll \/ Mark \/ Accept \/ Reconcile \/ GiveUp \/ Report
  <2>1. /\ UNCHANGED <<journal, journalFile, queues, removal>>
        /\ pc # "stopped" /\ pc' # "stopped"
    BY <1>2 DEF Poll, Mark, Accept, Reconcile, GiveUp, Report, Go, memory, files
  <2>2. todo' \in SUBSET Printers
    BY <1>2 DEF Poll, Mark, Accept, Reconcile, GiveUp, Report, Go, Present, Journaled, TypeOK
  <2> QED
    BY <2>1, <2>2 DEF TypeOK, ChannelInv, queues
<1>3. ASSUME NEW p \in Printers, Again(p) \/ Restrict(p)
      PROVE  (TypeOK /\ ChannelInv)'
  <2>1. /\ UNCHANGED <<journal, journalFile, removal>> /\ todo' = todo \ {p}
        /\ pc # "stopped" /\ pc' # "stopped" /\ journal[p] # None
        /\ Write(p, Original(p), Expected(p))
    BY <1>3 DEF Again, Restrict, Done, memory, files
  <2> QED
    BY <2>1, WriteTyped DEF TypeOK, ChannelInv
<1>4. ASSUME NEW p \in Printers, Journal(p)
      PROVE  (TypeOK /\ ChannelInv)'
  <2>1. /\ UNCHANGED <<queues, removal>> /\ todo' \in SUBSET Printers
        /\ pc # "stopped" /\ pc' # "stopped"
    BY <1>4 DEF Journal, Go, Done, TypeOK
  <2>2. CASE UNCHANGED <<journal, journalFile>>
    BY <2>1, <2>2 DEF TypeOK, ChannelInv, queues
  <2>3. CASE /\ p \in Present /\ ~Denied(p)
             /\ journal' = [journal EXCEPT ![p] = acl[p].base] /\ journalFile' = journal'
    <3>1. acl[p].base \in Bases
      BY <2>3 DEF TypeOK, Present, ACL
    <3> QED
      BY <2>1, <2>3, <3>1, NotOurs, EntryTyped DEF TypeOK, ChannelInv, queues
  <2> QED
    BY <1>4, <2>2, <2>3 DEF Journal
<1>5. ASSUME NEW p \in Printers, Restore(p)
      PROVE  (TypeOK /\ ChannelInv)'
  <2>1. /\ UNCHANGED <<journal, journalFile, removal>> /\ todo' \in SUBSET Printers
        /\ pc # "stopped" /\ pc' # "stopped"
    BY <1>5 DEF Restore, Go, Done, memory, files, TypeOK
  <2>2. CASE UNCHANGED queues
    BY <2>1, <2>2 DEF TypeOK, ChannelInv, queues
  <2>3. CASE acl[p] = Expected(p) /\ Set(p, Original(p))
    BY <2>1, <2>3, NoListOfNone, WriteTyped DEF TypeOK, ChannelInv
  <2> QED
    BY <1>5, <2>2, <2>3 DEF Restore
<1>6. ASSUME NEW p \in Printers, Forget(p)
      PROVE  (TypeOK /\ ChannelInv)'
  <2>1. /\ UNCHANGED <<queues, removal>> /\ todo' \in SUBSET Printers
        /\ pc # "stopped" /\ pc' # "stopped" /\ ~ours[p]
    BY <1>6, NotOurs DEF Forget, Done, TypeOK
  <2>2. CASE UNCHANGED <<journal, journalFile>>
    BY <2>1, <2>2 DEF TypeOK, ChannelInv, queues
  <2>3. CASE journal' = [journal EXCEPT ![p] = None] /\ journalFile' = journal'
    BY <2>1, <2>3, EntryTyped DEF TypeOK, ChannelInv, queues
  <2> QED
    BY <1>6, <2>2, <2>3 DEF Forget
<1>7. CASE Stop
  BY <1>7 DEF Stop, TypeOK, ChannelInv, queues, files, Empty, Journals
<1>8. CASE Uninstall
  BY <1>8 DEF Uninstall, CheckNativeChannelRemoval, TypeOK, ChannelInv, queues, memory, Stages
<1>9. CASE Publish \/ Heal \/ UNCHANGED vars
  BY <1>9 DEF Publish, Heal, vars, TypeOK, ChannelInv, queues, memory, files
<1>10. ASSUME NEW p \in Printers, Edit(p)
       PROVE  (TypeOK /\ ChannelInv)'
  BY <1>10 DEF Edit, TypeOK, ChannelInv, memory, files
<1> QED
  BY <1>1, <1>2, <1>3, <1>4, <1>5, <1>6, <1>7, <1>8, <1>9, <1>10 DEF Next, Round

\* The journal in memory is the file's and accounts for every restriction.
LEMMA ChannelInvariant == Spec => []TypeOK /\ []ChannelInv
BY InitChannelInv, StepChannelInv, PTL DEF Spec

\* However the service is stopped between the journal and the access list, the
\* original list of a restricted printer is in the file (channels_windows.go).
THEOREM RestrictedIsJournaled == Spec => []OriginalKept
<1>1. ASSUME ChannelInv, NEW p \in Printers, ours[p]
      PROVE  journalFile[p] = acl[p].base
  <2>1. acl[p] = [base |-> journalFile[p], deny |-> TRUE]
    BY <1>1 DEF ChannelInv
  <2> QED
    BY <2>1
<1>2. ChannelInv => OriginalKept
  BY <1>1 DEF OriginalKept
<1> QED
  BY <1>2, ChannelInvariant, PTL

\* The service is removed only when none of its restrictions is left behind
\* (uninstallService, CheckNativeChannelRemoval).
THEOREM RemovalIsClean == Spec => []RemovalLeavesNothing
<1>1. ChannelInv => RemovalLeavesNothing
  BY DEF ChannelInv, RemovalLeavesNothing
<1> QED
  BY <1>1, ChannelInvariant, PTL

\* Nothing but a journaled list is replaced, by nothing but its restriction, and
\* back (restrictPrinter, restorePrinter).
THEOREM OnlyJournaledChange == Spec => PrintersAreGuarded
<1> DEFINE Guarded ==
       \A p \in Printers : acl'[p] # acl[p] /\ (pc' # pc \/ todo' # todo) =>
          /\ journalFile[p] # None
          /\ {acl[p], acl'[p]} = {[base |-> journalFile[p], deny |-> FALSE],
                                  [base |-> journalFile[p], deny |-> TRUE]}
<1>1. ASSUME TypeOK, ChannelInv, [Next]_vars
      PROVE  Guarded
  <2>1. ASSUME NEW p \in Printers, Again(p) \/ Restrict(p) \/ Restore(p), ~UNCHANGED queues
        PROVE  Guarded
    <3>1. pc # "stopped" /\ UNCHANGED journalFile
      BY <2>1 DEF Again, Restrict, Restore, files
    <3>2. \/ Write(p, Original(p), Expected(p)) /\ journal[p] # None
          \/ acl[p] = Expected(p) /\ Set(p, Original(p))
      BY <2>1 DEF Again, Restrict, Restore
    <3>3. journal[p] # None
      BY <1>1, <3>2, NoListOfNone
    <3>4. \A q \in Printers : acl'[q] # acl[q] =>
             /\ q = p
             /\ {acl[q], acl'[q]} = {[base |-> journalFile[q], deny |-> FALSE],
                                     [base |-> journalFile[q], deny |-> TRUE]}
      BY <1>1, <3>1, <3>2, <3>3, WriteTyped
    <3> QED
      BY <1>1, <3>1, <3>3, <3>4 DEF ChannelInv
  <2>2. CASE UNCHANGED queues
    BY <2>2 DEF queues
  <2>3. ASSUME NEW p \in Printers, Edit(p)
        PROVE  Guarded
    BY <2>3 DEF Edit
  <2> QED
    BY <1>1, <2>1, <2>2, <2>3
       DEF Next, Round, Start, Poll, Mark, Accept, Reconcile, GiveUp, Report, Journal, Forget,
           Stop, Uninstall, Publish, Heal, vars
<1>2. TypeOK /\ ChannelInv /\ [Next]_vars => [Guarded]_vars
  BY <1>1
<1> QED
  BY <1>2, ChannelInvariant, PTL DEF Spec, PrintersAreGuarded
=============================================================================
