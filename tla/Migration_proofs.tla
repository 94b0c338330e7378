--------------------------- MODULE Migration_proofs ---------------------------
(***************************************************************************)
(* Types and records that are written ahead, for every choice of Faults;   *)
(* then who owns the task: one owner for every generation, ownership that  *)
(* moves only by a committed activation, and decisions that stay as they   *)
(* were taken, for every choice of Faults without those that the runs show *)
(* to break them.  All of it for every set of nodes and migrations and for *)
(* every bound.                                                            *)
(***************************************************************************)
EXTENDS Migration, TLAPS

-------------------------------------------------------------------------------
(* The transitions of the registry keep entries well-formed. *)

(* Every mark_*, claim_local and restore_local_after_failure of the registry
   yields an entry again. *)
LEMMA EntryTransitions ==
    ASSUME NEW n \in Nodes, NEW e \in Entry
    PROVE  /\ \A p \in Pids : MarkRunning(e, p) \in Entry
           /\ \A m \in Migrations : MarkMigrating(e, m) \in Entry
           /\ MarkFailed(e) \in Entry
           /\ BeginRecovery(e) \in Entry
           /\ MarkExhausted(e) \in Entry
           /\ MarkCompleted(e) \in Entry
           /\ MarkStopped(e) \in Entry
           /\ \A g \in Nat, m \in Migrations : ClaimLocal(n, e, g, m) \in Entry
           /\ \A o \in Nodes, g \in Nat, m \in Migrations : MarkRemote(e, o, g, m) \in Entry
           /\ \A g \in Nat : RestoreLocal(n, e, g) \in Entry
  BY DEF Entry, Status, NoPid, MarkRunning, MarkMigrating, MarkFailed, BeginRecovery,
         MarkExhausted, MarkCompleted, MarkStopped, ClaimLocal, MarkRemote, RestoreLocal

(* So does apply_ownership, whatever a peer's registry says. *)
LEMMA OwnershipType ==
    ASSUME NEW n \in Nodes, NEW e \in Entry, NEW f \in Entry
    PROVE  ApplyOwnership(n, e, Claim(f)) \in Entry
<1> DEFINE u == Claim(f)
           known == [e EXCEPT !.owner = u.owner, !.gen = u.gen,
                              !.last = IF u.last = NoMigration THEN @ ELSE u.last]
<1>1. u.owner \in Nodes /\ u.gen \in Nat /\ u.last \in Migrations \cup {NoMigration}
  BY DEF Claim, Entry
<1>2. u.completed = (f.status = "completed")
  BY DEF Claim
<1> HIDE DEF u
<1>3. known \in Entry
  BY <1>1 DEF Entry
<1> HIDE DEF known
<1>4. /\ [known EXCEPT !.status = "completed", !.pid = NoPid] \in Entry
      /\ [known EXCEPT !.status = "remote", !.pid = NoPid] \in Entry
  BY <1>3 DEF Entry, Status, NoPid
<1>5. CASE f.status = "completed"
  BY <1>2, <1>4, <1>5 DEF ApplyOwnership, u, known
<1>6. CASE f.status # "completed"
  BY <1>2, <1>3, <1>4, <1>6 DEF ApplyOwnership, u, known
<1> QED
  BY <1>5, <1>6

(* The entry a registry starts with. *)
LEMMA InitialEntryType ==
    \A n \in Nodes : InitialEntry(n, Home) \in Entry
  BY ConstantsAssumption DEF InitialEntry, Entry, Status, NoPid, NoMigration

-------------------------------------------------------------------------------
(* Types.  One lemma per way of changing a variable, then one per group of
   actions, with a case per action. *)

CallsOK == /\ call \in [Nodes -> Call]
           /\ \A n \in Nodes : call[n].at # "idle" => call[n].mig \in Migrations

(* A registry write. *)
LEMMA WriteType ==
    ASSUME TypeOK, NEW n \in Nodes, NEW e \in Entry, Write(n, e)
    PROVE  reg' \in [Nodes -> Entry]
  BY DEF TypeOK, Write

(* A journal write. *)
LEMMA RecordType ==
    ASSUME TypeOK, NEW n \in Nodes, NEW m \in Migrations, NEW s \in JournalStatus, Record(n, m, s)
    PROVE  journal' \in [Nodes -> [Migrations -> JournalStatus]]
  BY DEF TypeOK, Record

(* A call is replaced. *)
LEMMA CallType ==
    ASSUME TypeOK, NEW n \in Nodes, NEW c \in Call, c.at # "idle" => c.mig \in Migrations,
           call' = [call EXCEPT ![n] = c]
    PROVE  CallsOK'
  BY DEF TypeOK, CallsOK

(* A call goes on to its next place. *)
LEMMA GoType ==
    ASSUME TypeOK, NEW n \in Nodes, call[n].at # "idle", NEW p \in Place, Go(n, p)
    PROVE  CallsOK'
<1>1. call[n] \in Call
  BY DEF TypeOK
<1>2. [call[n] EXCEPT !.at = p] \in Call
  BY <1>1 DEF Call
<1>3. call' = [call EXCEPT ![n] = [call[n] EXCEPT !.at = p]]
  BY DEF Go
<1> QED
  BY <1>1, <1>2, <1>3 DEF TypeOK, CallsOK, Call

(* What NoCall is, and what becomes of a call by changing some of its fields. *)
LEMMA NoCallType ==
    ASSUME NEW n \in Nodes
    PROVE  NoCall(n) \in Call /\ NoCall(n).at = "idle"
<1>1. 0 \in 0 .. MaxAttempts /\ InitialEntry(n, Home) \in Entry
  BY ConstantsAssumption, InitialEntryType
<1> QED
  BY <1>1 DEF NoCall, Call, Kind, Place, JournalStatus, NoPid, NoMigration

LEMMA CallEdits ==
    ASSUME NEW c \in Call, NEW p \in Place
    PROVE  /\ [c EXCEPT !.at = p] \in Call
           /\ [c EXCEPT !.at = p, !.stopped = TRUE] \in Call
           /\ \A a \in 0 .. MaxAttempts : /\ [c EXCEPT !.attempt = a] \in Call
                                           /\ [c EXCEPT !.at = p, !.attempt = a] \in Call
           /\ \A w \in JournalStatus : [c EXCEPT !.at = p, !.answer = w] \in Call
           /\ \A w \in JournalStatus :
                 [c EXCEPT !.at = p, !.reached = TRUE, !.answer = w] \in Call
           /\ \A q \in Pids \cup {NoPid} : [c EXCEPT !.at = p, !.pid = q] \in Call
  BY DEF Call

(* A call that begins. *)
LEMMA BegunCallType ==
    ASSUME NEW n \in Nodes, NEW k \in Kind, NEW p \in Place, NEW m \in Migrations
    PROVE  /\ [NoCall(n) EXCEPT !.kind = k, !.at = p, !.mig = m] \in Call
           /\ \A e \in Entry :
                 [NoCall(n) EXCEPT !.kind = k, !.at = p, !.mig = m, !.saved = e] \in Call
           /\ \A a \in 0 .. MaxAttempts, e \in Entry :
                 [NoCall(n) EXCEPT !.kind = k, !.at = p, !.mig = m, !.attempt = a,
                                   !.saved = e] \in Call
<1>1. NoCall(n) \in Call
  BY NoCallType
<1> QED
  BY <1>1 DEF Call

(* The numbers of attempts. *)
LEMMA AttemptNumbers ==
    /\ 1 \in Attempts
    /\ Attempts \subseteq 0 .. MaxAttempts
    /\ \A k \in 0 .. MaxAttempts : k < MaxAttempts => k + 1 \in Attempts
  BY ConstantsAssumption DEF Attempts

(* A response is given. *)
LEMMA RespondType ==
    ASSUME TypeOK, NEW m \in Migrations, NEW k \in 0 .. MaxAttempts, NEW ok \in BOOLEAN,
           Respond(m, k, ok)
    PROVE  responses' \subseteq Migrations \X (0 .. MaxAttempts) \X BOOLEAN
  BY DEF TypeOK, Respond

(* The lock is released. *)
LEMMA ReleaseType ==
    ASSUME TypeOK, NEW n \in Nodes, Release(n)
    PROVE  CallsOK'
  BY NoCallType, CallType DEF Release

(* The actions of migrate and of the reconciliation of a source's record. *)
LEMMA SourceType ==
    ASSUME TypeOK, NEW n \in Nodes, SourceNext(n)
    PROVE  TypeOK'
<1>1. CASE PrefetchDone(n)
  <2>1. call[n].at # "idle" /\ call[n].mig \in Migrations
    BY <1>1 DEF PrefetchDone, At, TypeOK
  <2>2. CallsOK'
    BY <1>1, <2>1, GoType DEF PrefetchDone, Place
  <2> QED
    BY <1>1, <2>1, <2>2 DEF PrefetchDone, TypeOK, CallsOK, records, network
<1>2. CASE TransferDone(n)
  <2>1. call[n].at # "idle" /\ call[n].mig \in Migrations
    BY <1>2 DEF TransferDone, At, TypeOK
  <2>2. CallsOK'
    BY <1>2, <2>1, GoType DEF TransferDone, Place
  <2> QED
    BY <1>2, <2>1, <2>2 DEF TransferDone, TypeOK, CallsOK, records, network
<1>3. CASE TransferFailed(n)
  <2>1. call[n].at # "idle" /\ call[n].mig \in Migrations
    BY <1>3 DEF TransferFailed, At, TypeOK
  <2>2. CallsOK'
    BY <1>3, <2>1, GoType DEF TransferFailed, Place
  <2> QED
    BY <1>3, <2>1, <2>2 DEF TransferFailed, TypeOK, CallsOK, records, network
<1>4. CASE PollAgain(n)
  <2>1. call[n].at # "idle" /\ call[n].mig \in Migrations
    BY <1>4 DEF PollAgain, At, TypeOK
  <2>2. CallsOK'
    BY <1>4, <2>1, GoType DEF PollAgain, Place
  <2> QED
    BY <1>4, <2>1, <2>2 DEF PollAgain, TypeOK, CallsOK, records, network
<1>5. CASE ResolveActivated(n)
  <2>1. call[n].at # "idle" /\ call[n].mig \in Migrations
    BY <1>5 DEF ResolveActivated, At, TypeOK
  <2>2. CallsOK'
    BY <1>5, <2>1, GoType DEF ResolveActivated, Place
  <2> QED
    BY <1>5, <2>1, <2>2 DEF ResolveActivated, TypeOK, CallsOK, records, network
<1>6. CASE ResolveNotCommitted(n)
  <2>1. call[n].at # "idle" /\ call[n].mig \in Migrations
    BY <1>6 DEF ResolveNotCommitted, At, TypeOK
  <2>2. CallsOK'
    BY <1>6, <2>1, GoType DEF ResolveNotCommitted, Place
  <2> QED
    BY <1>6, <2>1, <2>2 DEF ResolveNotCommitted, TypeOK, CallsOK, records, network
<1>7. CASE PrefetchFailed(n)
  <2>1. call[n].at # "idle" /\ call[n].mig \in Migrations
    BY <1>7 DEF PrefetchFailed, At, TypeOK
  <2>2. CallsOK'
    BY <1>7, <2>1, GoType DEF PrefetchFailed, Place
  <2>3. journal' \in [Nodes -> [Migrations -> JournalStatus]]
    BY <1>7, <2>1, RecordType DEF PrefetchFailed, JournalStatus
  <2> QED
    BY <1>7, <2>1, <2>2, <2>3 DEF PrefetchFailed, TypeOK, CallsOK, records, network
<1>8. CASE JournalTransfer(n)
  <2>1. call[n].at # "idle" /\ call[n].mig \in Migrations
    BY <1>8 DEF JournalTransfer, At, TypeOK
  <2>2. CallsOK'
    BY <1>8, <2>1, GoType DEF JournalTransfer, Place
  <2>3. journal' \in [Nodes -> [Migrations -> JournalStatus]]
    BY <1>8, <2>1, RecordType DEF JournalTransfer, JournalStatus
  <2> QED
    BY <1>8, <2>1, <2>2, <2>3 DEF JournalTransfer, TypeOK, CallsOK, records, network
<1>9. CASE MarkSource(n)
  <2>1. call[n].at # "idle" /\ call[n].mig \in Migrations
    BY <1>9 DEF MarkSource, At, TypeOK
  <2>2. CallsOK'
    BY <1>9, <2>1, GoType DEF MarkSource, Place
  <2>3. reg' \in [Nodes -> Entry]
    BY <1>9, <2>1, EntryTransitions, WriteType DEF MarkSource, TypeOK
  <2> QED
    BY <1>9, <2>1, <2>2, <2>3 DEF MarkSource, TypeOK, CallsOK, records, network
<1>10. CASE ReceiveResponse(n)
  <2>1. call[n].at # "idle" /\ call[n].mig \in Migrations
    BY <1>10 DEF ReceiveResponse, At, TypeOK
  <2>2. CallsOK'
    BY <1>10, <2>1, GoType DEF ReceiveResponse, Place
  <2>3. responses' \subseteq Migrations \X (0 .. MaxAttempts) \X BOOLEAN
    BY <1>10, <2>1 DEF ReceiveResponse, TypeOK
  <2> QED
    BY <1>10, <2>1, <2>2, <2>3 DEF ReceiveResponse, TypeOK, CallsOK, records, network
<1>11. CASE GiveAway(n)
  <2>1. call[n].at # "idle" /\ call[n].mig \in Migrations
    BY <1>11 DEF GiveAway, At, TypeOK
  <2>2. plan[call[n].mig].dst \in Nodes /\ plan[call[n].mig].gen \in Nat
    BY <1>11, <2>1 DEF GiveAway, TypeOK, Plan
  <2>3. CallsOK'
    BY <1>11, <2>1, <2>2, GoType DEF GiveAway, Place
  <2>4. reg' \in [Nodes -> Entry]
    BY <1>11, <2>1, <2>2, EntryTransitions, WriteType DEF GiveAway, TypeOK
  <2> QED
    BY <1>11, <2>1, <2>2, <2>3, <2>4 DEF GiveAway, TypeOK, CallsOK, records, network
<1>12. CASE CommitSource(n)
  <2>1. call[n].at # "idle" /\ call[n].mig \in Migrations
    BY <1>12 DEF CommitSource, At, TypeOK
  <2>2. CallsOK'
    BY <1>12, <2>1, ReleaseType DEF CommitSource
  <2>3. journal' \in [Nodes -> [Migrations -> JournalStatus]]
    BY <1>12, <2>1, RecordType DEF CommitSource, JournalStatus
  <2> QED
    BY <1>12, <2>1, <2>2, <2>3 DEF CommitSource, TypeOK, CallsOK, records, network
<1>13. CASE UndoSource(n)
  <2>1. call[n].at # "idle" /\ call[n].mig \in Migrations
    BY <1>13 DEF UndoSource, At, TypeOK
  <2>2. plan[call[n].mig].dst \in Nodes /\ plan[call[n].mig].gen \in Nat
    BY <1>13, <2>1 DEF UndoSource, TypeOK, Plan
  <2>3. original[n][call[n].mig] \in Entry
    BY <1>13, <2>1, <2>2 DEF UndoSource, TypeOK
  <2>4. Previous(plan[call[n].mig].gen) \in Nat
    BY <1>13, <2>1, <2>2, <2>3 DEF UndoSource, Previous
  <2>5. CallsOK'
    BY <1>13, <2>1, <2>2, <2>3, <2>4, GoType DEF UndoSource, Place
  <2>6. reg' \in [Nodes -> Entry]
    BY <1>13, <2>1, <2>2, <2>3, <2>4, EntryTransitions, WriteType DEF UndoSource, TypeOK
  <2> QED
    BY <1>13, <2>1, <2>2, <2>3, <2>4, <2>5, <2>6 DEF UndoSource, TypeOK, CallsOK, records, network
<1>14. CASE RestoreSource(n)
  <2>1. call[n].at # "idle" /\ call[n].mig \in Migrations
    BY <1>14 DEF RestoreSource, At, TypeOK
  <2>2. original[n][call[n].mig] \in Entry
    BY <1>14, <2>1 DEF RestoreSource, TypeOK
  <2>3. original[n][call[n].mig].gen \in Nat
    BY <1>14, <2>1, <2>2 DEF RestoreSource, Entry
  <2>4. CallsOK'
    BY <1>14, <2>1, <2>2, <2>3, GoType DEF RestoreSource, Place
  <2>5. reg' \in [Nodes -> Entry]
    BY <1>14, <2>1, <2>2, <2>3, EntryTransitions, WriteType DEF RestoreSource, TypeOK
  <2> QED
    BY <1>14, <2>1, <2>2, <2>3, <2>4, <2>5 DEF RestoreSource, TypeOK, CallsOK, records, network
<1>15. CASE JournalUndo(n)
  <2>1. call[n].at # "idle" /\ call[n].mig \in Migrations
    BY <1>15 DEF JournalUndo, At, TypeOK
  <2>2. CallsOK'
    BY <1>15, <2>1, GoType, ReleaseType DEF JournalUndo, Place
  <2>3. journal' \in [Nodes -> [Migrations -> JournalStatus]]
    BY <1>15, <2>1, RecordType DEF JournalUndo, JournalStatus
  <2> QED
    BY <1>15, <2>1, <2>2, <2>3 DEF JournalUndo, TypeOK, CallsOK, records, network
<1>16. CASE CancelReservation(n)
  <2>1. call[n].at # "idle" /\ call[n].mig \in Migrations
    BY <1>16 DEF CancelReservation, At, TypeOK
  <2>2. CallsOK'
    BY <1>16, <2>1, ReleaseType DEF CancelReservation
  <2>3. bid' \in [Migrations -> BidStatus]
    BY <1>16, <2>1 DEF CancelReservation, TypeOK, Cancelled, BidStatus
  <2> QED
    BY <1>16, <2>1, <2>2, <2>3 DEF CancelReservation, TypeOK, CallsOK, records, network
<1>17. CASE ResolveUnknown(n)
  <2>1. call[n].at # "idle" /\ call[n].mig \in Migrations
    BY <1>17 DEF ResolveUnknown, At, TypeOK
  <2>2. CallsOK'
    BY <1>17, <2>1, GoType, ReleaseType DEF ResolveUnknown, Place
  <2>3. reg' \in [Nodes -> Entry]
    BY <1>17, <2>1, EntryTransitions, WriteType DEF ResolveUnknown, TypeOK
  <2>4. journal' \in [Nodes -> [Migrations -> JournalStatus]]
    BY <1>17, <2>1, RecordType DEF ResolveUnknown, JournalStatus, TypeOK
  <2> QED
    BY <1>17, <2>1, <2>2, <2>3, <2>4 DEF ResolveUnknown, TypeOK, CallsOK, records, network
<1>18. CASE RequestActivation(n)
  <2>1. call[n].at # "idle" /\ call[n].mig \in Migrations
    BY <1>18 DEF RequestActivation, At, TypeOK
  <2>2. call[n] \in Call
    BY <1>18, <2>1 DEF RequestActivation, TypeOK
  <2>3. [call[n] EXCEPT !.at = "await", !.attempt = 1] \in Call
    BY <1>18, <2>1, <2>2, CallEdits, AttemptNumbers DEF RequestActivation, Place
  <2>4. ([call[n] EXCEPT !.at = "await", !.attempt = 1]).mig = call[n].mig
    BY <1>18, <2>1, <2>2, <2>3 DEF RequestActivation, Call
  <2>5. CallsOK'
    BY <1>18, <2>1, <2>2, <2>3, <2>4, CallType DEF RequestActivation
  <2>6. journal' \in [Nodes -> [Migrations -> JournalStatus]]
    BY <1>18, <2>1, <2>2, <2>3, <2>4, RecordType DEF RequestActivation, JournalStatus
  <2>7. requests' \subseteq Migrations \X Attempts
    BY <1>18, <2>1, <2>2, <2>3, <2>4, AttemptNumbers DEF RequestActivation, TypeOK
  <2> QED
    BY <1>18, <2>1, <2>2, <2>3, <2>4, <2>5, <2>6, <2>7 DEF RequestActivation, TypeOK,
       CallsOK, records, network
<1>19. CASE QueryFails(n)
  <2>1. call[n].at # "idle" /\ call[n].mig \in Migrations
    BY <1>19 DEF QueryFails, At, TypeOK
  <2>2. call[n] \in Call
    BY <1>19, <2>1 DEF QueryFails, TypeOK
  <2>3. [call[n] EXCEPT !.at = "decide", !.answer = "none"] \in Call
    BY <1>19, <2>1, <2>2, CallEdits DEF QueryFails, Place, JournalStatus
  <2>4. ([call[n] EXCEPT !.at = "decide", !.answer = "none"]).mig = call[n].mig
    BY <1>19, <2>1, <2>2, <2>3 DEF QueryFails, Call
  <2>5. CallsOK'
    BY <1>19, <2>1, <2>2, <2>3, <2>4, CallType DEF QueryFails
  <2> QED
    BY <1>19, <2>1, <2>2, <2>3, <2>4, <2>5 DEF QueryFails, TypeOK, CallsOK, records, network
<1>20. CASE QueryAnswered(n)
  <2>1. call[n].at # "idle" /\ call[n].mig \in Migrations
    BY <1>20 DEF QueryAnswered, At, TypeOK
  <2>2. plan[call[n].mig].dst \in Nodes
    BY <1>20, <2>1 DEF QueryAnswered, TypeOK, Plan
  <2>3. journal[plan[call[n].mig].dst][call[n].mig] \in JournalStatus
    BY <1>20, <2>1, <2>2 DEF QueryAnswered, TypeOK
  <2>4. call[n] \in Call
    BY <1>20, <2>1, <2>2, <2>3 DEF QueryAnswered, TypeOK
  <2>5. [call[n] EXCEPT !.at = "decide", !.reached = TRUE,
                       !.answer = journal[plan[call[n].mig].dst][call[n].mig]] \in Call
    BY <1>20, <2>1, <2>2, <2>3, <2>4, CallEdits DEF QueryAnswered, Place
  <2>6. ([call[n] EXCEPT !.at = "decide", !.reached = TRUE,
                       !.answer = journal[plan[call[n].mig].dst][call[n].mig]]).mig = call[n].mig
    BY <1>20, <2>1, <2>2, <2>3, <2>4, <2>5 DEF QueryAnswered, Call
  <2>7. CallsOK'
    BY <1>20, <2>1, <2>2, <2>3, <2>4, <2>5, <2>6, CallType DEF QueryAnswered
  <2> QED
    BY <1>20, <2>1, <2>2, <2>3, <2>4, <2>5, <2>6, <2>7 DEF QueryAnswered, TypeOK, CallsOK,
       records, network
<1>21. CASE AttemptFails(n)
  <2> DEFINE m == call[n].mig
             a == call[n].attempt
  <2>1. call[n].at # "idle" /\ m \in Migrations /\ call[n] \in Call /\ a \in 0 .. MaxAttempts
    BY <1>21 DEF AttemptFails, At, TypeOK, Call
  <2>2. responses' \subseteq Migrations \X (0 .. MaxAttempts) \X BOOLEAN
    BY <1>21 DEF AttemptFails, TypeOK
  <2>3. PICK kept \in SUBSET (requests \cap {<<m, a>>}) :
          LET others == (requests \ {<<m, a>>}) \cup kept
          IN  IF a < MaxAttempts
              THEN /\ requests' = others \cup {<<m, a + 1>>}
                   /\ call' = [call EXCEPT ![n] = [@ EXCEPT !.attempt = a + 1]]
                   /\ UNCHANGED journal
              ELSE /\ requests' = others
                   /\ Record(n, m, "uncertain")
                   /\ Go(n, "query")
    BY <1>21 DEF AttemptFails
  <2>4. CASE a < MaxAttempts
    <3>1. a + 1 \in Attempts /\ a + 1 \in 0 .. MaxAttempts
      BY <2>1, <2>4, AttemptNumbers
    <3>2. requests' \subseteq Migrations \X Attempts
      BY <2>1, <2>3, <2>4, <3>1 DEF TypeOK
    <3>3. [call[n] EXCEPT !.attempt = a + 1] \in Call
      BY <2>1, <3>1, CallEdits DEF Place
    <3>4. [call[n] EXCEPT !.attempt = a + 1].mig = m
      BY <2>1 DEF Call
    <3>5. CallsOK'
      BY <2>1, <2>3, <2>4, <3>3, <3>4, CallType
    <3> QED
      BY <1>21, <2>2, <2>3, <2>4, <3>2, <3>5 DEF AttemptFails, TypeOK, CallsOK
  <2>5. CASE ~(a < MaxAttempts)
    <3>1. requests' \subseteq Migrations \X Attempts
      BY <2>3, <2>5 DEF TypeOK
    <3>2. CallsOK'
      BY <2>1, <2>3, <2>5, GoType DEF Place
    <3>3. journal' \in [Nodes -> [Migrations -> JournalStatus]]
      BY <2>1, <2>3, <2>5, RecordType DEF JournalStatus
    <3> QED
      BY <1>21, <2>2, <3>1, <3>2, <3>3 DEF AttemptFails, TypeOK, CallsOK
  <2> QED
    BY <2>4, <2>5
<1> QED
  BY <1>1, <1>2, <1>3, <1>4, <1>5, <1>6, <1>7, <1>8, <1>9, <1>10, <1>11, <1>12, <1>13,
     <1>14, <1>15, <1>16, <1>17, <1>18, <1>19, <1>20, <1>21 DEF SourceNext

(* Starting and stopping processes within a call. *)
LEMMA ProcessType ==
    ASSUME TypeOK, NEW n \in Nodes, ProcessNext(n)
    PROVE  TypeOK'
<1>1. CASE StopProcess(n)
  <2>1. call[n].at # "idle" /\ call[n].mig \in Migrations /\ call[n] \in Call /\ reg[n] \in Entry
    BY <1>1 DEF StopProcess, TypeOK
  <2>2. procs' \in [Nodes -> SUBSET Pids]
    BY <1>1 DEF StopProcess, TypeOK
  <2>3. reg' \in [Nodes -> Entry]
    BY <1>1, <2>1, EntryTransitions, WriteType DEF StopProcess
  <2>4. /\ [call[n] EXCEPT !.at = "transfer", !.stopped = TRUE] \in Call
        /\ [call[n] EXCEPT !.at = "transfer", !.stopped = TRUE].mig = call[n].mig
        /\ [call[n] EXCEPT !.at = "abort"] \in Call
        /\ [call[n] EXCEPT !.at = "abort"].mig = call[n].mig
    <3>1. "transfer" \in Place /\ "abort" \in Place
      BY DEF Place
    <3>2. /\ [call[n] EXCEPT !.at = "transfer", !.stopped = TRUE] \in Call
          /\ [call[n] EXCEPT !.at = "abort"] \in Call
      BY <2>1, <3>1, CallEdits
    <3> QED
      BY <2>1, <3>2 DEF Call
  <2>5. CASE call[n].kind = "source"
    <3>1. CallsOK'
      BY <1>1, <2>1, <2>4, <2>5, CallType DEF StopProcess
    <3> QED
      BY <1>1, <2>2, <2>3, <3>1 DEF StopProcess, TypeOK, CallsOK, records, network
  <2>6. CASE call[n].kind # "source"
    <3>1. CallsOK'
      BY <1>1, <2>1, <2>4, <2>6, CallType DEF StopProcess
    <3> QED
      BY <1>1, <2>2, <2>3, <3>1 DEF StopProcess, TypeOK, CallsOK, records, network
  <2> QED
    BY <2>5, <2>6
<1>2. CASE Spawn(n)
  <2>1. call[n].at # "idle" /\ call[n].mig \in Migrations /\ call[n] \in Call
    BY <1>2 DEF Spawn, TypeOK
  <2>2. PICK p \in Pids : /\ procs' = [procs EXCEPT ![n] = @ \cup {p}]
                          /\ call' = [call EXCEPT ![n] = [@ EXCEPT !.at = "running", !.pid = p]]
    BY <1>2 DEF Spawn
  <2>3. [call[n] EXCEPT !.at = "running", !.pid = p] \in Call
    BY <2>1, CallEdits DEF Place
  <2>4. [call[n] EXCEPT !.at = "running", !.pid = p].mig = call[n].mig
    BY <2>1 DEF Call
  <2>5. CallsOK'
    BY <2>1, <2>2, <2>3, <2>4, CallType
  <2>6. procs' \in [Nodes -> SUBSET Pids]
    BY <2>2 DEF TypeOK
  <2> QED
    BY <1>2, <2>5, <2>6 DEF Spawn, TypeOK, CallsOK, records, network
<1>3. CASE SpawnNotNeeded(n)
  <2>1. call[n].at # "idle" /\ call[n].mig \in Migrations
    BY <1>3 DEF SpawnNotNeeded, At, TypeOK
  <2>2. CallsOK'
    BY <1>3, <2>1, GoType DEF SpawnNotNeeded, Place, AfterStart
  <2> QED
    BY <1>3, <2>1, <2>2 DEF SpawnNotNeeded, TypeOK, CallsOK, records, network
<1>4. CASE SpawnRefused(n)
  <2>1. call[n].at # "idle" /\ call[n].mig \in Migrations
    BY <1>4 DEF SpawnRefused, At, TypeOK
  <2>2. reg' \in [Nodes -> Entry]
    BY <1>4, <2>1, EntryTransitions, WriteType DEF SpawnRefused, TypeOK, StartRaised
  <2>3. CallsOK'
    BY <1>4, <2>1, GoType DEF SpawnRefused, StartRaised, Place
  <2> QED
    BY <1>4, <2>1, <2>2, <2>3 DEF SpawnRefused, TypeOK, CallsOK, records, network
<1>5. CASE SpawnNotReady(n)
  <2>1. call[n].at # "idle" /\ call[n].mig \in Migrations
    BY <1>5 DEF SpawnNotReady, At, TypeOK
  <2>2. MarkFailed(reg[n]) \in Entry
    BY <1>5, <2>1, EntryTransitions DEF SpawnNotReady, TypeOK
  <2>3. reg' \in [Nodes -> Entry]
    BY <1>5, <2>1, <2>2, EntryTransitions, WriteType DEF SpawnNotReady, TypeOK, StartRaised
  <2>4. CallsOK'
    BY <1>5, <2>1, <2>2, GoType DEF SpawnNotReady, StartRaised, Place
  <2>5. budget' \in 0 .. MaxFaults
    BY <1>5, <2>1, <2>2, ConstantsAssumption DEF SpawnNotReady, TypeOK, Fault
  <2> QED
    BY <1>5, <2>1, <2>2, <2>3, <2>4, <2>5 DEF SpawnNotReady, TypeOK, CallsOK, records, network
<1>6. CASE MarkRunningAfterSpawn(n)
  <2>1. call[n].at # "idle" /\ call[n].mig \in Migrations /\ call[n] \in Call /\ reg[n] \in Entry
    BY <1>6 DEF MarkRunningAfterSpawn, TypeOK
  <2>2. CASE CanRun(n, reg[n])
    <3> DEFINE c == [call[n] EXCEPT !.at = AfterStart(n), !.pid = NoPid]
    <3>1. AfterStart(n) \in Place
      BY DEF AfterStart, Place
    <3>2. c \in Call /\ c.mig = call[n].mig
      <4>1. c \in Call
        BY <2>1, <3>1, CallEdits
      <4> QED
        BY <2>1, <4>1 DEF Call
    <3>3. call' = [call EXCEPT ![n] = c]
      BY <1>6, <2>2 DEF MarkRunningAfterSpawn
    <3> HIDE DEF c
    <3>4. CallsOK'
      BY <2>1, <3>2, <3>3, CallType
    <3>5. MarkRunning(reg[n], call[n].pid) \in Entry
      BY <2>1 DEF MarkRunning, Entry, Call, Status
    <3>6. reg' \in [Nodes -> Entry]
      BY <1>6, <2>2, <3>5, WriteType DEF MarkRunningAfterSpawn
    <3> QED
      BY <1>6, <3>4, <3>6 DEF MarkRunningAfterSpawn, TypeOK, CallsOK, records, network
  <2>3. CASE ~CanRun(n, reg[n])
    <3>1. StartRaised(n, reg[n])
      BY <1>6, <2>3 DEF MarkRunningAfterSpawn
    <3>2. reg' \in [Nodes -> Entry]
      BY <2>1, <3>1, EntryTransitions, WriteType DEF StartRaised
    <3>3. CallsOK'
      BY <2>1, <3>1, GoType DEF StartRaised, Place
    <3> QED
      BY <1>6, <3>2, <3>3 DEF MarkRunningAfterSpawn, TypeOK, CallsOK, records, network
  <2> QED
    BY <2>2, <2>3
<1> QED
  BY <1>1, <1>2, <1>3, <1>4, <1>5, <1>6 DEF ProcessNext

(* activate_incoming. *)
LEMMA DestinationType ==
    ASSUME TypeOK, NEW n \in Nodes, DestinationNext(n)
    PROVE  TypeOK'
<1>1. CASE BeginActivation(n)
  <2>1. call[n].at # "idle" /\ call[n].mig \in Migrations
    BY <1>1 DEF BeginActivation, At, TypeOK
  <2>2. CallsOK'
    BY <1>1, <2>1, GoType DEF BeginActivation, Place
  <2>3. bid' \in [Migrations -> BidStatus]
    BY <1>1, <2>1 DEF BeginActivation, TypeOK, BidStatus
  <2> QED
    BY <1>1, <2>1, <2>2, <2>3 DEF BeginActivation, TypeOK, CallsOK, records, network
<1>2. CASE ClaimTask(n)
  <2>1. call[n].at # "idle" /\ call[n].mig \in Migrations
    BY <1>2 DEF ClaimTask, At, TypeOK
  <2>2. plan[call[n].mig].gen \in Nat
    BY <1>2, <2>1 DEF ClaimTask, TypeOK, Plan
  <2>3. CallsOK'
    BY <1>2, <2>1, <2>2, GoType DEF ClaimTask, Place
  <2>4. reg' \in [Nodes -> Entry]
    BY <1>2, <2>1, <2>2, EntryTransitions, WriteType DEF ClaimTask, TypeOK
  <2> QED
    BY <1>2, <2>1, <2>2, <2>3, <2>4 DEF ClaimTask, TypeOK, CallsOK, records, network
<1>3. CASE CheckpointInvalid(n)
  <2>1. call[n].at # "idle" /\ call[n].mig \in Migrations
    BY <1>3 DEF CheckpointInvalid, At, TypeOK
  <2>2. CallsOK'
    BY <1>3, <2>1, GoType DEF CheckpointInvalid, Place
  <2> QED
    BY <1>3, <2>1, <2>2 DEF CheckpointInvalid, TypeOK, CallsOK, records, network
<1>4. CASE ConsumeReservation(n)
  <2>1. call[n].at # "idle" /\ call[n].mig \in Migrations
    BY <1>4 DEF ConsumeReservation, At, TypeOK
  <2>2. CallsOK'
    BY <1>4, <2>1, GoType DEF ConsumeReservation, Place
  <2>3. bid' \in [Migrations -> BidStatus]
    BY <1>4, <2>1 DEF ConsumeReservation, TypeOK, BidStatus
  <2> QED
    BY <1>4, <2>1, <2>2, <2>3 DEF ConsumeReservation, TypeOK, CallsOK, records, network
<1>5. CASE AbortActivation(n)
  <2>1. call[n].at # "idle" /\ call[n].mig \in Migrations
    BY <1>5 DEF AbortActivation, At, TypeOK
  <2>2. call[n].saved \in Entry
    BY <1>5, <2>1 DEF AbortActivation, TypeOK, Call
  <2>3. CallsOK'
    BY <1>5, <2>1, <2>2, GoType DEF AbortActivation, Place
  <2>4. reg' \in [Nodes -> Entry]
    BY <1>5, <2>1, <2>2, WriteType DEF AbortActivation, TypeOK
  <2> QED
    BY <1>5, <2>1, <2>2, <2>3, <2>4 DEF AbortActivation, TypeOK, CallsOK, records, network
<1>6. CASE JournalAbort(n)
  <2>1. call[n].at # "idle" /\ call[n].mig \in Migrations
    BY <1>6 DEF JournalAbort, At, TypeOK
  <2>2. CallsOK'
    BY <1>6, <2>1, GoType, ReleaseType DEF JournalAbort, Place
  <2>3. journal' \in [Nodes -> [Migrations -> JournalStatus]]
    BY <1>6, <2>1, RecordType DEF JournalAbort, JournalStatus
  <2>4. bid' \in [Migrations -> BidStatus]
    BY <1>6, <2>1 DEF JournalAbort, TypeOK, BidStatus, Cancelled
  <2> QED
    BY <1>6, <2>1, <2>2, <2>3, <2>4 DEF JournalAbort, TypeOK, CallsOK, records, network
<1>7. CASE ConfirmActivation(n)
  <2>1. call[n].at # "idle" /\ call[n].mig \in Migrations
    BY <1>7 DEF ConfirmActivation, At, TypeOK
  <2>2. CallsOK'
    BY <1>7, <2>1, ReleaseType DEF ConfirmActivation
  <2>3. journal' \in [Nodes -> [Migrations -> JournalStatus]]
    BY <1>7, <2>1, RecordType DEF ConfirmActivation, JournalStatus
  <2>4. responses' \subseteq Migrations \X (0 .. MaxAttempts) \X BOOLEAN
    BY <1>7, <2>1, RespondType DEF ConfirmActivation, TypeOK, Call
  <2> QED
    BY <1>7, <2>1, <2>2, <2>3, <2>4 DEF ConfirmActivation, TypeOK, CallsOK, records, network
<1>8. CASE RefuseActivation(n)
  <2>1. call[n].at # "idle" /\ call[n].mig \in Migrations
    BY <1>8 DEF RefuseActivation, At, TypeOK
  <2>2. CallsOK'
    BY <1>8, <2>1, ReleaseType DEF RefuseActivation
  <2>3. bid' \in [Migrations -> BidStatus]
    BY <1>8, <2>1 DEF RefuseActivation, TypeOK, BidStatus, Cancelled
  <2>4. responses' \subseteq Migrations \X (0 .. MaxAttempts) \X BOOLEAN
    BY <1>8, <2>1, RespondType DEF RefuseActivation, TypeOK, Call
  <2> QED
    BY <1>8, <2>1, <2>2, <2>3, <2>4 DEF RefuseActivation, TypeOK, CallsOK, records, network
<1>9. CASE \E m \in Migrations, k \in Attempts : AnswerClaimed(n, m, k) \/ AnswerRolledBack(n, m, k)
  <2>1. PICK m \in Migrations, k \in Attempts : AnswerClaimed(n, m, k) \/ AnswerRolledBack(n, m, k)
    BY <1>9
  <2>2. requests' \subseteq Migrations \X Attempts
    BY <2>1 DEF AnswerClaimed, AnswerRolledBack, TypeOK
  <2>3. responses' \subseteq Migrations \X (0 .. MaxAttempts) \X BOOLEAN
    BY <2>1, RespondType, AttemptNumbers DEF AnswerClaimed, AnswerRolledBack
  <2>4. journal' \in [Nodes -> [Migrations -> JournalStatus]]
    BY <2>1, RecordType DEF AnswerClaimed, AnswerRolledBack, JournalStatus, TypeOK, records
  <2> QED
    BY <2>1, <2>2, <2>3, <2>4 DEF AnswerClaimed, AnswerRolledBack, TypeOK, records
<1>10. CASE \E m \in Migrations, k \in Attempts : StartActivation(n, m, k)
  <2>1. PICK m \in Migrations, k \in Attempts : StartActivation(n, m, k)
    BY <1>10
  <2> DEFINE c == [NoCall(n) EXCEPT !.kind = "destination", !.at = "begin",
                                    !.mig = m, !.attempt = k, !.saved = reg[n]]
  <2>2. k \in 0 .. MaxAttempts /\ reg[n] \in Entry /\ "destination" \in Kind /\ "begin" \in Place
    BY AttemptNumbers DEF TypeOK, Kind, Place
  <2>3. c \in Call
    BY <2>2, BegunCallType
  <2>4. c.mig = m
    BY <2>2, NoCallType DEF Call
  <2>5. call' = [call EXCEPT ![n] = c]
    BY <2>1 DEF StartActivation
  <2> HIDE DEF c
  <2>6. CallsOK'
    BY <2>3, <2>4, <2>5, CallType
  <2>7. journal' \in [Nodes -> [Migrations -> JournalStatus]]
    BY <2>1, RecordType DEF StartActivation, JournalStatus
  <2>8. original' \in [Nodes -> [Migrations -> Entry]]
    BY <2>1, <2>2 DEF StartActivation, TypeOK
  <2>9. requests' \subseteq Migrations \X Attempts
    BY <2>1 DEF StartActivation, TypeOK
  <2> QED
    BY <2>1, <2>6, <2>7, <2>8, <2>9 DEF StartActivation, TypeOK, CallsOK
<1> QED
  BY <1>1, <1>2, <1>3, <1>4, <1>5, <1>6, <1>7, <1>8, <1>9, <1>10 DEF DestinationNext

(* A listed record is handled, and reconciled under the lock. *)
LEMMA HandledType ==
    ASSUME TypeOK, NEW n \in Nodes, NEW m \in Migrations, Handled(n, m)
    PROVE  listed' \in [Nodes -> [Migrations -> JournalStatus]]
  BY DEF TypeOK, Handled, JournalStatus

LEMMA TakeUpType ==
    ASSUME TypeOK, NEW n \in Nodes, NEW m \in Migrations, NEW p \in Place, TakeUp(n, m, p)
    PROVE  CallsOK'
<1> DEFINE c == [NoCall(n) EXCEPT !.kind = "reconcile", !.at = p, !.mig = m,
                                  !.saved = original[n][m]]
<1>1. original[n][m] \in Entry /\ "reconcile" \in Kind
  BY DEF TypeOK, Kind
<1>2. c \in Call
  BY <1>1, BegunCallType
<1>3. c.mig = m
  BY NoCallType DEF Call
<1> QED
  BY <1>2, <1>3, CallType DEF TakeUp

(* reconcile_durable_state. *)
LEMMA ReconcileType ==
    ASSUME TypeOK, NEW n \in Nodes, ReconcileNext(n)
    PROVE  TypeOK'
<1>1. CASE ListRecords(n)
  <2>1. listed' \in [Nodes -> [Migrations -> JournalStatus]]
    BY <1>1 DEF ListRecords, TypeOK, JournalStatus
  <2> QED
    BY <1>1, <2>1 DEF ListRecords, TypeOK, records, network
<1>2. CASE \E m \in Migrations : ReconcileCommitted(n, m)
  <2>1. PICK m \in Migrations : ReconcileCommitted(n, m)
    BY <1>2
  <2>2. journal' \in [Nodes -> [Migrations -> JournalStatus]]
    BY <2>1, RecordType DEF ReconcileCommitted, JournalStatus
  <2>3. listed' \in [Nodes -> [Migrations -> JournalStatus]]
    BY <2>1, HandledType DEF ReconcileCommitted
  <2>4. bid' \in [Migrations -> BidStatus]
    BY <2>1 DEF ReconcileCommitted, TypeOK, BidStatus
  <2> QED
    BY <2>1, <2>2, <2>3, <2>4 DEF ReconcileCommitted, TypeOK, network
<1>3. CASE \E m \in Migrations : ReconcileIncomplete(n, m)
  <2>1. PICK m \in Migrations : ReconcileIncomplete(n, m)
    BY <1>3
  <2>2. CallsOK'
    BY <2>1, TakeUpType DEF ReconcileIncomplete, Place
  <2>3. listed' \in [Nodes -> [Migrations -> JournalStatus]]
    BY <2>1, HandledType DEF ReconcileIncomplete
  <2> QED
    BY <2>1, <2>2, <2>3 DEF ReconcileIncomplete, TypeOK, CallsOK, records, network
<1>4. CASE \E m \in Migrations : ReconcileSource(n, m)
  <2>1. PICK m \in Migrations : ReconcileSource(n, m)
    BY <1>4
  <2>2. CallsOK'
    BY <2>1, TakeUpType DEF ReconcileSource, Place
  <2>3. listed' \in [Nodes -> [Migrations -> JournalStatus]]
    BY <2>1, HandledType DEF ReconcileSource
  <2> QED
    BY <2>1, <2>2, <2>3 DEF ReconcileSource, TypeOK, CallsOK, records, network
<1>5. CASE \E m \in Migrations : ReconcileSettled(n, m)
  <2>1. PICK m \in Migrations : ReconcileSettled(n, m)
    BY <1>5
  <2>2. journal' \in [Nodes -> [Migrations -> JournalStatus]]
    BY <2>1, RecordType DEF ReconcileSettled, JournalStatus
  <2>3. listed' \in [Nodes -> [Migrations -> JournalStatus]]
    BY <2>1, HandledType DEF ReconcileSettled
  <2> QED
    BY <2>1, <2>2, <2>3 DEF ReconcileSettled, TypeOK, network
<1> QED
  BY <1>1, <1>2, <1>3, <1>4, <1>5 DEF ReconcileNext

(* Anti-entropy, runtime reconciliation and recovery. *)
LEMMA ServiceType ==
    ASSUME TypeOK, NEW n \in Nodes, ServiceNext(n)
    PROVE  TypeOK'
<1>1. CASE \E j \in Nodes : Gossip(n, j)
  <2>1. PICK j \in Nodes : Gossip(n, j)
    BY <1>1
  <2>2. ApplyOwnership(n, reg[n], Claim(reg[j])) \in Entry
    BY OwnershipType DEF TypeOK
  <2>3. reg' \in [Nodes -> Entry]
    BY <2>1, <2>2, WriteType DEF Gossip
  <2> QED
    BY <2>1, <2>3 DEF Gossip, TypeOK, records, network
<1>2. CASE ReconcileRuntime(n)
  <2>1. reg' \in [Nodes -> Entry]
    BY <1>2, EntryTransitions, WriteType DEF ReconcileRuntime, TypeOK
  <2> QED
    BY <1>2, <2>1 DEF ReconcileRuntime, TypeOK, CallsOK, records, network
<1>3. CASE Recover(n)
  <2>1. reg' \in [Nodes -> Entry]
    BY <1>3, EntryTransitions, WriteType DEF Recover, TypeOK
  <2>2. starter' \in [Nodes -> [at : {"idle", "spawn", "running"}, pid : Pids \cup {NoPid}]]
    BY <1>3 DEF Recover, TypeOK, NoStart, NoPid
  <2> QED
    BY <1>3, <2>1, <2>2 DEF Recover, TypeOK, CallsOK, records, network
<1>4. CASE StarterSpawn(n)
  <2>1. CASE CanRun(n, reg[n]) /\ ~AlreadyRunning(n)
    <3>1. PICK p \in Pids : /\ procs' = [procs EXCEPT ![n] = @ \cup {p}]
                           /\ starter' = [starter EXCEPT ![n] = [at |-> "running", pid |-> p]]
      BY <1>4, <2>1 DEF StarterSpawn
    <3>2. procs' \in [Nodes -> SUBSET Pids]
      BY <3>1 DEF TypeOK
    <3>3. starter' \in [Nodes -> [at : {"idle", "spawn", "running"}, pid : Pids \cup {NoPid}]]
      BY <3>1 DEF TypeOK
    <3> QED
      BY <1>4, <3>2, <3>3 DEF StarterSpawn, TypeOK, CallsOK, records, network
  <2>2. CASE ~(CanRun(n, reg[n]) /\ ~AlreadyRunning(n))
    <3>1. /\ starter' = [starter EXCEPT ![n] = NoStart]
          /\ UNCHANGED <<reg, procs, records, plan, bid, call, listed, network, budget>>
      BY <1>4, <2>2 DEF StarterSpawn
    <3>2. starter' \in [Nodes -> [at : {"idle", "spawn", "running"}, pid : Pids \cup {NoPid}]]
      BY <3>1 DEF TypeOK, NoStart, NoPid
    <3> QED
      BY <3>1, <3>2 DEF TypeOK, CallsOK, records, network
  <2> QED
    BY <2>1, <2>2
<1>5. CASE StarterNotReady(n)
  <2>1. reg' \in [Nodes -> Entry]
    BY <1>5, EntryTransitions, WriteType DEF StarterNotReady, TypeOK
  <2>2. starter' \in [Nodes -> [at : {"idle", "spawn", "running"}, pid : Pids \cup {NoPid}]]
    BY <1>5 DEF StarterNotReady, TypeOK, NoStart, NoPid
  <2>3. budget' \in 0 .. MaxFaults
    BY <1>5, ConstantsAssumption DEF StarterNotReady, TypeOK, Fault
  <2> QED
    BY <1>5, <2>1, <2>2, <2>3 DEF StarterNotReady, TypeOK, CallsOK, records, network
<1>6. CASE StarterRunning(n)
  <2>1. MarkRunning(reg[n], starter[n].pid) \in Entry
    <3>1. reg[n] \in Entry /\ starter[n].pid \in Pids \cup {NoPid}
      BY DEF TypeOK
    <3> QED
      BY <3>1 DEF MarkRunning, Entry, Status
  <2>2. reg' \in [Nodes -> Entry]
    BY <1>6, <2>1, WriteType DEF StarterRunning, TypeOK
  <2>3. starter' \in [Nodes -> [at : {"idle", "spawn", "running"}, pid : Pids \cup {NoPid}]]
    BY <1>6, <2>1 DEF StarterRunning, TypeOK, NoStart, NoPid
  <2> QED
    BY <1>6, <2>1, <2>2, <2>3 DEF StarterRunning, TypeOK, CallsOK, records, network
<1> QED
  BY <1>1, <1>2, <1>3, <1>4, <1>5, <1>6 DEF ServiceNext

(* What a daemon forgets when it dies. *)
LEMMA ForgetType ==
    ASSUME TypeOK, NEW n \in Nodes, Forget(n)
    PROVE  /\ CallsOK'
           /\ starter' \in [Nodes -> [at : {"idle", "spawn", "running"}, pid : Pids \cup {NoPid}]]
           /\ listed' \in [Nodes -> [Migrations -> JournalStatus]]
           /\ requests' \subseteq Migrations \X Attempts
           /\ responses' \subseteq Migrations \X (0 .. MaxAttempts) \X BOOLEAN
<1>1. CallsOK'
  BY ReleaseType DEF Forget
<1> QED
  BY <1>1 DEF TypeOK, Forget, NoStart, NoPid, NothingListed, JournalStatus

(* Exits, operators and crashes. *)
LEMMA EnvironmentType ==
    ASSUME TypeOK, NEW n \in Nodes, EnvironmentNext(n)
    PROVE  TypeOK'
<1>1. CASE ProcessExits(n)
  <2>1. procs' \in [Nodes -> SUBSET Pids]
    BY <1>1 DEF ProcessExits, TypeOK
  <2>2. budget' \in 0 .. MaxFaults
    BY <1>1, ConstantsAssumption DEF ProcessExits, TypeOK, Fault
  <2> QED
    BY <1>1, <2>1, <2>2 DEF ProcessExits, TypeOK, CallsOK, records, network
<1>2. CASE OperatorStart(n)
  <2>1. starter' \in [Nodes -> [at : {"idle", "spawn", "running"}, pid : Pids \cup {NoPid}]]
    BY <1>2 DEF OperatorStart, TypeOK, NoStart, NoPid
  <2>2. budget' \in 0 .. MaxFaults
    BY <1>2, ConstantsAssumption DEF OperatorStart, TypeOK, Fault
  <2> QED
    BY <1>2, <2>1, <2>2 DEF OperatorStart, TypeOK, CallsOK, records, network
<1>3. CASE Crash(n)
  <2>1. Forget(n)
    BY <1>3 DEF Crash
  <2>2. budget' \in 0 .. MaxFaults
    BY <1>3, ConstantsAssumption DEF Crash, Fault, TypeOK
  <2>3. procs' \in [Nodes -> SUBSET Pids]
    BY <1>3 DEF Crash, TypeOK
  <2> QED
    BY <1>3, <2>1, <2>2, <2>3, ForgetType DEF Crash, TypeOK, CallsOK, records
<1>4. CASE ServiceCrash(n)
  <2>1. Forget(n)
    BY <1>4 DEF ServiceCrash
  <2>2. budget' \in 0 .. MaxFaults
    BY <1>4, ConstantsAssumption DEF ServiceCrash, Fault, TypeOK
  <2>3. procs' \in [Nodes -> SUBSET Pids]
    BY <1>4 DEF ServiceCrash, TypeOK
  <2> QED
    BY <1>4, <2>1, <2>2, <2>3, ForgetType DEF ServiceCrash, TypeOK, CallsOK, records
<1> QED
  BY <1>1, <1>2, <1>3, <1>4 DEF EnvironmentNext

(* A migration begins. *)
LEMMA SchedulerType ==
    ASSUME TypeOK, NEW n \in Nodes, SchedulerNext(n)
    PROVE  TypeOK'
<1>1. PICK d \in Nodes : StartMigration(n, d)
  BY DEF SchedulerNext
<1>2. PICK m \in Migrations :
         /\ plan' = [plan EXCEPT ![m] = [src |-> n, dst |-> d, gen |-> reg[n].gen + 1]]
         /\ bid' = [bid EXCEPT ![m] = "accepted"]
         /\ Record(n, m, "preparing")
         /\ original' = [original EXCEPT ![n][m] = reg[n]]
         /\ call' = [call EXCEPT ![n] = [NoCall(n) EXCEPT !.kind = "source",
                                                          !.at = "prefetch", !.mig = m]]
         /\ UNCHANGED <<reg, procs, starter, listed, network, budget>>
  BY <1>1 DEF StartMigration
<1> DEFINE c == [NoCall(n) EXCEPT !.kind = "source", !.at = "prefetch", !.mig = m]
<1>3. reg[n] \in Entry /\ reg[n].gen + 1 \in Nat
  BY DEF TypeOK, Entry
<1>4. c \in Call /\ c.mig = m
  <2>1. "source" \in Kind /\ "prefetch" \in Place
    BY DEF Kind, Place
  <2>2. c \in Call
    BY <2>1, BegunCallType
  <2>3. c.mig = m
    BY NoCallType DEF Call
  <2> QED
    BY <2>2, <2>3
<1>5. call' = [call EXCEPT ![n] = c]
  BY <1>2
<1> HIDE DEF c
<1>6. CallsOK'
  BY <1>4, <1>5, CallType
<1>7. journal' \in [Nodes -> [Migrations -> JournalStatus]]
  BY <1>2, RecordType DEF JournalStatus
<1>8. /\ plan' \in [Migrations -> Plan]
      /\ bid' \in [Migrations -> BidStatus]
      /\ original' \in [Nodes -> [Migrations -> Entry]]
  BY <1>2, <1>3 DEF TypeOK, Plan, BidStatus
<1> QED
  BY <1>2, <1>6, <1>7, <1>8 DEF TypeOK, CallsOK, network

(* Every variable keeps its type, and a call that holds the lock is about a
   migration, in every behaviour of the daemons, the network and the faults. *)
THEOREM TypeCorrect == Spec => []TypeOK
<1>1. Init => TypeOK
  <2> SUFFICES ASSUME Init PROVE TypeOK
    OBVIOUS
  <2>1. PICK p \in Pids :
           /\ reg = [n \in Nodes |-> IF n = Home THEN MarkRunning(InitialEntry(n, Home), p)
                                                 ELSE InitialEntry(n, Home)]
           /\ procs = [n \in Nodes |-> IF n = Home THEN {p} ELSE {}]
           /\ journal = [n \in Nodes |-> [m \in Migrations |-> "none"]]
           /\ original = [n \in Nodes |-> [m \in Migrations |-> InitialEntry(n, Home)]]
           /\ plan = [m \in Migrations |-> NoPlan]
           /\ bid = [m \in Migrations |-> "none"]
           /\ call = [n \in Nodes |-> NoCall(n)]
           /\ starter = [n \in Nodes |-> NoStart]
           /\ listed = [n \in Nodes |-> NothingListed]
           /\ requests = {}
           /\ responses = {}
           /\ budget = MaxFaults
    BY DEF Init
  <2>2. reg \in [Nodes -> Entry] /\ original \in [Nodes -> [Migrations -> Entry]]
    BY <2>1, InitialEntryType, EntryTransitions
  <2>3. CallsOK
    BY <2>1, NoCallType DEF CallsOK
  <2>4. plan \in [Migrations -> Plan] /\ budget \in 0 .. MaxFaults
    BY <2>1, ConstantsAssumption DEF Plan, NoPlan
  <2> QED
    BY <2>1, <2>2, <2>3, <2>4
    DEF TypeOK, CallsOK, JournalStatus, BidStatus, NoStart, NoPid, NothingListed
<1>2. TypeOK /\ [Next]_vars => TypeOK'
  <2> SUFFICES ASSUME TypeOK, [Next]_vars PROVE TypeOK'
    OBVIOUS
  <2>1. CASE UNCHANGED vars
    BY <2>1 DEF vars, TypeOK
  <2>2. CASE \E m \in Migrations : ExpireReservation(m)
    BY <2>2 DEF ExpireReservation, TypeOK, BidStatus, records, network
  <2>3. ASSUME NEW n \in Nodes,
               \/ SchedulerNext(n) \/ SourceNext(n) \/ ProcessNext(n) \/ DestinationNext(n)
               \/ ReconcileNext(n) \/ ServiceNext(n) \/ EnvironmentNext(n)
        PROVE  TypeOK'
    BY <2>3, SchedulerType, SourceType, ProcessType, DestinationType, ReconcileType,
       ServiceType, EnvironmentType
  <2> QED
    BY <2>1, <2>2, <2>3 DEF Next
<1> QED
  BY <1>1, <1>2, PTL DEF Spec

-------------------------------------------------------------------------------
(* The records of a migration are written ahead. *)

(* Where a source has not sent a request yet. *)
Early == {"prefetch", "mark", "journalTransfer", "kill", "transfer", "request"}

(* A source's record that admits that the destination may have been asked. *)
Late == JournalStatus \ {"none", "preparing", "transferring"}

(* The migrations for which a request is on its way. *)
Asked == {m \in Migrations : \E k \in Attempts : <<m, k>> \in requests}

(* Plans name two nodes; without a plan there is no record. *)
PlanInv ==
    \A m \in Migrations :
        /\ plan[m] # NoPlan => plan[m].src # plan[m].dst
        /\ plan[m] = NoPlan => \A n \in Nodes : journal[n][m] = "none"

(* A call in progress has its record, and is made where its plan says. *)
CallInv ==
    \A n \in Nodes : call[n].at # "idle" =>
        LET m == call[n].mig
        IN  /\ journal[n][m] # "none"
            /\ call[n].kind = "source" => n = plan[m].src
            /\ call[n].kind = "destination" => n = plan[m].dst

(* What was listed is a record. *)
ListInv ==
    \A n \in Nodes, m \in Migrations : listed[n][m] # "none" => journal[n][m] # "none"

(* Nothing is known of a migration outside its source before the request, and
   a source that waits for the response has written so. *)
EarlyInv ==
    \A n \in Nodes : call[n].kind = "source" =>
        LET m == call[n].mig
        IN  /\ call[n].at \in Early => m \notin Asked /\ journal[plan[m].dst][m] = "none"
            /\ call[n].at = "await" => journal[n][m] \in Late

(* As long as a request is on its way, the source's record says so. *)
RequestInv == \A m \in Migrations : m \in Asked => journal[plan[m].src][m] \in Late

WriteAheadInv ==
    /\ PlanInv
    /\ CallInv
    /\ ListInv
    /\ EarlyInv
    /\ RequestInv
    /\ WriteAhead

-------------------------------------------------------------------------------
(* Most steps are ordinary: they leave the plans alone and change each of the
   other variables in one of the ways that keep the invariant. *)

JournalStep ==
    \A n \in Nodes, m \in Migrations :
        \/ journal'[n][m] = journal[n][m]
        \/ /\ journal'[n][m] \in Late
           /\ journal[n][m] # "none" \/ (n = plan[m].dst /\ m \in Asked)

CallStep ==
    \A n \in Nodes : call'[n].at # "idle" =>
        \/ /\ call[n].at # "idle"
           /\ call'[n].kind = call[n].kind
           /\ call'[n].mig = call[n].mig
           /\ call[n].kind = "source" =>
                 /\ call'[n].at \in Early => call[n].at \in Early
                 /\ call'[n].at = "await" => call[n].at = "await"
        \/ /\ call'[n].kind \in {"destination", "reconcile"}
           /\ journal'[n][call'[n].mig] # "none"
           /\ call'[n].kind = "destination" => n = plan[call'[n].mig].dst

ListedStep ==
    \A n \in Nodes, m \in Migrations :
        listed'[n][m] # "none" => listed[n][m] # "none" \/ journal[n][m] # "none"

RequestStep ==
    \A m \in Migrations : m \in Asked' =>
        \/ m \in Asked
        \/ \E n \in Nodes : At(n, "source", "await") /\ call[n].mig = m

BidStep ==
    \A m \in Migrations : bid'[m] \in {"activating", "consumed"} =>
        bid[m] \in {"activating", "consumed"} \/ journal[plan[m].dst][m] # "none"

Ordinary == /\ UNCHANGED plan
            /\ JournalStep
            /\ CallStep
            /\ ListedStep
            /\ RequestStep
            /\ BidStep

(* An ordinary step keeps the invariant. *)
LEMMA OrdinaryStep ==
    ASSUME TypeOK, WriteAheadInv, Ordinary
    PROVE  WriteAheadInv'
<1>1. \A m \in Migrations : plan[m].src \in Nodes /\ plan[m].dst \in Nodes
  BY DEF TypeOK, Plan
<1>2. \A n \in Nodes : call[n].at # "idle" => call[n].mig \in Migrations
  BY DEF TypeOK
<1>3. \A m \in Migrations : m \in Asked => journal[plan[m].src][m] \in Late /\ plan[m] # NoPlan
  BY <1>1 DEF WriteAheadInv, RequestInv, PlanInv, Late
<1>4. \A n \in Nodes, m \in Migrations :
         /\ journal[n][m] # "none" => journal'[n][m] # "none"
         /\ journal[n][m] \in Late => journal'[n][m] \in Late
  BY DEF Ordinary, JournalStep, Late
<1>5. \A m \in Migrations : m \in Asked' => journal[plan[m].src][m] \in Late
  <2> SUFFICES ASSUME NEW m \in Migrations, m \in Asked'
               PROVE  journal[plan[m].src][m] \in Late
    OBVIOUS
  <2>1. CASE m \in Asked
    BY <1>3, <2>1
  <2>2. ASSUME NEW n \in Nodes, At(n, "source", "await"), call[n].mig = m
        PROVE  journal[plan[m].src][m] \in Late
    BY <2>2 DEF WriteAheadInv, EarlyInv, CallInv, At
  <2> QED
    BY <2>1, <2>2 DEF Ordinary, RequestStep
<1>6. PlanInv'
  BY <1>1, <1>3 DEF WriteAheadInv, PlanInv, Ordinary, JournalStep
<1>7. CallInv'
  <2> SUFFICES ASSUME NEW n \in Nodes, call'[n].at # "idle"
               PROVE  /\ journal'[n][call'[n].mig] # "none"
                      /\ call'[n].kind = "source" => n = plan[call'[n].mig].src
                      /\ call'[n].kind = "destination" => n = plan[call'[n].mig].dst
    BY DEF CallInv, Ordinary
  <2>1. CASE /\ call[n].at # "idle"
             /\ call'[n].kind = call[n].kind
             /\ call'[n].mig = call[n].mig
    BY <1>2, <1>4, <2>1 DEF WriteAheadInv, CallInv
  <2>2. CASE /\ call'[n].kind \in {"destination", "reconcile"}
             /\ journal'[n][call'[n].mig] # "none"
             /\ call'[n].kind = "destination" => n = plan[call'[n].mig].dst
    BY <2>2
  <2> QED
    BY <2>1, <2>2 DEF Ordinary, CallStep
<1>8. ListInv'
  BY <1>4 DEF WriteAheadInv, ListInv, Ordinary, ListedStep
<1>9. EarlyInv'
  <2> SUFFICES ASSUME NEW n \in Nodes, call'[n].kind = "source",
                      call'[n].at \in Early \/ call'[n].at = "await"
               PROVE  LET m == call'[n].mig
                      IN  /\ call'[n].at \in Early
                                => m \notin Asked' /\ journal'[plan[m].dst][m] = "none"
                          /\ call'[n].at = "await" => journal'[n][m] \in Late
    BY DEF EarlyInv, Ordinary
  <2> DEFINE m == call[n].mig
  <2>1. /\ call[n].at # "idle"
        /\ call[n].kind = "source"
        /\ call'[n].mig = m
        /\ call'[n].at \in Early => call[n].at \in Early
        /\ call'[n].at = "await" => call[n].at = "await"
    BY DEF Ordinary, CallStep, Early
  <2>2. m \in Migrations /\ n = plan[m].src
    BY <1>2, <2>1 DEF WriteAheadInv, CallInv
  <2>3. CASE call'[n].at = "await"
    <3>1. journal[n][m] \in Late
      BY <2>1, <2>3 DEF WriteAheadInv, EarlyInv
    <3>2. journal'[n][m] \in Late
      BY <1>4, <2>2, <3>1
    <3>3. call'[n].at \notin Early
      BY <2>3 DEF Early
    <3> QED
      BY <2>1, <3>2, <3>3
  <2>4. CASE call'[n].at \in Early
    <3>1. m \notin Asked /\ journal[plan[m].dst][m] = "none"
      BY <2>1, <2>4 DEF WriteAheadInv, EarlyInv
    <3>2. \A i \in Nodes : ~(At(i, "source", "await") /\ call[i].mig = m)
      <4> SUFFICES ASSUME NEW i \in Nodes, At(i, "source", "await"), call[i].mig = m
                   PROVE  FALSE
        OBVIOUS
      <4>1. i = plan[m].src
        BY DEF WriteAheadInv, CallInv, At
      <4> QED
        BY <2>1, <2>2, <2>4, <4>1 DEF At, Early
    <3>3. m \notin Asked'
      BY <2>2, <3>1, <3>2 DEF Ordinary, RequestStep
    <3>4. journal'[plan[m].dst][m] = "none"
      BY <1>1, <2>2, <3>1 DEF Ordinary, JournalStep
    <3> QED
      BY <2>1, <2>4, <3>3, <3>4 DEF Early
  <2> QED
    BY <2>3, <2>4
<1>10. RequestInv'
  BY <1>1, <1>4, <1>5 DEF RequestInv, Ordinary
<1>11. WriteAhead'
  <2> SUFFICES ASSUME NEW m \in Migrations
               PROVE  /\ journal'[plan[m].dst][m] # "none" /\ plan[m] # NoPlan
                            => journal'[plan[m].src][m] \notin {"none", "preparing", "transferring"}
                      /\ bid'[m] \in {"activating", "consumed"} => journal'[plan[m].dst][m] # "none"
    BY DEF WriteAhead, Ordinary
  <2>1. ASSUME journal'[plan[m].dst][m] # "none", plan[m] # NoPlan
        PROVE  journal'[plan[m].src][m] \notin {"none", "preparing", "transferring"}
    <3>1. journal[plan[m].dst][m] # "none" \/ m \in Asked
      BY <1>1, <2>1 DEF Ordinary, JournalStep
    <3>2. journal[plan[m].src][m] \in Late
      BY <1>1, <1>3, <2>1, <3>1 DEF WriteAheadInv, WriteAhead, TypeOK, Late
    <3> QED
      BY <1>1, <1>4, <3>2 DEF Late
  <2>2. ASSUME bid'[m] \in {"activating", "consumed"}
        PROVE  journal'[plan[m].dst][m] # "none"
    BY <1>1, <1>4, <2>2 DEF WriteAheadInv, WriteAhead, Ordinary, BidStep
  <2> QED
    BY <2>1, <2>2
<1> QED
  BY <1>6, <1>7, <1>8, <1>9, <1>10, <1>11 DEF WriteAheadInv

(* What a step leaves alone, it changes in an ordinary way. *)
LEMMA UnchangedStep ==
    /\ UNCHANGED journal => JournalStep
    /\ UNCHANGED call => CallStep
    /\ UNCHANGED listed => ListedStep
    /\ UNCHANGED requests => RequestStep
    /\ UNCHANGED bid => BidStep
  BY DEF JournalStep, CallStep, ListedStep, RequestStep, BidStep, Asked

(* A call that goes on, or is given up. *)
LEMMA EditStep ==
    ASSUME TypeOK, NEW n \in Nodes, NEW c, call' = [call EXCEPT ![n] = c],
           call[n].at # "idle", c.kind = call[n].kind, c.mig = call[n].mig,
           call[n].kind = "source" => /\ c.at \in Early => call[n].at \in Early
                                      /\ c.at = "await" => call[n].at = "await"
    PROVE  CallStep
  BY DEF TypeOK, CallStep

LEMMA GoStep ==
    ASSUME TypeOK, NEW n \in Nodes, NEW p, Go(n, p), call[n].at # "idle", p # "await",
           call[n].kind = "source" => (p \in Early => call[n].at \in Early)
    PROVE  CallStep
<1>1. call[n] \in Call
  BY DEF TypeOK
<1> DEFINE c == [call[n] EXCEPT !.at = p]
<1>2. c.at = p /\ c.kind = call[n].kind /\ c.mig = call[n].mig
  BY <1>1 DEF Call
<1>3. call' = [call EXCEPT ![n] = c]
  BY DEF Go
<1> HIDE DEF c
<1> QED
  BY <1>2, <1>3, EditStep

LEMMA ReleaseStep ==
    ASSUME TypeOK, NEW n \in Nodes, Release(n)
    PROVE  CallStep
  BY NoCallType DEF TypeOK, Release, CallStep

(* A call that begins, other than migrate. *)
LEMMA BeginStep ==
    ASSUME TypeOK, NEW n \in Nodes, NEW c, call' = [call EXCEPT ![n] = c],
           c.kind \in {"destination", "reconcile"},
           journal'[n][c.mig] # "none",
           c.kind = "destination" => n = plan[c.mig].dst
    PROVE  CallStep
  BY DEF TypeOK, CallStep

(* A record that is written for what exists, or on request. *)
LEMMA RecordStep ==
    ASSUME TypeOK, NEW n \in Nodes, NEW m \in Migrations, NEW s \in Late, Record(n, m, s),
           journal[n][m] # "none" \/ (n = plan[m].dst /\ m \in Asked)
    PROVE  JournalStep
  BY DEF TypeOK, Record, JournalStep

(* The record of a call in progress exists. *)
LEMMA CallRecord ==
    ASSUME TypeOK, WriteAheadInv, NEW n \in Nodes, call[n].at # "idle"
    PROVE  /\ call[n].mig \in Migrations
           /\ call[n] \in Call
           /\ journal[n][call[n].mig] # "none"
           /\ call[n].kind = "source" => n = plan[call[n].mig].src
           /\ call[n].kind = "destination" => n = plan[call[n].mig].dst
  BY DEF TypeOK, WriteAheadInv, CallInv

-------------------------------------------------------------------------------
(* The steps, in the order of Next. *)

(* migrate and the reconciliation of a source record, the steps before the
   request and after it. *)
LEMMA SourceKeeps ==
    ASSUME TypeOK, WriteAheadInv, NEW n \in Nodes, SourceNext(n)
    PROVE  WriteAheadInv'
<1>1. CASE PrefetchDone(n)
  <2>1. CallStep
    BY <1>1, GoStep DEF PrefetchDone, At, Early
  <2> QED
    BY <1>1, <2>1, UnchangedStep, OrdinaryStep
    DEF PrefetchDone, Ordinary, records, network
<1>2. CASE PrefetchFailed(n)
  <2>1. journal[n][call[n].mig] # "none" /\ call[n].mig \in Migrations
    BY <1>2, CallRecord DEF PrefetchFailed, At
  <2>2. JournalStep
    BY <1>2, <2>1, RecordStep DEF PrefetchFailed, At, Late, JournalStatus
  <2>3. CallStep
    BY <1>2, GoStep DEF PrefetchFailed, At, Early
  <2> QED
    BY <1>2, <2>1, <2>2, <2>3, UnchangedStep, OrdinaryStep
    DEF PrefetchFailed, Ordinary, records, network
<1>3. CASE MarkSource(n)
  <2>1. CallStep
    BY <1>3, GoStep DEF MarkSource, At, Early
  <2> QED
    BY <1>3, <2>1, UnchangedStep, OrdinaryStep
    DEF MarkSource, Ordinary, records, network
<1>4. CASE TransferDone(n)
  <2>1. CallStep
    BY <1>4, GoStep DEF TransferDone, At, Early
  <2> QED
    BY <1>4, <2>1, UnchangedStep, OrdinaryStep
    DEF TransferDone, Ordinary, records, network
<1>5. CASE TransferFailed(n)
  <2>1. CallStep
    BY <1>5, GoStep DEF TransferFailed, At, Early
  <2> QED
    BY <1>5, <2>1, UnchangedStep, OrdinaryStep
    DEF TransferFailed, Ordinary, records, network
<1>6. CASE ReceiveResponse(n)
  <2>1. CallStep
    BY <1>6, GoStep DEF ReceiveResponse, At, Early
  <2> QED
    BY <1>6, <2>1, UnchangedStep, OrdinaryStep
    DEF ReceiveResponse, Ordinary, records, network
<1>7. CASE QueryAnswered(n)
  <2> DEFINE c == [call[n] EXCEPT !.at = "decide", !.reached = TRUE,
                      !.answer = journal[plan[call[n].mig].dst][call[n].mig]]
  <2>1. call[n] \in Call /\ call[n].at # "idle"
    BY <1>7 DEF QueryAnswered, TypeOK
  <2>2. call' = [call EXCEPT ![n] = c]
    BY <1>7 DEF QueryAnswered
  <2>3. c.kind = call[n].kind /\ c.mig = call[n].mig /\ c.at = "decide"
    BY <2>1 DEF Call
  <2> HIDE DEF c
  <2>4. CallStep
    BY <2>1, <2>2, <2>3, EditStep DEF Early
  <2> QED
    BY <1>7, <2>4, UnchangedStep, OrdinaryStep DEF QueryAnswered, Ordinary, records, network
<1>8. CASE QueryFails(n)
  <2> DEFINE c == [call[n] EXCEPT !.at = "decide", !.answer = "none"]
  <2>1. call[n] \in Call /\ call[n].at # "idle"
    BY <1>8 DEF QueryFails, TypeOK
  <2>2. call' = [call EXCEPT ![n] = c]
    BY <1>8 DEF QueryFails
  <2>3. c.kind = call[n].kind /\ c.mig = call[n].mig /\ c.at = "decide"
    BY <2>1 DEF Call
  <2> HIDE DEF c
  <2>4. CallStep
    BY <2>1, <2>2, <2>3, EditStep DEF Early
  <2> QED
    BY <1>8, <2>4, UnchangedStep, OrdinaryStep DEF QueryFails, Ordinary, records, network
<1>9. CASE PollAgain(n)
  <2>1. CallStep
    BY <1>9, GoStep DEF PollAgain, At, Early
  <2> QED
    BY <1>9, <2>1, UnchangedStep, OrdinaryStep
    DEF PollAgain, Ordinary, records, network
<1>10. CASE ResolveActivated(n)
  <2>1. CallStep
    BY <1>10, GoStep DEF ResolveActivated, At, Early
  <2> QED
    BY <1>10, <2>1, UnchangedStep, OrdinaryStep
    DEF ResolveActivated, Ordinary, records, network
<1>11. CASE ResolveNotCommitted(n)
  <2>1. CallStep
    BY <1>11, GoStep DEF ResolveNotCommitted, At, Early
  <2> QED
    BY <1>11, <2>1, UnchangedStep, OrdinaryStep
    DEF ResolveNotCommitted, Ordinary, records, network
<1>12. CASE GiveAway(n)
  <2>1. CallStep
    BY <1>12, GoStep DEF GiveAway, At, Early
  <2> QED
    BY <1>12, <2>1, UnchangedStep, OrdinaryStep
    DEF GiveAway, Ordinary, records, network
<1>13. CASE CommitSource(n)
  <2>1. journal[n][call[n].mig] # "none" /\ call[n].mig \in Migrations
    BY <1>13, CallRecord DEF CommitSource, At
  <2>2. JournalStep
    BY <1>13, <2>1, RecordStep DEF CommitSource, At, Late, JournalStatus
  <2>3. CallStep
    BY <1>13, ReleaseStep DEF CommitSource
  <2> QED
    BY <1>13, <2>1, <2>2, <2>3, UnchangedStep, OrdinaryStep
    DEF CommitSource, Ordinary, records, network
<1>14. CASE UndoSource(n)
  <2>1. CallStep
    BY <1>14, GoStep DEF UndoSource, At, Early
  <2> QED
    BY <1>14, <2>1, UnchangedStep, OrdinaryStep
    DEF UndoSource, Ordinary, records, network
<1>15. CASE RestoreSource(n)
  <2>1. CallStep
    BY <1>15, GoStep DEF RestoreSource, At, Early
  <2> QED
    BY <1>15, <2>1, UnchangedStep, OrdinaryStep
    DEF RestoreSource, Ordinary, records, network
<1>16. CASE JournalUndo(n)
  <2>1. journal[n][call[n].mig] # "none" /\ call[n].mig \in Migrations
    BY <1>16, CallRecord DEF JournalUndo, At
  <2>2. JournalStep
    BY <1>16, <2>1, RecordStep DEF JournalUndo, At, Late, JournalStatus
  <2>3. CallStep
    BY <1>16, GoStep, ReleaseStep DEF JournalUndo, At, Early
  <2> QED
    BY <1>16, <2>1, <2>2, <2>3, UnchangedStep, OrdinaryStep
    DEF JournalUndo, Ordinary, records, network
<1>17. CASE CancelReservation(n)
  <2>1. CallStep
    BY <1>17, ReleaseStep DEF CancelReservation
  <2>2. BidStep
    BY <1>17 DEF CancelReservation, BidStep, Cancelled, HeldBid, TypeOK, BidStatus, At
  <2> QED
    BY <1>17, <2>1, <2>2, UnchangedStep, OrdinaryStep
    DEF CancelReservation, Ordinary, records, network
<1>18. CASE ResolveUnknown(n)
  <2>1. call[n].at = "decide"
    BY <1>18 DEF ResolveUnknown
  <2>2. CASE call[n].kind = "source"
    <3>1. CallStep
      BY <1>18, <2>1, <2>2, GoStep DEF ResolveUnknown, Early
    <3> QED
      BY <1>18, <2>2, <3>1, UnchangedStep, OrdinaryStep
      DEF ResolveUnknown, Ordinary, records, network
  <2>3. CASE call[n].kind # "source"
    <3>1. CallStep
      BY <1>18, <2>3, ReleaseStep DEF ResolveUnknown
    <3>2. JournalStep
      BY <1>18, <2>1, <2>3, CallRecord, RecordStep DEF ResolveUnknown, Late, JournalStatus
    <3> QED
      BY <1>18, <2>3, <3>1, <3>2, UnchangedStep, OrdinaryStep
      DEF ResolveUnknown, Ordinary, records, network
  <2> QED
    BY <2>2, <2>3
<1>19. CASE AttemptFails(n)
  <2> DEFINE m == call[n].mig
             k == call[n].attempt
  <2>1. call[n].at = "await" /\ call[n].kind = "source"
    BY <1>19 DEF AttemptFails, At
  <2>2. m \in Migrations /\ call[n] \in Call /\ journal[n][m] # "none"
    BY <2>1, CallRecord
  <2>3. PICK kept \in SUBSET (requests \cap {<<m, k>>}) :
          LET others == (requests \ {<<m, k>>}) \cup kept
          IN  IF k < MaxAttempts
              THEN /\ requests' = others \cup {<<m, k + 1>>}
                   /\ call' = [call EXCEPT ![n] = [@ EXCEPT !.attempt = k + 1]]
                   /\ UNCHANGED journal
              ELSE /\ requests' = others
                   /\ Record(n, m, "uncertain")
                   /\ Go(n, "query")
    BY <1>19 DEF AttemptFails
  <2>4. requests' \subseteq requests \cup {<<m, k + 1>>}
    BY <2>3
  <2>5. RequestStep
    <3>1. \A i \in Migrations, a \in Attempts :
             <<i, a>> \in requests' => <<i, a>> \in requests \/ i = m
      BY <2>4
    <3> QED
      BY <2>1, <3>1 DEF RequestStep, Asked, At
  <2>6. CallStep /\ JournalStep
    <3>1. CASE k < MaxAttempts
      <4> DEFINE c == [call[n] EXCEPT !.attempt = k + 1]
      <4>1. c.kind = call[n].kind /\ c.mig = call[n].mig /\ c.at = call[n].at
        BY <2>2 DEF Call
      <4>2. call' = [call EXCEPT ![n] = c] /\ UNCHANGED journal
        BY <2>3, <3>1
      <4> HIDE DEF c
      <4> QED
        BY <2>1, <4>1, <4>2, EditStep, UnchangedStep
    <3>2. CASE ~(k < MaxAttempts)
      <4>1. Record(n, m, "uncertain") /\ Go(n, "query")
        BY <2>3, <3>2
      <4>2. JournalStep
        BY <2>2, <4>1, RecordStep DEF Late, JournalStatus
      <4>3. CallStep
        BY <2>1, <4>1, GoStep DEF Early
      <4> QED
        BY <4>2, <4>3
    <3> QED
      BY <3>1, <3>2
  <2> QED
    BY <1>19, <2>5, <2>6, UnchangedStep, OrdinaryStep DEF AttemptFails, Ordinary
<1>20. CASE JournalTransfer(n)
  <2> DEFINE m == call[n].mig
  <2>1. call[n].at = "journalTransfer" /\ call[n].kind = "source"
    BY <1>20 DEF JournalTransfer, At
  <2>2. m \in Migrations /\ call[n] \in Call /\ journal[n][m] # "none" /\ n = plan[m].src
    BY <2>1, CallRecord
  <2>3. /\ journal' = [journal EXCEPT ![n][m] = "transferring"]
        /\ call' = [call EXCEPT ![n] = [call[n] EXCEPT !.at = "kill"]]
        /\ UNCHANGED <<plan, bid, listed, requests>>
    BY <1>20 DEF JournalTransfer, Record, Go, network
  <2>4. m \notin Asked /\ journal[plan[m].dst][m] = "none"
    BY <2>1 DEF WriteAheadInv, EarlyInv, Early
  <2>5. /\ plan[m] # NoPlan /\ plan[m].dst # n
        /\ \A i \in Migrations : plan[i].dst \in Nodes /\ plan[i].src \in Nodes
    BY <2>2 DEF WriteAheadInv, PlanInv, TypeOK, Plan
  <2>6. \A i \in Nodes, j \in Migrations :
           journal'[i][j] = IF i = n /\ j = m THEN "transferring" ELSE journal[i][j]
    BY <2>2, <2>3 DEF TypeOK
  <2>7. \A i \in Nodes : /\ i # n => call'[i] = call[i]
                         /\ call'[i].kind = call[i].kind
                         /\ call'[i].mig = call[i].mig
                         /\ call'[n].at = "kill"
    BY <2>2, <2>3 DEF TypeOK, Call
  <2>8. Asked' = Asked
    BY <2>3 DEF Asked
  <2>9. \A i \in Nodes : call[i].at # "idle" => call[i].mig \in Migrations
    BY DEF TypeOK
  <2>10. \A i \in Nodes : call'[i].at # "idle" => call[i].at # "idle"
    BY <2>1, <2>7
  <2>11. PlanInv'
    BY <2>3, <2>5, <2>6 DEF WriteAheadInv, PlanInv
  <2>12. CallInv'
    BY <2>3, <2>6, <2>7, <2>9, <2>10 DEF WriteAheadInv, CallInv
  <2>13. ListInv'
    BY <2>3, <2>6 DEF WriteAheadInv, ListInv
  <2>14. EarlyInv'
    <3> SUFFICES ASSUME NEW i \in Nodes, call'[i].kind = "source",
                        call'[i].at \in Early \/ call'[i].at = "await"
                 PROVE  LET j == call'[i].mig
                        IN  /\ call'[i].at \in Early
                                  => j \notin Asked /\ journal'[plan[j].dst][j] = "none"
                            /\ call'[i].at = "await" => journal'[i][j] \in Late
      BY <2>3, <2>8 DEF EarlyInv
    <3>1. CASE i = n
      BY <2>4, <2>5, <2>2, <2>6, <2>7, <3>1
    <3>2. CASE i # n
      <4>1. call'[i] = call[i] /\ call[i].at # "idle" /\ call[i].mig \in Migrations
        BY <2>7, <2>9, <3>2 DEF Early
      <4>2. i = plan[call[i].mig].src
        BY <4>1, <2>7 DEF WriteAheadInv, CallInv
      <4>3. call[i].mig # m
        BY <2>2, <3>2, <4>2
      <4> QED
        BY <2>5, <2>6, <2>7, <4>1, <4>3 DEF WriteAheadInv, EarlyInv
    <3> QED
      BY <3>1, <3>2
  <2>15. RequestInv'
    BY <2>3, <2>4, <2>5, <2>6, <2>8 DEF WriteAheadInv, RequestInv
  <2>16. WriteAhead'
    <3> SUFFICES ASSUME NEW j \in Migrations
                 PROVE  /\ journal'[plan[j].dst][j] # "none" /\ plan[j] # NoPlan
                              => journal'[plan[j].src][j] \notin {"none", "preparing", "transferring"}
                        /\ bid[j] \in {"activating", "consumed"} => journal'[plan[j].dst][j] # "none"
      BY <2>3 DEF WriteAhead
    <3>1. CASE j = m
      BY <2>4, <2>5, <2>6, <3>1 DEF WriteAheadInv, WriteAhead
    <3>2. CASE j # m
      BY <2>5, <2>6, <3>2 DEF WriteAheadInv, WriteAhead
    <3> QED
      BY <3>1, <3>2
  <2> QED
    BY <2>11, <2>12, <2>13, <2>14, <2>15, <2>16 DEF WriteAheadInv
<1>21. CASE RequestActivation(n)
  <2> DEFINE m == call[n].mig
  <2>1. call[n].at = "request" /\ call[n].kind = "source"
    BY <1>21 DEF RequestActivation, At
  <2>2. m \in Migrations /\ call[n] \in Call /\ journal[n][m] # "none" /\ n = plan[m].src
    BY <2>1, CallRecord
  <2>3. /\ journal' = [journal EXCEPT ![n][m] = "activating"]
        /\ call' = [call EXCEPT ![n] = [call[n] EXCEPT !.at = "await", !.attempt = 1]]
        /\ requests' = requests \cup {<<m, 1>>}
        /\ UNCHANGED <<plan, bid, listed>>
    BY <1>21 DEF RequestActivation, Record
  <2>4. \A i \in Migrations : plan[i].dst \in Nodes /\ plan[i].src \in Nodes
    BY DEF TypeOK, Plan
  <2>5. plan[m] # NoPlan
    BY <2>2 DEF WriteAheadInv, PlanInv
  <2>6. \A i \in Nodes, j \in Migrations :
           journal'[i][j] = IF i = n /\ j = m THEN "activating" ELSE journal[i][j]
    BY <2>2, <2>3 DEF TypeOK
  <2>7. \A i \in Nodes : /\ i # n => call'[i] = call[i]
                         /\ call'[i].kind = call[i].kind
                         /\ call'[i].mig = call[i].mig
                         /\ call'[n].at = "await"
    BY <2>2, <2>3 DEF TypeOK, Call
  <2>8. \A j \in Migrations : j \in Asked' => j \in Asked \/ j = m
    BY <2>3 DEF Asked
  <2>9. \A i \in Nodes : call[i].at # "idle" => call[i].mig \in Migrations
    BY DEF TypeOK
  <2>10. \A i \in Nodes : call'[i].at # "idle" => call[i].at # "idle"
    BY <2>1, <2>7
  <2>11. "activating" \in Late
    BY DEF Late, JournalStatus
  <2>12. PlanInv'
    BY <2>3, <2>5, <2>6 DEF WriteAheadInv, PlanInv
  <2>13. CallInv'
    BY <2>3, <2>6, <2>7, <2>9, <2>10 DEF WriteAheadInv, CallInv
  <2>14. ListInv'
    BY <2>3, <2>6 DEF WriteAheadInv, ListInv
  <2>15. EarlyInv'
    <3> SUFFICES ASSUME NEW i \in Nodes, call'[i].kind = "source",
                        call'[i].at \in Early \/ call'[i].at = "await"
                 PROVE  LET j == call'[i].mig
                        IN  /\ call'[i].at \in Early
                                  => j \notin Asked' /\ journal'[plan[j].dst][j] = "none"
                            /\ call'[i].at = "await" => journal'[i][j] \in Late
      BY <2>3 DEF EarlyInv
    <3>1. CASE i = n
      <4>1. call'[i].at = "await" /\ call'[i].mig = m /\ "await" \notin Early
        BY <2>7, <3>1 DEF Early
      <4>2. journal'[i][m] \in Late
        BY <2>2, <2>6, <2>11, <3>1
      <4> QED
        BY <4>1, <4>2
    <3>2. CASE i # n
      <4>1. call'[i] = call[i] /\ call[i].at # "idle" /\ call[i].mig \in Migrations
        BY <2>7, <2>9, <3>2 DEF Early
      <4>2. i = plan[call[i].mig].src
        BY <4>1, <2>7 DEF WriteAheadInv, CallInv
      <4>3. call[i].mig # m
        BY <2>2, <3>2, <4>2
      <4> QED
        BY <2>4, <2>6, <2>7, <2>8, <4>1, <4>3 DEF WriteAheadInv, EarlyInv
    <3> QED
      BY <3>1, <3>2
  <2>16. RequestInv'
    BY <2>2, <2>3, <2>4, <2>6, <2>8, <2>11 DEF WriteAheadInv, RequestInv
  <2>17. WriteAhead'
    <3> SUFFICES ASSUME NEW j \in Migrations
                 PROVE  /\ journal'[plan[j].dst][j] # "none" /\ plan[j] # NoPlan
                              => journal'[plan[j].src][j] \notin {"none", "preparing", "transferring"}
                        /\ bid[j] \in {"activating", "consumed"} => journal'[plan[j].dst][j] # "none"
      BY <2>3 DEF WriteAhead
    <3>1. CASE j = m
      BY <2>2, <2>4, <2>6, <3>1 DEF WriteAheadInv, WriteAhead
    <3>2. CASE j # m
      BY <2>4, <2>6, <3>2 DEF WriteAheadInv, WriteAhead
    <3> QED
      BY <3>1, <3>2
  <2> QED
    BY <2>12, <2>13, <2>14, <2>15, <2>16, <2>17 DEF WriteAheadInv
<1> QED
  BY <1>1, <1>2, <1>3, <1>4, <1>5, <1>6, <1>7, <1>8, <1>9, <1>10, <1>11,
     <1>12, <1>13, <1>14, <1>15, <1>16, <1>17, <1>18, <1>19, <1>20, <1>21 DEF SourceNext

(* Stopping and starting the process. *)
LEMMA ProcessKeeps ==
    ASSUME TypeOK, WriteAheadInv, NEW n \in Nodes, ProcessNext(n)
    PROVE  WriteAheadInv'
<1>1. CASE StopProcess(n)
  <2> DEFINE c == IF call[n].kind = "source"
                  THEN [call[n] EXCEPT !.at = "transfer", !.stopped = TRUE]
                  ELSE [call[n] EXCEPT !.at = "abort"]
  <2>1. call[n] \in Call /\ call[n].at = "kill"
    BY <1>1 DEF StopProcess, TypeOK
  <2>2. call' = [call EXCEPT ![n] = c]
    BY <1>1 DEF StopProcess
  <2>3. c.kind = call[n].kind /\ c.mig = call[n].mig /\ c.at # "await"
    BY <2>1 DEF Call
  <2> HIDE DEF c
  <2>4. CallStep
    BY <2>1, <2>2, <2>3, EditStep DEF Early
  <2> QED
    BY <1>1, <2>4, UnchangedStep, OrdinaryStep DEF StopProcess, Ordinary, records, network
<1>2. CASE Spawn(n)
  <2>1. call[n] \in Call /\ call[n].at = "spawn"
    BY <1>2 DEF Spawn, TypeOK
  <2>2. PICK p \in Pids : call' = [call EXCEPT ![n] = [@ EXCEPT !.at = "running", !.pid = p]]
    BY <1>2 DEF Spawn
  <2> DEFINE c == [call[n] EXCEPT !.at = "running", !.pid = p]
  <2>3. c.kind = call[n].kind /\ c.mig = call[n].mig /\ c.at = "running"
    BY <2>1 DEF Call
  <2>4. call' = [call EXCEPT ![n] = c]
    BY <2>2
  <2> HIDE DEF c
  <2>5. CallStep
    BY <2>1, <2>3, <2>4, EditStep DEF Early
  <2> QED
    BY <1>2, <2>5, UnchangedStep, OrdinaryStep DEF Spawn, Ordinary, records, network
<1>3. CASE SpawnNotNeeded(n)
  <2>1. CallStep
    BY <1>3, GoStep DEF SpawnNotNeeded, AfterStart, Early
  <2> QED
    BY <1>3, <2>1, UnchangedStep, OrdinaryStep
    DEF SpawnNotNeeded, Ordinary, records, network
<1>4. CASE SpawnRefused(n)
  <2>1. CallStep
    BY <1>4, GoStep DEF SpawnRefused, StartRaised, Early
  <2> QED
    BY <1>4, <2>1, UnchangedStep, OrdinaryStep
    DEF SpawnRefused, Ordinary, records, network
<1>5. CASE SpawnNotReady(n)
  <2>1. CallStep
    BY <1>5, GoStep DEF SpawnNotReady, StartRaised, Early
  <2> QED
    BY <1>5, <2>1, UnchangedStep, OrdinaryStep
    DEF SpawnNotReady, Ordinary, records, network
<1>6. CASE MarkRunningAfterSpawn(n)
  <2>1. call[n] \in Call /\ call[n].at = "running"
    BY <1>6 DEF MarkRunningAfterSpawn, TypeOK
  <2>2. CASE CanRun(n, reg[n])
    <3> DEFINE c == [call[n] EXCEPT !.at = AfterStart(n), !.pid = NoPid]
    <3>1. call' = [call EXCEPT ![n] = c]
      BY <1>6, <2>2 DEF MarkRunningAfterSpawn
    <3>2. c.kind = call[n].kind /\ c.mig = call[n].mig /\ c.at \notin Early \cup {"await"}
      BY <2>1 DEF Call, Early, AfterStart
    <3> HIDE DEF c
    <3> QED
      BY <1>6, <2>1, <3>1, <3>2, EditStep, UnchangedStep, OrdinaryStep
      DEF MarkRunningAfterSpawn, Ordinary, records, network
  <2>3. CASE ~CanRun(n, reg[n])
    <3>1. CallStep
      BY <1>6, <2>1, <2>3, GoStep DEF MarkRunningAfterSpawn, StartRaised, Early
    <3> QED
      BY <1>6, <3>1, UnchangedStep, OrdinaryStep
      DEF MarkRunningAfterSpawn, Ordinary, records, network
  <2> QED
    BY <2>2, <2>3
<1> QED
  BY <1>1, <1>2, <1>3, <1>4, <1>5, <1>6 DEF ProcessNext

(* activate_incoming. *)
LEMMA DestinationKeeps ==
    ASSUME TypeOK, WriteAheadInv, NEW n \in Nodes, DestinationNext(n)
    PROVE  WriteAheadInv'
<1>1. ASSUME NEW m \in Migrations, NEW k \in Attempts, AnswerClaimed(n, m, k)
      PROVE  WriteAheadInv'
  <2>1. m \in Asked /\ n = plan[m].dst
    BY <1>1 DEF AnswerClaimed, Asked
  <2>2. JournalStep
    BY <1>1, <2>1, RecordStep DEF AnswerClaimed, Late, JournalStatus
  <2>3. RequestStep
    BY <1>1 DEF AnswerClaimed, RequestStep, Asked
  <2> QED
    BY <1>1, <2>2, <2>3, UnchangedStep, OrdinaryStep DEF AnswerClaimed, Ordinary
<1>2. ASSUME NEW m \in Migrations, NEW k \in Attempts, AnswerRolledBack(n, m, k)
      PROVE  WriteAheadInv'
  <2>1. RequestStep
    BY <1>2 DEF AnswerRolledBack, RequestStep, Asked
  <2> QED
    BY <1>2, <2>1, UnchangedStep, OrdinaryStep DEF AnswerRolledBack, Ordinary, records
<1>3. ASSUME NEW m \in Migrations, NEW k \in Attempts, StartActivation(n, m, k)
      PROVE  WriteAheadInv'
  <2>1. m \in Asked /\ n = plan[m].dst
    BY <1>3 DEF StartActivation, Asked
  <2>2. JournalStep
    BY <1>3, <2>1, RecordStep DEF StartActivation, Late, JournalStatus
  <2>3. RequestStep
    BY <1>3 DEF StartActivation, RequestStep, Asked
  <2> DEFINE c == [NoCall(n) EXCEPT !.kind = "destination", !.at = "begin", !.mig = m,
                                    !.attempt = k, !.saved = reg[n]]
  <2>4. c.kind = "destination" /\ c.mig = m
    BY DEF NoCall
  <2>5. call' = [call EXCEPT ![n] = c] /\ journal'[n][m] # "none"
    BY <1>3 DEF StartActivation, Record, TypeOK
  <2> HIDE DEF c
  <2>6. CallStep
    BY <2>1, <2>4, <2>5, BeginStep
  <2> QED
    BY <1>3, <2>2, <2>3, <2>6, UnchangedStep, OrdinaryStep DEF StartActivation, Ordinary
<1>4. CASE BeginActivation(n)
  <2>1. /\ call[n].mig \in Migrations
        /\ journal[plan[call[n].mig].dst][call[n].mig] # "none"
    BY <1>4, CallRecord DEF BeginActivation, At
  <2>2. CallStep
    BY <1>4, GoStep, ReleaseStep DEF BeginActivation, At, Early
  <2>3. BidStep
    BY <1>4, <2>1 DEF BeginActivation, BidStep, TypeOK
  <2> QED
    BY <1>4, <2>2, <2>3, UnchangedStep, OrdinaryStep DEF BeginActivation, Ordinary, records, network
<1>5. CASE ClaimTask(n)
  <2>1. CallStep
    BY <1>5, GoStep DEF ClaimTask, At, Early
  <2> QED
    BY <1>5, <2>1, UnchangedStep, OrdinaryStep
    DEF ClaimTask, Ordinary, records, network
<1>6. CASE CheckpointInvalid(n)
  <2>1. CallStep
    BY <1>6, GoStep DEF CheckpointInvalid, At, Early
  <2> QED
    BY <1>6, <2>1, UnchangedStep, OrdinaryStep
    DEF CheckpointInvalid, Ordinary, records, network
<1>7. CASE ConsumeReservation(n)
  <2>1. /\ call[n].mig \in Migrations
        /\ journal[plan[call[n].mig].dst][call[n].mig] # "none"
    BY <1>7, CallRecord DEF ConsumeReservation, At
  <2>2. CallStep
    BY <1>7, GoStep, ReleaseStep DEF ConsumeReservation, At, Early
  <2>3. BidStep
    BY <1>7, <2>1 DEF ConsumeReservation, BidStep, TypeOK
  <2> QED
    BY <1>7, <2>2, <2>3, UnchangedStep, OrdinaryStep DEF ConsumeReservation, Ordinary, records, network
<1>8. CASE ConfirmActivation(n)
  <2>1. journal[n][call[n].mig] # "none" /\ call[n].mig \in Migrations
    BY <1>8, CallRecord DEF ConfirmActivation, At
  <2>2. JournalStep
    BY <1>8, <2>1, RecordStep DEF ConfirmActivation, At, Late, JournalStatus
  <2>3. CallStep
    BY <1>8, ReleaseStep DEF ConfirmActivation
  <2> QED
    BY <1>8, <2>1, <2>2, <2>3, UnchangedStep, OrdinaryStep
    DEF ConfirmActivation, Ordinary, records, network
<1>9. CASE AbortActivation(n)
  <2>1. CallStep
    BY <1>9, GoStep DEF AbortActivation, At, Early
  <2> QED
    BY <1>9, <2>1, UnchangedStep, OrdinaryStep
    DEF AbortActivation, Ordinary, records, network
<1>10. CASE JournalAbort(n)
  <2>1. call[n].at = "journalAbort" /\ call[n].mig \in Migrations
    BY <1>10, CallRecord DEF JournalAbort
  <2>2. JournalStep
    BY <1>10, <2>1, CallRecord, RecordStep DEF JournalAbort, Late, JournalStatus
  <2>3. CallStep
    BY <1>10, <2>1, GoStep, ReleaseStep DEF JournalAbort, Early
  <2>4. BidStep
    BY <1>10, <2>1 DEF JournalAbort, BidStep, TypeOK, BidStatus, Cancelled, HeldBid
  <2> QED
    BY <1>10, <2>2, <2>3, <2>4, UnchangedStep, OrdinaryStep DEF JournalAbort, Ordinary, network
<1>11. CASE RefuseActivation(n)
  <2>1. /\ call[n].mig \in Migrations
        /\ journal[plan[call[n].mig].dst][call[n].mig] # "none"
    BY <1>11, CallRecord DEF RefuseActivation, At
  <2>2. CallStep
    BY <1>11, GoStep, ReleaseStep DEF RefuseActivation, At, Early
  <2>3. BidStep
    BY <1>11, <2>1 DEF RefuseActivation, BidStep, TypeOK, BidStatus, Cancelled, HeldBid
  <2> QED
    BY <1>11, <2>2, <2>3, UnchangedStep, OrdinaryStep DEF RefuseActivation, Ordinary, records, network
<1> QED
  BY <1>1, <1>2, <1>3, <1>4, <1>5, <1>6, <1>7, <1>8, <1>9, <1>10, <1>11 DEF DestinationNext


(* reconcile_durable_state. *)
LEMMA ReconcileKeeps ==
    ASSUME TypeOK, WriteAheadInv, NEW n \in Nodes, ReconcileNext(n)
    PROVE  WriteAheadInv'
<1>1. CASE ListRecords(n)
  <2>1. ListedStep
    BY <1>1 DEF ListRecords, ListedStep, TypeOK
  <2> QED
    BY <1>1, <2>1, UnchangedStep, OrdinaryStep DEF ListRecords, Ordinary, records, network
<1>2. ASSUME NEW m \in Migrations, Turn(n, m), Handled(n, m)
      PROVE  journal[n][m] # "none" /\ ListedStep
  BY <1>2 DEF Turn, Handled, ListedStep, TypeOK, WriteAheadInv, ListInv
<1>3. ASSUME NEW m \in Migrations, NEW p \in Place, Turn(n, m), Handled(n, m),
             TakeUp(n, m, p), UNCHANGED journal
      PROVE  CallStep
  <2> DEFINE c == [NoCall(n) EXCEPT !.kind = "reconcile", !.at = p, !.mig = m,
                                    !.saved = original[n][m]]
  <2>1. c.kind = "reconcile" /\ c.mig = m
    BY DEF NoCall
  <2>2. call' = [call EXCEPT ![n] = c] /\ journal'[n][m] # "none"
    BY <1>2, <1>3 DEF TakeUp
  <2> HIDE DEF c
  <2> QED
    BY <2>1, <2>2, BeginStep
<1>4. ASSUME NEW m \in Migrations, ReconcileCommitted(n, m)
      PROVE  WriteAheadInv'
  <2>1. journal[n][m] # "none" /\ ListedStep
    BY <1>2, <1>4 DEF ReconcileCommitted
  <2>2. JournalStep
    BY <1>4, <2>1, RecordStep DEF ReconcileCommitted, Late, JournalStatus
  <2>3. BidStep
    BY <1>4, <2>1 DEF ReconcileCommitted, BidStep, TypeOK
  <2> QED
    BY <1>4, <2>1, <2>2, <2>3, UnchangedStep, OrdinaryStep
    DEF ReconcileCommitted, Ordinary, network
<1>5. ASSUME NEW m \in Migrations, ReconcileIncomplete(n, m)
      PROVE  WriteAheadInv'
  <2>1. PICK p \in Place : TakeUp(n, m, p)
    BY <1>5 DEF ReconcileIncomplete, Place
  <2>2. ListedStep /\ CallStep
    BY <1>2, <1>3, <1>5, <2>1 DEF ReconcileIncomplete, records
  <2> QED
    BY <1>5, <2>2, UnchangedStep, OrdinaryStep
    DEF ReconcileIncomplete, Ordinary, records, network
<1>6. ASSUME NEW m \in Migrations, ReconcileSettled(n, m)
      PROVE  WriteAheadInv'
  <2>1. journal[n][m] # "none" /\ ListedStep
    BY <1>2, <1>6 DEF ReconcileSettled
  <2>2. PICK t \in {"activated", "rolled_back"} : Record(n, m, t)
    BY <1>6 DEF ReconcileSettled
  <2>3. JournalStep
    BY <2>1, <2>2, RecordStep DEF Late, JournalStatus
  <2> QED
    BY <1>6, <2>1, <2>3, UnchangedStep, OrdinaryStep
    DEF ReconcileSettled, Ordinary, network
<1>7. ASSUME NEW m \in Migrations, ReconcileSource(n, m)
      PROVE  WriteAheadInv'
  <2>1. TakeUp(n, m, "query") /\ "query" \in Place
    BY <1>7 DEF ReconcileSource, Place
  <2>2. ListedStep /\ CallStep
    BY <1>2, <1>3, <1>7, <2>1 DEF ReconcileSource, records
  <2> QED
    BY <1>7, <2>2, UnchangedStep, OrdinaryStep
    DEF ReconcileSource, Ordinary, records, network
<1> QED
  BY <1>1, <1>4, <1>5, <1>6, <1>7 DEF ReconcileNext

(* The services that do not take the lock touch none of this. *)
LEMMA ServiceKeeps ==
    ASSUME TypeOK, WriteAheadInv, NEW n \in Nodes, ServiceNext(n)
    PROVE  WriteAheadInv'
<1>1. UNCHANGED <<journal, plan, bid, call, listed, requests>>
  BY DEF ServiceNext, Gossip, ReconcileRuntime, Recover, StarterSpawn, StarterRunning,
         StarterNotReady, records, network
<1> QED
  BY <1>1, UnchangedStep, OrdinaryStep DEF Ordinary

(* Exits, operators and crashes: what is forgotten is not durable. *)
LEMMA EnvironmentKeeps ==
    ASSUME TypeOK, WriteAheadInv, NEW n \in Nodes, EnvironmentNext(n)
    PROVE  WriteAheadInv'
<1>1. CASE ProcessExits(n) \/ OperatorStart(n)
  BY <1>1, UnchangedStep, OrdinaryStep
  DEF ProcessExits, OperatorStart, Ordinary, records, network
<1>2. CASE Crash(n) \/ ServiceCrash(n)
  <2>1. Forget(n) /\ UNCHANGED <<journal, plan, bid>>
    BY <1>2 DEF Crash, ServiceCrash, records
  <2>2. CallStep
    BY <2>1, ReleaseStep DEF Forget
  <2>3. ListedStep
    BY <2>1 DEF Forget, NothingListed, ListedStep, TypeOK
  <2>4. requests' \subseteq requests
    BY <2>1 DEF Forget
  <2>5. RequestStep
    BY <2>4 DEF RequestStep, Asked
  <2> QED
    BY <2>1, <2>2, <2>3, <2>5, UnchangedStep, OrdinaryStep DEF Ordinary
<1> QED
  BY <1>1, <1>2 DEF EnvironmentNext

(* A new migration, of which nothing is known anywhere. *)
LEMMA StartKeeps ==
    ASSUME TypeOK, WriteAheadInv, NEW n \in Nodes, SchedulerNext(n)
    PROVE  WriteAheadInv'
<1>1. PICK d \in Nodes, m \in Migrations :
         /\ plan[m] = NoPlan
         /\ d # n
         /\ Free(n)
         /\ plan' = [plan EXCEPT ![m] = [src |-> n, dst |-> d, gen |-> reg[n].gen + 1]]
         /\ bid' = [bid EXCEPT ![m] = "accepted"]
         /\ journal' = [journal EXCEPT ![n][m] = "preparing"]
         /\ call' = [call EXCEPT ![n] = [NoCall(n) EXCEPT !.kind = "source",
                                                          !.at = "prefetch", !.mig = m]]
         /\ UNCHANGED <<listed, requests>>
  BY DEF SchedulerNext, StartMigration, Record, network
<1>2. /\ plan'[m].src = n /\ plan'[m].dst = d /\ plan'[m] # NoPlan
      /\ \A i \in Migrations : i # m => plan'[i] = plan[i]
  BY <1>1 DEF TypeOK, NoPlan
<1>3. \A i \in Nodes, j \in Migrations :
         journal'[i][j] = IF i = n /\ j = m THEN "preparing" ELSE journal[i][j]
  BY <1>1 DEF TypeOK
<1>4. /\ call'[n].kind = "source" /\ call'[n].at = "prefetch" /\ call'[n].mig = m
      /\ \A i \in Nodes : i # n => call'[i] = call[i]
  BY <1>1 DEF TypeOK, NoCall
<1>5. \A i \in Migrations : plan[i].src \in Nodes /\ plan[i].dst \in Nodes
  BY DEF TypeOK, Plan
<1>6. \A i \in Nodes : journal[i][m] = "none"
  BY <1>1 DEF WriteAheadInv, PlanInv
<1>7. \A i \in Nodes : i # n /\ call'[i].at # "idle" => call[i].mig \in Migrations /\ call[i].mig # m
  BY <1>4, <1>6 DEF TypeOK, WriteAheadInv, CallInv
<1>8. Asked' = Asked
  BY <1>1 DEF Asked
<1>9. m \notin Asked
  BY <1>5, <1>6 DEF WriteAheadInv, RequestInv, Late
<1>10. PlanInv'
  BY <1>1, <1>2, <1>3 DEF WriteAheadInv, PlanInv
<1>11. CallInv'
  <2> SUFFICES ASSUME NEW i \in Nodes, call'[i].at # "idle"
               PROVE  /\ journal'[i][call'[i].mig] # "none"
                      /\ call'[i].kind = "source" => i = plan'[call'[i].mig].src
                      /\ call'[i].kind = "destination" => i = plan'[call'[i].mig].dst
    BY DEF CallInv
  <2>1. CASE i = n
    BY <1>2, <1>3, <1>4, <2>1
  <2>2. CASE i # n
    BY <1>2, <1>3, <1>4, <1>7, <2>2 DEF WriteAheadInv, CallInv
  <2> QED
    BY <2>1, <2>2
<1>12. ListInv'
  BY <1>1, <1>3 DEF WriteAheadInv, ListInv
<1>13. EarlyInv'
  <2> SUFFICES ASSUME NEW i \in Nodes, call'[i].kind = "source",
                      call'[i].at \in Early \/ call'[i].at = "await"
               PROVE  LET j == call'[i].mig
                      IN  /\ call'[i].at \in Early
                                => j \notin Asked /\ journal'[plan'[j].dst][j] = "none"
                          /\ call'[i].at = "await" => journal'[i][j] \in Late
    BY <1>8 DEF EarlyInv
  <2>1. CASE i = n
    BY <1>1, <1>2, <1>3, <1>4, <1>6, <1>9, <2>1
  <2>2. CASE i # n
    <3>1. call'[i] = call[i] /\ call[i].mig \in Migrations /\ call[i].mig # m
      BY <1>4, <1>7, <2>2 DEF Early
    <3> QED
      BY <1>2, <1>3, <1>5, <2>2, <3>1 DEF WriteAheadInv, EarlyInv
  <2> QED
    BY <2>1, <2>2
<1>14. RequestInv'
  <2> SUFFICES ASSUME NEW j \in Migrations, j \in Asked
               PROVE  journal'[plan'[j].src][j] \in Late
    BY <1>8 DEF RequestInv
  <2>1. j # m /\ plan'[j] = plan[j]
    BY <1>2, <1>9
  <2> QED
    BY <1>3, <1>5, <2>1 DEF WriteAheadInv, RequestInv
<1>15. WriteAhead'
  <2> SUFFICES ASSUME NEW j \in Migrations
               PROVE  /\ journal'[plan'[j].dst][j] # "none" /\ plan'[j] # NoPlan
                            => journal'[plan'[j].src][j] \notin {"none", "preparing", "transferring"}
                      /\ bid'[j] \in {"activating", "consumed"} => journal'[plan'[j].dst][j] # "none"
    BY DEF WriteAhead
  <2>1. CASE j = m
    <3>1. journal'[plan'[m].dst][m] = "none" /\ bid'[m] = "accepted"
      BY <1>1, <1>2, <1>3, <1>6 DEF TypeOK
    <3> QED
      BY <2>1, <3>1
  <2>2. CASE j # m
    <3>1. plan'[j] = plan[j] /\ bid'[j] = bid[j]
      BY <1>1, <1>2, <2>2 DEF TypeOK
    <3> QED
      BY <1>3, <1>5, <2>2, <3>1 DEF WriteAheadInv, WriteAhead
  <2> QED
    BY <2>1, <2>2
<1> QED
  BY <1>10, <1>11, <1>12, <1>13, <1>14, <1>15 DEF WriteAheadInv

-------------------------------------------------------------------------------
(* WriteAheadInv is inductive, given the types. *)
LEMMA WriteAheadKept == Spec => []WriteAheadInv
<1>1. Init => WriteAheadInv
  <2> SUFFICES ASSUME Init PROVE WriteAheadInv
    OBVIOUS
  <2>1. /\ journal = [n \in Nodes |-> [m \in Migrations |-> "none"]]
        /\ plan = [m \in Migrations |-> NoPlan]
        /\ bid = [m \in Migrations |-> "none"]
        /\ call = [n \in Nodes |-> NoCall(n)]
        /\ listed = [n \in Nodes |-> NothingListed]
        /\ requests = {}
    BY DEF Init
  <2>2. Asked = {}
    BY <2>1 DEF Asked
  <2>3. \A n \in Nodes : call[n].at = "idle" /\ call[n].kind = "none"
    BY <2>1 DEF NoCall
  <2> QED
    BY <2>1, <2>2, <2>3
    DEF WriteAheadInv, PlanInv, CallInv, ListInv, EarlyInv, RequestInv, WriteAhead, NothingListed
<1>2. TypeOK /\ WriteAheadInv /\ [Next]_vars => WriteAheadInv'
  <2> SUFFICES ASSUME TypeOK, WriteAheadInv, [Next]_vars PROVE WriteAheadInv'
    OBVIOUS
  <2>1. CASE UNCHANGED vars
    BY <2>1, UnchangedStep, OrdinaryStep DEF vars, Ordinary
  <2>2. ASSUME NEW m \in Migrations, ExpireReservation(m)
        PROVE  WriteAheadInv'
    <3>1. BidStep
      BY <2>2 DEF ExpireReservation, BidStep, TypeOK, HeldBid
    <3> QED
      BY <2>2, <3>1, UnchangedStep, OrdinaryStep
      DEF ExpireReservation, Ordinary, records, network
  <2>3. ASSUME NEW n \in Nodes,
               \/ SchedulerNext(n) \/ SourceNext(n) \/ ProcessNext(n) \/ DestinationNext(n)
               \/ ReconcileNext(n) \/ ServiceNext(n) \/ EnvironmentNext(n)
        PROVE  WriteAheadInv'
    BY <2>3, StartKeeps, SourceKeeps, ProcessKeeps, DestinationKeeps, ReconcileKeeps,
       ServiceKeeps, EnvironmentKeeps
  <2> QED
    BY <2>1, <2>2, <2>3 DEF Next
<1> QED
  BY <1>1, <1>2, TypeCorrect, PTL DEF Spec

(* The records are written ahead (_set_record_status before every request and
   every effect of migrate and activate_incoming): whatever is lost, delayed or
   restarted, a destination has a record of a migration only if the source's
   own record says that it may have been activated, and touches the reservation
   only after its own record. *)
THEOREM RecordsWrittenAhead == Spec => []WriteAhead
<1>1. WriteAheadInv => WriteAhead
  BY DEF WriteAheadInv
<1> QED
  BY <1>1, WriteAheadKept, PTL

-------------------------------------------------------------------------------
(* Who owns the task. *)

(* What is excluded: a request that outlives its client, an answer that is
   forgotten, a task passed on before an earlier migration is decided, a record
   that changes between its listing and its reconciliation, and a claim that is
   told before it is committed.  Crashes, restarts, exits, failed starts,
   completions, operators and an eager recovery are not. *)
Orderly == Faults \cap {"lateRequest", "flakyQuery", "moveOn", "staleList", "claimLeak"} = {}

-------------------------------------------------------------------------------
(* The course of the calls. *)

SourcePlace == {"prefetch", "mark", "journalTransfer", "kill", "transfer", "request",
                "await", "query", "decide", "remote", "commit", "undo", "restore",
                "spawn", "running", "journalUndo", "cancel"}
ResolvePlace == {"query", "decide", "remote", "commit", "undo", "spawn", "running",
                 "journalUndo"}
DestinationPlace == {"begin", "claim", "spawn", "running", "consume", "confirm",
                     "kill", "abort", "journalAbort", "refuse"}
RevertPlace == {"kill", "abort", "journalAbort"}

(* A call of kind k on m may be at place p of node n. *)
Role(k, p, n, m) ==
    \/ k = "none" /\ p = "idle"
    \/ k = "source" /\ p \in SourcePlace /\ n = plan[m].src
    \/ k = "destination" /\ p \in DestinationPlace /\ n = plan[m].dst
    \/ k = "reconcile" /\ p \in ResolvePlace /\ n = plan[m].src
    \/ k = "reconcile" /\ p \in RevertPlace /\ n = plan[m].dst

RoleInv == \A n \in Nodes : Role(call[n].kind, call[n].at, n, call[n].mig)

(* Only the two ends of a migration have a record of it. *)
PartyInv ==
    \A n \in Nodes, m \in Migrations :
        journal[n][m] # "none" =>
           \/ n = plan[m].src
           \/ n = plan[m].dst /\ journal[n][m] \in {"activating"} \cup Terminal

(* A listed record is as it was listed; until the last one is handled only
   reconciliation is in progress at the node. *)
ListedInv ==
    \A n \in Nodes :
       /\ \A m \in Migrations : listed[n][m] # "none" =>
             /\ listed[n][m] = journal[n][m]
             /\ journal[n][m] \notin Terminal
       /\ listed[n] # NothingListed /\ ~Free(n) =>
             call[n].kind = "reconcile" /\ listed[n][call[n].mig] = "none"

(* Until a call has closed its record, the record is open. *)
OpenCallInv ==
    \A n \in Nodes : call[n].at \notin {"idle", "cancel", "refuse"} =>
           journal[n][call[n].mig] \notin Terminal \cup {"none"}

(* The client of m waits for its attempt k. *)
Awaits(m, k) == /\ At(plan[m].src, "source", "await")
                /\ call[plan[m].src].mig = m
                /\ call[plan[m].src].attempt = k

(* The migrations for which a response is on its way. *)
Answered == {m \in Migrations : \E k \in 0 .. MaxAttempts, ok \in BOOLEAN :
                                    <<m, k, ok>> \in responses}

(* Requests and responses are those of the attempt the client waits for: its
   request is on its way, or served, or answered, once. *)
RequestOrder == \A m \in Migrations, k \in Attempts : <<m, k>> \in requests => Awaits(m, k)
ResponseOrder ==
    \A m \in Migrations, k \in 0 .. MaxAttempts :
        /\ \A ok \in BOOLEAN : <<m, k, ok>> \in responses => Awaits(m, k) /\ m \notin Asked
        /\ <<m, k, TRUE>> \notin responses \/ <<m, k, FALSE>> \notin responses
ServeOrder ==
    \A n \in Nodes : call[n].kind = "destination" =>
        /\ call[n].mig \notin Asked \cup Answered
        /\ \A k \in 0 .. MaxAttempts : Awaits(call[n].mig, k) => k = call[n].attempt
ClientInv == RequestOrder /\ ResponseOrder /\ ServeOrder

CourseInv == RoleInv /\ PartyInv /\ ListedInv /\ OpenCallInv /\ ClientInv

-------------------------------------------------------------------------------
(* What a step does to a call and to the records, field by field. *)

Elsewhere(n) == \A i \in Nodes : i # n => call'[i] = call[i]

Moves(n, p) == /\ Elsewhere(n)
               /\ call'[n].at = p
               /\ call'[n].kind = call[n].kind
               /\ call'[n].mig = call[n].mig
               /\ call'[n].attempt = call[n].attempt
               /\ call'[n].saved = call[n].saved

Idles(n) == /\ Elsewhere(n)
            /\ call'[n].at = "idle"
            /\ call'[n].kind = "none"

Writes(n, m, w) == \A i \in Nodes, j \in Migrations :
                       journal'[i][j] = IF i = n /\ j = m THEN w ELSE journal[i][j]

(* A call of activate_incoming that ends may answer a client that waits. *)
Answers(n, p) ==
    \/ UNCHANGED responses
    \/ /\ p = "idle"
       /\ call[n].kind = "destination"
       /\ \E k \in 0 .. MaxAttempts, ok \in BOOLEAN :
             Awaits(call[n].mig, k) /\ responses' = responses \cup {<<call[n].mig, k, ok>>}

LEMMA GoMoves ==
    ASSUME TypeOK, NEW n \in Nodes, NEW p, Go(n, p)
    PROVE  Moves(n, p) /\ call'[n].answer = call[n].answer /\ call'[n].reached = call[n].reached
<1>1. call[n] \in Call
  BY DEF TypeOK
<1> DEFINE c == [call[n] EXCEPT !.at = p]
<1>2. /\ c.at = p /\ c.kind = call[n].kind /\ c.mig = call[n].mig
      /\ c.attempt = call[n].attempt /\ c.saved = call[n].saved
      /\ c.answer = call[n].answer /\ c.reached = call[n].reached
  BY <1>1 DEF Call
<1>3. call' = [call EXCEPT ![n] = c]
  BY DEF Go
<1> HIDE DEF c
<1> QED
  BY <1>2, <1>3 DEF Moves, Elsewhere, TypeOK

(* The other edits of a call in progress. *)
LEMMA EditMoves ==
    ASSUME TypeOK, NEW n \in Nodes, NEW p, NEW c, call' = [call EXCEPT ![n] = c],
           \/ c = [call[n] EXCEPT !.at = p, !.stopped = TRUE]
           \/ \E q \in Pids \cup {NoPid} : c = [call[n] EXCEPT !.at = p, !.pid = q]
           \/ \E w \in JournalStatus : c = [call[n] EXCEPT !.at = p, !.answer = w]
           \/ \E w \in JournalStatus :
                 c = [call[n] EXCEPT !.at = p, !.reached = TRUE, !.answer = w]
    PROVE  Moves(n, p)
<1>1. call[n] \in Call
  BY DEF TypeOK
<1>2. /\ c.at = p /\ c.kind = call[n].kind /\ c.mig = call[n].mig
      /\ c.attempt = call[n].attempt /\ c.saved = call[n].saved
  BY <1>1 DEF Call
<1> QED
  BY <1>2 DEF Moves, Elsewhere, TypeOK

LEMMA ReleaseIdles ==
    ASSUME TypeOK, NEW n \in Nodes, Release(n)
    PROVE  Idles(n)
<1>1. NoCall(n).at = "idle" /\ NoCall(n).kind = "none"
  BY DEF NoCall
<1> HIDE DEF NoCall
<1> QED
  BY <1>1 DEF Idles, Elsewhere, Release, TypeOK

LEMMA RecordWrites ==
    ASSUME TypeOK, NEW n \in Nodes, NEW m \in Migrations, NEW w, Record(n, m, w)
    PROVE  Writes(n, m, w)
  BY DEF TypeOK, Record, Writes

-------------------------------------------------------------------------------
(* Steps that keep the course. *)

(* Where the calls of a node are, as seen by the other parts. *)
LEMMA CallPlaces ==
    ASSUME TypeOK, WriteAheadInv, CourseInv, NEW n \in Nodes, call[n].at # "idle"
    PROVE  /\ call[n].mig \in Migrations
           /\ plan[call[n].mig] # NoPlan
           /\ plan[call[n].mig].src # plan[call[n].mig].dst
           /\ journal[n][call[n].mig] # "none"
  BY DEF TypeOK, WriteAheadInv, PlanInv, CallInv, CourseInv

LEMMA DestinationCalls ==
    ASSUME TypeOK, CourseInv
    PROVE  \A n \in Nodes : call[n].kind = "destination" =>
              /\ call[n].at \in DestinationPlace
              /\ call[n].mig \in Migrations
              /\ n = plan[call[n].mig].dst
<1>1. \A n \in Nodes : call[n].kind = "destination" =>
         call[n].at \in DestinationPlace /\ n = plan[call[n].mig].dst
  BY DEF CourseInv, RoleInv, Role
<1>2. "idle" \notin DestinationPlace
  BY DEF DestinationPlace
<1> QED
  BY <1>1, <1>2 DEF TypeOK

(* A step that touches none of it. *)
LEMMA ClientQuiet ==
    ASSUME ClientInv, UNCHANGED <<plan, call, requests, responses>>
    PROVE  ClientInv'
<1>1. /\ Asked' = Asked /\ Answered' = Answered
      /\ \A m \in Migrations : \A k : Awaits(m, k)' <=> Awaits(m, k)
  BY DEF Asked, Answered, Awaits, At
<1>2. RequestOrder' /\ ResponseOrder'
  BY <1>1 DEF ClientInv, RequestOrder, ResponseOrder
<1>3. ServeOrder'
  BY DEF ClientInv, ServeOrder, Asked, Answered, Awaits, At
<1> QED
  BY <1>2, <1>3 DEF ClientInv

LEMMA CourseQuiet ==
    ASSUME CourseInv, UNCHANGED <<journal, plan, call, listed, requests, responses>>
    PROVE  CourseInv'
<1>1. RoleInv'
  BY DEF CourseInv, RoleInv, Role
<1>2. PartyInv' /\ ListedInv' /\ OpenCallInv'
  BY DEF CourseInv, PartyInv, ListedInv, OpenCallInv, Free
<1>3. ClientInv'
  BY ClientQuiet DEF CourseInv
<1> QED
  BY <1>1, <1>2, <1>3 DEF CourseInv

(* A call that goes on or ends, with or without a record written, while the
   client waits for nothing. *)
LEMMA CourseMove ==
    ASSUME TypeOK, WriteAheadInv, CourseInv, NEW n \in Nodes, NEW p,
           call[n].at \notin {"idle", "await"},
           \/ p = "idle" /\ Idles(n)
           \/ p \notin {"idle", "await"} /\ Moves(n, p) /\ Role(call[n].kind, p, n, call[n].mig),
           \/ /\ UNCHANGED journal
              /\ p \in {"idle", "cancel", "refuse"} \/ call[n].at \notin {"cancel", "refuse"}
           \/ \E w \in JournalStatus \ {"none"} :
                 /\ Writes(n, call[n].mig, w)
                 /\ n = plan[call[n].mig].src \/ w \in {"activating"} \cup Terminal
                 /\ p \in {"idle", "cancel", "refuse"} \/ w \notin Terminal,
           Answers(n, p),
           UNCHANGED <<plan, listed, requests>>
    PROVE  CourseInv'
<1> DEFINE m == call[n].mig
<1>1. /\ m \in Migrations
      /\ \A i \in Nodes : call[i].at # "idle" => call[i].mig \in Migrations
      /\ \A i \in Migrations : plan[i].src \in Nodes /\ plan[i].dst \in Nodes
  BY DEF TypeOK, Plan
<1>2. \A i \in Nodes : i # n => call'[i] = call[i]
  BY DEF Idles, Moves, Elsewhere
<1>3. \A i \in Nodes, j \in Migrations : i # n \/ j # m => journal'[i][j] = journal[i][j]
  BY DEF Writes
<1>4. Asked' = Asked
  BY DEF Asked
<1>5. \A j \in Migrations, k \in 0 .. MaxAttempts : Awaits(j, k)' <=> Awaits(j, k)
  <2> SUFFICES ASSUME NEW j \in Migrations
               PROVE  \A k \in 0 .. MaxAttempts : Awaits(j, k)' <=> Awaits(j, k)
    OBVIOUS
  <2>1. CASE plan[j].src = n
    <3>1. call'[n].at # "await"
      BY DEF Idles, Moves
    <3> QED
      BY <2>1, <3>1 DEF Awaits, At
  <2>2. CASE plan[j].src # n
    <3>1. call'[plan[j].src] = call[plan[j].src]
      BY <1>1, <1>2, <2>2
    <3> QED
      BY <3>1 DEF Awaits, At
  <2> QED
    BY <2>1, <2>2
<1>6. RoleInv'
  <2> SUFFICES ASSUME NEW i \in Nodes
               PROVE  Role(call[i].kind, call[i].at, i, call[i].mig)'
    BY DEF RoleInv
  <2>1. CASE i = n
    BY <2>1 DEF Role, Idles, Moves
  <2>2. CASE i # n
    BY <1>2, <2>2 DEF CourseInv, RoleInv, Role
  <2> QED
    BY <2>1, <2>2
<1>7. PartyInv'
  BY <1>1, <1>3 DEF CourseInv, PartyInv, RoleInv, Role, Writes
<1>8. ListedInv'
  <2> SUFFICES ASSUME NEW i \in Nodes
               PROVE  /\ \A j \in Migrations : listed[i][j] # "none" =>
                            listed[i][j] = journal'[i][j] /\ journal'[i][j] \notin Terminal
                      /\ listed[i] # NothingListed /\ call'[i].at # "idle" =>
                            call'[i].kind = "reconcile" /\ listed[i][call'[i].mig] = "none"
    BY DEF ListedInv, Free
  <2>1. CASE i # n
    BY <1>2, <1>3, <2>1 DEF CourseInv, ListedInv, Free
  <2>2. CASE i = n
    <3>1. listed[n][m] = "none"
      BY <1>1 DEF CourseInv, ListedInv, Free, NothingListed
    <3>2. call'[n].at # "idle" => call'[n].kind = call[n].kind /\ call'[n].mig = m
      BY DEF Idles, Moves
    <3> QED
      BY <1>3, <2>2, <3>1, <3>2 DEF CourseInv, ListedInv, Free
  <2> QED
    BY <2>1, <2>2
<1>9. OpenCallInv'
  <2> SUFFICES ASSUME NEW i \in Nodes, call'[i].at \notin {"idle", "cancel", "refuse"}
               PROVE  journal'[i][call'[i].mig] \notin Terminal \cup {"none"}
    BY DEF OpenCallInv
  <2>1. CASE i # n
    BY <1>1, <1>2, <1>3, <2>1 DEF CourseInv, OpenCallInv
  <2>2. CASE i = n
    <3>1. call'[n].at = p /\ call'[n].mig = m /\ p \notin {"idle", "cancel", "refuse"}
      BY <2>2 DEF Idles, Moves
    <3>2. CASE UNCHANGED journal /\ call[n].at \notin {"cancel", "refuse"}
      BY <2>2, <3>1, <3>2 DEF CourseInv, OpenCallInv
    <3>3. CASE \E w \in JournalStatus \ {"none"} : Writes(n, m, w) /\ w \notin Terminal
      BY <1>1, <2>2, <3>1, <3>3 DEF Writes
    <3> QED
      BY <3>1, <3>2, <3>3
  <2> QED
    BY <2>1, <2>2
<1>10. ClientInv'
  <2>1. \A i \in Nodes : call'[i].kind = "destination" =>
           call[i].kind = "destination" /\ call'[i].mig = call[i].mig
           /\ call'[i].attempt = call[i].attempt /\ call[i].mig \in Migrations
    BY <1>1, <1>2 DEF Idles, Moves, CourseInv, RoleInv, Role, DestinationPlace
  <2>2. Attempts \subseteq 0 .. MaxAttempts
    BY AttemptNumbers
  <2>3. CASE UNCHANGED responses
    <3>1. Answered' = Answered
      BY <2>3 DEF Answered
    <3> QED
      BY <1>4, <1>5, <2>1, <2>2, <2>3, <3>1 DEF CourseInv, ClientInv, RequestOrder, ResponseOrder, ServeOrder
  <2>4. ASSUME p = "idle", call[n].kind = "destination",
               NEW k \in 0 .. MaxAttempts, NEW ok \in BOOLEAN,
               Awaits(m, k), responses' = responses \cup {<<m, k, ok>>}
        PROVE  ClientInv'
    <3>1. m \notin Asked \cup Answered
      BY <2>4 DEF CourseInv, ClientInv, RequestOrder, ResponseOrder, ServeOrder
    <3>2. \A j \in Migrations, a \in 0 .. MaxAttempts, b \in BOOLEAN :
             /\ <<j, a, b>> \in responses' => <<j, a, b>> \in responses \/ (j = m /\ a = k /\ b = ok)
             /\ <<m, a, b>> \notin responses
      BY <1>1, <2>4, <3>1 DEF Answered
    <3>3. \A j \in Migrations \ {m} : j \in Answered' => j \in Answered
      BY <3>2 DEF Answered
    <3>4. \A i \in Nodes : call'[i].kind = "destination" =>
             call[i].kind = "destination" /\ call[i].mig # m
      <4>1. call'[n].kind = "none"
        BY <2>4 DEF Idles, Moves
      <4> QED
        BY <2>1, <2>4, <4>1, DestinationCalls
    <3>5. \A j \in Migrations, a \in Attempts : <<j, a>> \in requests' => Awaits(j, a)'
      BY <1>5, <2>2 DEF CourseInv, ClientInv, RequestOrder, ResponseOrder, ServeOrder
    <3>6. \A j \in Migrations, a \in 0 .. MaxAttempts :
             /\ \A b \in BOOLEAN : <<j, a, b>> \in responses' => Awaits(j, a)' /\ j \notin Asked'
             /\ <<j, a, TRUE>> \notin responses' \/ <<j, a, FALSE>> \notin responses'
      <4> SUFFICES ASSUME NEW j \in Migrations, NEW a \in 0 .. MaxAttempts
                   PROVE  /\ \A b \in BOOLEAN :
                                <<j, a, b>> \in responses' => Awaits(j, a)' /\ j \notin Asked'
                          /\ <<j, a, TRUE>> \notin responses' \/ <<j, a, FALSE>> \notin responses'
        OBVIOUS
      <4>1. CASE j = m
        BY <1>4, <1>5, <2>4, <3>1, <3>2, <4>1
      <4>2. CASE j # m
        <5>1. \A b \in BOOLEAN : <<j, a, b>> \in responses' => <<j, a, b>> \in responses
          BY <3>2, <4>2
        <5> QED
          BY <1>4, <1>5, <5>1 DEF CourseInv, ClientInv, ResponseOrder
      <4> QED
        BY <4>1, <4>2
    <3>7. \A i \in Nodes : call'[i].kind = "destination" =>
             /\ call'[i].mig \notin Asked' \cup Answered'
             /\ \A a \in 0 .. MaxAttempts : Awaits(call[i].mig, a)' => a = call'[i].attempt
      BY <1>4, <1>5, <2>1, <2>2, <3>3, <3>4 DEF CourseInv, ClientInv, RequestOrder, ResponseOrder, ServeOrder
    <3> QED
      BY <2>1, <3>5, <3>6, <3>7 DEF ClientInv, RequestOrder, ResponseOrder, ServeOrder
  <2> QED
    BY <2>3, <2>4 DEF Answers
<1> QED
  BY <1>6, <1>7, <1>8, <1>9, <1>10 DEF CourseInv

(* A request that is answered without a call. *)
LEMMA CourseAnswer ==
    ASSUME TypeOK, WriteAheadInv, CourseInv, NEW n \in Nodes, NEW m \in Migrations,
           NEW k \in Attempts, NEW ok \in BOOLEAN,
           Free(n), n = plan[m].dst, <<m, k>> \in requests,
           requests' = requests \ {<<m, k>>}, Respond(m, k, ok),
           UNCHANGED journal \/ (Writes(n, m, "activated") /\ listed[n] = NothingListed),
           UNCHANGED <<plan, call, listed>>
    PROVE  CourseInv'
<1>1. \A i \in Migrations : plan[i].src \in Nodes /\ plan[i].dst \in Nodes
  BY DEF TypeOK, Plan
<1>2. \A j \in Migrations : \A a : Awaits(j, a)' <=> Awaits(j, a)
  BY DEF Awaits, At
<1>3. Awaits(m, k) /\ m \notin Asked' /\ Asked' \subseteq Asked
  <2>1. Awaits(m, k) /\ \A a \in Attempts : <<m, a>> \in requests => Awaits(m, a)
    BY DEF CourseInv, ClientInv, RequestOrder, ResponseOrder, ServeOrder
  <2>2. \A a \in 0 .. MaxAttempts : Awaits(m, a) => a = k
    BY <2>1 DEF Awaits
  <2> QED
    BY <2>1, <2>2, AttemptNumbers DEF Asked
<1>4. /\ \A j \in Migrations, a \in 0 .. MaxAttempts, b \in BOOLEAN :
            <<j, a, b>> \in responses' => <<j, a, b>> \in responses \/ (j = m /\ a = k /\ b = ok)
      /\ \A a \in 0 .. MaxAttempts, b \in BOOLEAN : <<m, a, b>> \notin responses
      /\ \A j \in Migrations \ {m} : j \in Answered' => j \in Answered
  <2>1. m \in Asked
    BY DEF Asked
  <2>2. \A a \in 0 .. MaxAttempts, b \in BOOLEAN : <<m, a, b>> \notin responses
    BY <2>1 DEF CourseInv, ClientInv, RequestOrder, ResponseOrder, ServeOrder
  <2>3. \A j \in Migrations, a \in 0 .. MaxAttempts, b \in BOOLEAN :
            <<j, a, b>> \in responses' => <<j, a, b>> \in responses \/ (j = m /\ a = k /\ b = ok)
    BY DEF Respond
  <2> QED
    BY <2>2, <2>3 DEF Answered
<1>5. \A i \in Nodes, j \in Migrations :
         journal'[i][j] = journal[i][j] \/ (i = n /\ j = m /\ journal'[i][j] = "activated")
  BY DEF Writes
<1>6. RoleInv'
  BY DEF CourseInv, RoleInv, Role
<1>7. PartyInv'
  BY <1>5 DEF CourseInv, PartyInv, Terminal
<1>8. ListedInv'
  BY DEF CourseInv, ListedInv, Free, Writes, NothingListed
<1>9. OpenCallInv'
  <2>1. \A i \in Nodes : call[i].at # "idle" => call[i].mig \in Migrations
    BY DEF TypeOK
  <2> QED
    BY <2>1 DEF CourseInv, OpenCallInv, Writes, Free
<1>10. ClientInv'
  <2>1. Attempts \subseteq 0 .. MaxAttempts
    BY AttemptNumbers
  <2>2. \A j \in Migrations, a \in Attempts : <<j, a>> \in requests' => Awaits(j, a)'
    BY <1>2 DEF CourseInv, ClientInv, RequestOrder, ResponseOrder, ServeOrder
  <2>3. \A j \in Migrations, a \in 0 .. MaxAttempts :
           /\ \A b \in BOOLEAN : <<j, a, b>> \in responses' => Awaits(j, a)' /\ j \notin Asked'
           /\ <<j, a, TRUE>> \notin responses' \/ <<j, a, FALSE>> \notin responses'
    BY <1>2, <1>3, <1>4, AttemptNumbers DEF CourseInv, ClientInv, ResponseOrder
  <2>4. \A i \in Nodes : call'[i].kind = "destination" =>
           /\ call'[i].mig \notin Asked' \cup Answered'
           /\ \A a \in 0 .. MaxAttempts : Awaits(call[i].mig, a)' => a = call'[i].attempt
    <3>1. \A i \in Nodes : call[i].kind = "destination" => call[i].mig \in Migrations \ {m}
      BY DestinationCalls DEF Free, DestinationPlace
    <3> QED
      BY <1>2, <1>3, <1>4, <3>1 DEF CourseInv, ClientInv, RequestOrder, ResponseOrder, ServeOrder
  <2> QED
    BY <2>2, <2>3, <2>4 DEF ClientInv, RequestOrder, ResponseOrder, ServeOrder
<1> QED
  BY <1>6, <1>7, <1>8, <1>9, <1>10 DEF CourseInv

(* A listed record that is handled, at once or by a call that begins. *)
LEMMA CourseHandled ==
    ASSUME TypeOK, WriteAheadInv, CourseInv, NEW n \in Nodes, NEW m \in Migrations,
           Free(n), listed[n][m] # "none", Handled(n, m),
           \/ /\ UNCHANGED call
              /\ \E w \in Terminal : Writes(n, m, w)
           \/ /\ Elsewhere(n)
              /\ call'[n].kind = "reconcile"
              /\ call'[n].mig = m
              /\ \/ n = plan[m].src /\ call'[n].at = "query"
                 \/ n = plan[m].dst /\ call'[n].at \in {"kill", "abort"}
              /\ UNCHANGED journal,
           UNCHANGED <<plan, requests, responses>>
    PROVE  CourseInv'
<1>1. \A i \in Migrations : plan[i].src \in Nodes /\ plan[i].dst \in Nodes
  BY DEF TypeOK, Plan
<1>2. /\ \A i \in Nodes : i # n => call'[i] = call[i]
      /\ call'[n] = call[n] \/ call'[n].kind = "reconcile"
      /\ call'[n].at # "await" /\ call[n].at # "await"
  BY DEF Elsewhere, Free
<1>3. \A i \in Nodes, j \in Migrations :
         \/ journal'[i][j] = journal[i][j]
         \/ i = n /\ j = m /\ journal'[i][j] \in Terminal
  BY DEF Writes
<1>4. Asked' = Asked /\ Answered' = Answered
  BY DEF Asked, Answered
<1>5. \A j \in Migrations, a \in 0 .. MaxAttempts : Awaits(j, a)' <=> Awaits(j, a)
  <2> SUFFICES ASSUME NEW j \in Migrations
               PROVE  \A k \in 0 .. MaxAttempts : Awaits(j, k)' <=> Awaits(j, k)
    OBVIOUS
  <2>1. CASE plan[j].src = n
    BY <1>2, <2>1 DEF Awaits, At
  <2>2. CASE plan[j].src # n
    <3>1. call'[plan[j].src] = call[plan[j].src]
      BY <1>1, <1>2, <2>2
    <3> QED
      BY <3>1 DEF Awaits, At
  <2> QED
    BY <2>1, <2>2
<1>6. \A i \in Nodes, j \in Migrations :
         listed'[i][j] = IF i = n /\ j = m THEN "none" ELSE listed[i][j]
  BY DEF Handled, TypeOK
<1>7. journal[n][m] \notin Terminal \cup {"none"}
  BY DEF CourseInv, ListedInv
<1>8. RoleInv'
  <2> SUFFICES ASSUME NEW i \in Nodes
               PROVE  Role(call[i].kind, call[i].at, i, call[i].mig)'
    BY DEF RoleInv
  <2>1. CASE call'[i] = call[i]
    BY <2>1 DEF CourseInv, RoleInv, Role
  <2>2. CASE call'[i] # call[i]
    BY <1>2, <2>2 DEF Role, ResolvePlace, RevertPlace
  <2> QED
    BY <2>1, <2>2
<1>9. PartyInv'
  BY <1>3, <1>7 DEF CourseInv, PartyInv
<1>10. ListedInv'
  <2>1. \A i \in Nodes, j \in Migrations : listed'[i][j] # "none" =>
           listed'[i][j] = journal'[i][j] /\ journal'[i][j] \notin Terminal
    BY <1>3, <1>6 DEF CourseInv, ListedInv
  <2>2. ASSUME NEW i \in Nodes, listed'[i] # NothingListed, call'[i].at # "idle"
        PROVE  call'[i].kind = "reconcile" /\ listed'[i][call'[i].mig] = "none"
    <3>1. CASE i = n
      BY <1>2, <1>6, <2>2, <3>1 DEF Free
    <3>2. CASE i # n
      <4>1. listed'[i] = listed[i] /\ call'[i] = call[i]
        BY <1>2, <3>2 DEF Handled, TypeOK
      <4> QED
        BY <2>2, <4>1 DEF CourseInv, ListedInv, Free
    <3> QED
      BY <3>1, <3>2
  <2> QED
    BY <2>1, <2>2 DEF ListedInv, Free, NothingListed
<1>11. OpenCallInv'
  <2> SUFFICES ASSUME NEW i \in Nodes, call'[i].at \notin {"idle", "cancel", "refuse"}
               PROVE  journal'[i][call'[i].mig] \notin Terminal \cup {"none"}
    BY DEF OpenCallInv
  <2>1. CASE i # n
    <3>1. call[i].mig \in Migrations
      BY <1>2, <2>1 DEF TypeOK
    <3> QED
      BY <1>2, <1>3, <2>1, <3>1 DEF CourseInv, OpenCallInv
  <2>2. CASE i = n
    BY <1>7, <2>2 DEF Free
  <2> QED
    BY <2>1, <2>2
<1>12. ClientInv'
  <2>1. Attempts \subseteq 0 .. MaxAttempts
    BY AttemptNumbers
  <2>2. \A i \in Nodes : call'[i].kind = "destination" =>
           call'[i] = call[i] /\ call[i].mig \in Migrations
    BY <1>2, DestinationCalls
  <2> QED
    BY <1>4, <1>5, <2>1, <2>2 DEF CourseInv, ClientInv, RequestOrder, ResponseOrder, ServeOrder
<1> QED
  BY <1>8, <1>9, <1>10, <1>11, <1>12 DEF CourseInv

(* A call that begins where the node is free, is not the client's wait, and
   does not touch requests but to take one. *)
LEMMA CourseActivation ==
    ASSUME TypeOK, WriteAheadInv, CourseInv, NEW n \in Nodes, NEW m \in Migrations,
           NEW k \in Attempts,
           Free(n), listed[n] = NothingListed, n = plan[m].dst, <<m, k>> \in requests,
           requests' = requests \ {<<m, k>>},
           Writes(n, m, "activating"),
           Elsewhere(n), call'[n].kind = "destination", call'[n].at = "begin",
           call'[n].mig = m, call'[n].attempt = k,
           UNCHANGED <<plan, listed, responses>>
    PROVE  CourseInv'
<1>1. \A i \in Migrations : plan[i].src \in Nodes /\ plan[i].dst \in Nodes
  BY DEF TypeOK, Plan
<1>2. \A i \in Nodes : i # n => call'[i] = call[i]
  BY DEF Elsewhere
<1>3. \A i \in Nodes, j \in Migrations :
         journal'[i][j] = journal[i][j] \/ (i = n /\ j = m /\ journal'[i][j] = "activating")
  BY DEF Writes
<1>4. \A j \in Migrations, a \in 0 .. MaxAttempts : Awaits(j, a)' <=> Awaits(j, a)
  <2> SUFFICES ASSUME NEW j \in Migrations
               PROVE  \A a \in 0 .. MaxAttempts : Awaits(j, a)' <=> Awaits(j, a)
    OBVIOUS
  <2>1. CASE plan[j].src = n
    BY <2>1 DEF Awaits, At, Free
  <2>2. CASE plan[j].src # n
    <3>1. call'[plan[j].src] = call[plan[j].src]
      BY <1>1, <1>2, <2>2
    <3> QED
      BY <3>1 DEF Awaits, At
  <2> QED
    BY <2>1, <2>2
<1>5. Attempts \subseteq 0 .. MaxAttempts
  BY AttemptNumbers
<1>6. Awaits(m, k) /\ m \notin Asked' /\ Asked' \subseteq Asked /\ \A a : Awaits(m, a) => a = k
  <2>1. Awaits(m, k) /\ \A a \in Attempts : <<m, a>> \in requests => Awaits(m, a)
    BY DEF CourseInv, ClientInv, RequestOrder, ResponseOrder, ServeOrder
  <2>2. \A a : Awaits(m, a) => a = k
    BY <2>1 DEF Awaits
  <2> QED
    BY <2>1, <2>2 DEF Asked
<1>7. RoleInv'
  <2> SUFFICES ASSUME NEW i \in Nodes
               PROVE  Role(call[i].kind, call[i].at, i, call[i].mig)'
    BY DEF RoleInv
  <2>1. CASE i # n
    BY <1>2, <2>1 DEF CourseInv, RoleInv, Role
  <2>2. CASE i = n
    BY <2>2 DEF Role, DestinationPlace
  <2> QED
    BY <2>1, <2>2
<1>8. PartyInv'
  BY <1>3 DEF CourseInv, PartyInv
<1>9. ListedInv'
  <2> SUFFICES ASSUME NEW i \in Nodes
               PROVE  /\ \A j \in Migrations : listed[i][j] # "none" =>
                            listed[i][j] = journal'[i][j] /\ journal'[i][j] \notin Terminal
                      /\ listed[i] # NothingListed /\ call'[i].at # "idle" =>
                            call'[i].kind = "reconcile" /\ listed[i][call'[i].mig] = "none"
    BY DEF ListedInv, Free
  <2>1. CASE i # n
    BY <1>2, <1>3, <2>1 DEF CourseInv, ListedInv, Free
  <2>2. CASE i = n
    BY <2>2 DEF NothingListed
  <2> QED
    BY <2>1, <2>2
<1>10. OpenCallInv'
  <2> SUFFICES ASSUME NEW i \in Nodes, call'[i].at \notin {"idle", "cancel", "refuse"}
               PROVE  journal'[i][call'[i].mig] \notin Terminal \cup {"none"}
    BY DEF OpenCallInv
  <2>1. CASE i # n
    <3>1. call[i].mig \in Migrations /\ call'[i] = call[i]
      BY <1>2, <2>1 DEF TypeOK
    <3> QED
      BY <1>3, <2>1, <3>1 DEF CourseInv, OpenCallInv
  <2>2. CASE i = n
    BY <2>2 DEF Writes, Terminal
  <2> QED
    BY <2>1, <2>2
<1>11. ClientInv'
  <2>1. \A j \in Migrations, a \in Attempts : <<j, a>> \in requests' => Awaits(j, a)'
    BY <1>4, <1>5 DEF CourseInv, ClientInv, RequestOrder, ResponseOrder, ServeOrder
  <2>2. \A j \in Migrations, a \in 0 .. MaxAttempts :
           /\ \A b \in BOOLEAN : <<j, a, b>> \in responses' => Awaits(j, a)' /\ j \notin Asked'
           /\ <<j, a, TRUE>> \notin responses' \/ <<j, a, FALSE>> \notin responses'
    BY <1>4, <1>6 DEF CourseInv, ClientInv, RequestOrder, ResponseOrder, ServeOrder
  <2>3. Answered' = Answered /\ m \notin Answered
    <3>1. m \in Asked
      BY DEF Asked
    <3> QED
      BY <3>1 DEF Answered, CourseInv, ClientInv, ResponseOrder
  <2>4. ASSUME NEW i \in Nodes, call'[i].kind = "destination"
        PROVE  /\ call'[i].mig \notin Asked' \cup Answered'
               /\ \A a \in 0 .. MaxAttempts : Awaits(call[i].mig, a)' /\ i # n => a = call'[i].attempt
               /\ \A a \in 0 .. MaxAttempts : Awaits(m, a)' /\ i = n => a = call'[i].attempt
    <3>1. CASE i = n
      BY <1>4, <1>5, <1>6, <2>3, <3>1
    <3>2. CASE i # n
      <4>1. call'[i] = call[i] /\ call[i].mig \in Migrations
        BY <1>2, <2>4, <3>2, DestinationCalls
      <4> QED
        BY <1>4, <1>5, <1>6, <2>4, <2>3, <3>2, <4>1 DEF CourseInv, ClientInv, ServeOrder
    <3> QED
      BY <3>1, <3>2
  <2>5. ServeOrder'
    <3> SUFFICES ASSUME NEW i \in Nodes, call'[i].kind = "destination"
                 PROVE  (/\ call[i].mig \notin Asked \cup Answered
                         /\ \A a \in 0 .. MaxAttempts : Awaits(call[i].mig, a) => a = call[i].attempt)'
      BY DEF ServeOrder
    <3>1. CASE i = n
      BY <2>4, <3>1 DEF Awaits, At
    <3>2. CASE i # n
      BY <1>2, <2>4, <3>2 DEF Awaits, At
    <3> QED
      BY <3>1, <3>2
  <2>6. RequestOrder' /\ ResponseOrder'
    BY <2>1, <2>2 DEF RequestOrder, ResponseOrder
  <2> QED
    BY <2>5, <2>6 DEF ClientInv
<1> QED
  BY <1>7, <1>8, <1>9, <1>10, <1>11 DEF CourseInv

(* A migration that begins. *)
LEMMA CourseStart ==
    ASSUME TypeOK, WriteAheadInv, CourseInv, NEW n \in Nodes, NEW m \in Migrations,
           Free(n), listed[n] = NothingListed, plan[m] = NoPlan,
           plan'[m] # NoPlan, plan'[m].src = n,
           \A i \in Migrations : i # m => plan'[i] = plan[i],
           Writes(n, m, "preparing"),
           Elsewhere(n), call'[n].kind = "source", call'[n].at = "prefetch", call'[n].mig = m,
           UNCHANGED <<listed, requests, responses>>
    PROVE  CourseInv'
<1>1. \A i \in Migrations : plan[i].src \in Nodes /\ plan[i].dst \in Nodes
  BY DEF TypeOK, Plan
<1>2. \A i \in Nodes : i # n => call'[i] = call[i]
  BY DEF Elsewhere
<1>3. \A i \in Nodes : call[i].at # "idle" => call[i].mig \in Migrations /\ call[i].mig # m
  BY DEF TypeOK, WriteAheadInv, CallInv, PlanInv
<1>4. \A i \in Nodes : journal[i][m] = "none"
  BY DEF WriteAheadInv, PlanInv
<1>5. Asked' = Asked /\ Answered' = Answered /\ m \notin Asked
  BY <1>1, <1>4 DEF Asked, Answered, WriteAheadInv, RequestInv, Late
<1>6. \A j \in Migrations \ {m}, a \in 0 .. MaxAttempts : Awaits(j, a)' <=> Awaits(j, a)
  <2> SUFFICES ASSUME NEW j \in Migrations \ {m}
               PROVE  \A a \in 0 .. MaxAttempts : Awaits(j, a)' <=> Awaits(j, a)
    OBVIOUS
  <2>1. plan'[j] = plan[j]
    OBVIOUS
  <2>2. CASE plan[j].src = n
    BY <2>1, <2>2 DEF Awaits, At, Free
  <2>3. CASE plan[j].src # n
    <3>1. call'[plan[j].src] = call[plan[j].src]
      BY <1>1, <1>2, <2>3
    <3> QED
      BY <2>1, <3>1 DEF Awaits, At
  <2> QED
    BY <2>2, <2>3
<1>7. \A a : ~Awaits(m, a)
  BY <1>1, <1>3 DEF Awaits, At
<1>8. Attempts \subseteq 0 .. MaxAttempts
  BY AttemptNumbers
<1>9. RoleInv'
  <2> SUFFICES ASSUME NEW i \in Nodes
               PROVE  Role(call[i].kind, call[i].at, i, call[i].mig)'
    BY DEF RoleInv
  <2>1. CASE i # n
    <3>1. call'[i] = call[i] /\ (call[i].at = "idle" \/ plan'[call[i].mig] = plan[call[i].mig])
      BY <1>2, <1>3, <2>1
    <3>2. Role(call[i].kind, call[i].at, i, call[i].mig)
      BY DEF CourseInv, RoleInv
    <3>3. CASE call[i].at = "idle"
      BY <3>1, <3>2, <3>3
      DEF Role, SourcePlace, ResolvePlace, RevertPlace, DestinationPlace
    <3> QED
      BY <3>1, <3>2, <3>3 DEF Role
  <2>2. CASE i = n
    BY <2>2 DEF Role, SourcePlace
  <2> QED
    BY <2>1, <2>2
<1>10. PartyInv'
  BY <1>4 DEF CourseInv, PartyInv, Writes
<1>11. ListedInv'
  <2> SUFFICES ASSUME NEW i \in Nodes
               PROVE  /\ \A j \in Migrations : listed[i][j] # "none" =>
                            listed[i][j] = journal'[i][j] /\ journal'[i][j] \notin Terminal
                      /\ listed[i] # NothingListed /\ call'[i].at # "idle" =>
                            call'[i].kind = "reconcile" /\ listed[i][call'[i].mig] = "none"
    BY DEF ListedInv, Free
  <2>1. CASE i # n
    BY <1>2, <2>1 DEF CourseInv, ListedInv, Free, Writes
  <2>2. CASE i = n
    BY <2>2 DEF NothingListed
  <2> QED
    BY <2>1, <2>2
<1>12. OpenCallInv'
  <2> SUFFICES ASSUME NEW i \in Nodes, call'[i].at \notin {"idle", "cancel", "refuse"}
               PROVE  journal'[i][call'[i].mig] \notin Terminal \cup {"none"}
    BY DEF OpenCallInv
  <2>1. CASE i # n
    BY <1>2, <1>3, <2>1 DEF CourseInv, OpenCallInv, Writes
  <2>2. CASE i = n
    BY <2>2 DEF Writes, Terminal
  <2> QED
    BY <2>1, <2>2
<1>13. ClientInv'
  <2>1. \A j \in Migrations, a \in Attempts : <<j, a>> \in requests' => Awaits(j, a)'
    BY <1>6, <1>7, <1>8 DEF CourseInv, ClientInv, RequestOrder, ResponseOrder, ServeOrder
  <2>2. \A j \in Migrations, a \in 0 .. MaxAttempts :
           /\ \A b \in BOOLEAN : <<j, a, b>> \in responses' => Awaits(j, a)' /\ j \notin Asked'
           /\ <<j, a, TRUE>> \notin responses' \/ <<j, a, FALSE>> \notin responses'
    BY <1>5, <1>6, <1>7 DEF CourseInv, ClientInv, RequestOrder, ResponseOrder, ServeOrder
  <2>3. \A i \in Nodes : call'[i].kind = "destination" =>
           i # n /\ call'[i] = call[i] /\ call[i].mig \in Migrations \ {m}
    <3>1. \A i \in Nodes : call[i].kind = "destination" => call[i].at # "idle"
      BY DestinationCalls DEF DestinationPlace
    <3> QED
      BY <1>2, <1>3, <3>1
  <2>4. \A i \in Nodes : call'[i].kind = "destination" =>
           /\ call[i].mig \notin Asked \cup Answered
           /\ \A a \in 0 .. MaxAttempts : Awaits(call[i].mig, a) => a = call[i].attempt
    BY <2>3 DEF CourseInv, ClientInv, ServeOrder
  <2>5. RequestOrder' /\ ResponseOrder'
    BY <2>1, <2>2 DEF RequestOrder, ResponseOrder
  <2>6. ServeOrder'
    BY <1>5, <1>6, <1>8, <2>3, <2>4 DEF ServeOrder
  <2> QED
    BY <2>5, <2>6 DEF ClientInv
<1> QED
  BY <1>9, <1>10, <1>11, <1>12, <1>13 DEF CourseInv

(* The client: the first request, the next attempt, and the end of the wait. *)
LEMMA CourseClient ==
    ASSUME TypeOK, WriteAheadInv, CourseInv, NEW n \in Nodes,
           At(n, "source", "await") \/ At(n, "source", "request"),
           NEW m, m = call[n].mig,
           Elsewhere(n), call'[n].kind = "source", call'[n].mig = m,
           call'[n].at \in {"await", "query", "remote", "restore"},
           UNCHANGED journal \/ \E w \in {"activating", "uncertain"} : Writes(n, m, w),
           \A j \in Migrations, a \in Attempts : <<j, a>> \in requests' =>
              \/ <<j, a>> \in requests /\ j # m
              \/ j = m /\ call'[n].at = "await" /\ a = call'[n].attempt,
           \A j \in Migrations, a \in 0 .. MaxAttempts, ok \in BOOLEAN :
              <<j, a, ok>> \in responses' => <<j, a, ok>> \in responses /\ j # m,
           \A i \in Nodes :
              call[i].kind = "destination" /\ call[i].mig = m => call'[n].at # "await",
           \A i \in Nodes : call[i].kind = "destination" /\ call[i].mig = m => m \notin Asked',
           UNCHANGED <<plan, listed>>
    PROVE  CourseInv'
<1>1. /\ \A i \in Migrations : plan[i].src \in Nodes /\ plan[i].dst \in Nodes
      /\ m \in Migrations
      /\ \A i \in Nodes : call[i].at # "idle" => call[i].mig \in Migrations
  BY DEF TypeOK, Plan, At
<1>2. \A i \in Nodes : i # n => call'[i] = call[i]
  BY DEF Elsewhere
<1>3. n = plan[m].src /\ call[n].kind = "source" /\ call[n].at \in {"await", "request"}
  BY DEF CourseInv, RoleInv, Role, At
<1>4. \A j \in Migrations \ {m}, a \in 0 .. MaxAttempts : Awaits(j, a)' <=> Awaits(j, a)
  <2> SUFFICES ASSUME NEW j \in Migrations \ {m}
               PROVE  \A a \in 0 .. MaxAttempts : Awaits(j, a)' <=> Awaits(j, a)
    OBVIOUS
  <2>1. CASE plan[j].src = n
    BY <2>1 DEF Awaits, At
  <2>2. CASE plan[j].src # n
    <3>1. call'[plan[j].src] = call[plan[j].src]
      BY <1>1, <1>2, <2>2
    <3> QED
      BY <3>1 DEF Awaits, At
  <2> QED
    BY <2>1, <2>2
<1>5. \A a : Awaits(m, a)' <=> call'[n].at = "await" /\ call'[n].attempt = a
  BY <1>3 DEF Awaits, At
<1>6. /\ \A j \in Migrations \ {m} : j \in Asked' => j \in Asked
      /\ \A j \in Migrations : j \in Answered' => j \in Answered /\ j # m
  BY DEF Asked, Answered
<1>7. \A i \in Nodes, j \in Migrations :
         \/ journal'[i][j] = journal[i][j]
         \/ i = n /\ j = m /\ journal'[i][j] \in {"activating", "uncertain"}
  BY DEF Writes
<1>8. Attempts \subseteq 0 .. MaxAttempts
  BY AttemptNumbers
<1>9. RoleInv'
  <2> SUFFICES ASSUME NEW i \in Nodes
               PROVE  Role(call[i].kind, call[i].at, i, call[i].mig)'
    BY DEF RoleInv
  <2>1. CASE i # n
    BY <1>2, <2>1 DEF CourseInv, RoleInv, Role
  <2>2. CASE i = n
    <3>1. /\ call'[i].kind = "source"
          /\ call'[i].at \in SourcePlace
          /\ i = plan'[call'[i].mig].src
      BY <1>3, <2>2 DEF SourcePlace
    <3> QED
      BY <3>1 DEF Role
  <2> QED
    BY <2>1, <2>2
<1>10. PartyInv'
  <2> SUFFICES ASSUME NEW i \in Nodes, NEW j \in Migrations, journal'[i][j] # "none"
               PROVE  \/ i = plan[j].src
                      \/ i = plan[j].dst /\ journal'[i][j] \in {"activating"} \cup Terminal
    BY DEF PartyInv
  <2>1. CASE i = n /\ j = m
    BY <1>3, <2>1
  <2>2. CASE ~(i = n /\ j = m)
    BY <1>7, <2>2 DEF CourseInv, PartyInv
  <2> QED
    BY <2>1, <2>2
<1>11. ListedInv'
  <2> SUFFICES ASSUME NEW i \in Nodes
               PROVE  /\ \A j \in Migrations : listed[i][j] # "none" =>
                            listed[i][j] = journal'[i][j] /\ journal'[i][j] \notin Terminal
                      /\ listed[i] # NothingListed /\ call'[i].at # "idle" =>
                            call'[i].kind = "reconcile" /\ listed[i][call'[i].mig] = "none"
    BY DEF ListedInv, Free
  <2>1. CASE i # n
    BY <1>2, <1>7, <2>1 DEF CourseInv, ListedInv, Free
  <2>2. CASE i = n
    <3>1. listed[n] = NothingListed
      BY <1>3 DEF CourseInv, ListedInv, Free
    <3> QED
      BY <2>2, <3>1 DEF NothingListed
  <2> QED
    BY <2>1, <2>2
<1>12. OpenCallInv'
  <2> SUFFICES ASSUME NEW i \in Nodes, call'[i].at \notin {"idle", "cancel", "refuse"}
               PROVE  journal'[i][call'[i].mig] \notin Terminal \cup {"none"}
    BY DEF OpenCallInv
  <2>1. CASE i # n
    BY <1>1, <1>2, <1>7, <2>1 DEF CourseInv, OpenCallInv
  <2>2. CASE i = n
    <3>1. journal[n][m] \notin Terminal \cup {"none"}
      BY <1>3 DEF CourseInv, OpenCallInv
    <3> QED
      BY <1>1, <1>7, <2>2, <3>1 DEF Terminal
  <2> QED
    BY <2>1, <2>2
<1>13. ClientInv'
  <2>1. ASSUME NEW j \in Migrations, NEW a \in Attempts, <<j, a>> \in requests'
        PROVE  Awaits(j, a)'
    <3>1. CASE j = m
      BY <1>5, <2>1, <3>1
    <3>2. CASE j # m
      BY <1>4, <1>8, <2>1, <3>2 DEF CourseInv, ClientInv, RequestOrder, ResponseOrder, ServeOrder
    <3> QED
      BY <3>1, <3>2
  <2>2. \A j \in Migrations, a \in 0 .. MaxAttempts :
           /\ \A b \in BOOLEAN : <<j, a, b>> \in responses' => Awaits(j, a)' /\ j \notin Asked'
           /\ <<j, a, TRUE>> \notin responses' \/ <<j, a, FALSE>> \notin responses'
    BY <1>4, <1>6 DEF CourseInv, ClientInv, RequestOrder, ResponseOrder, ServeOrder
  <2>3. ASSUME NEW i \in Nodes, call'[i].kind = "destination"
        PROVE  /\ i # n /\ call'[i] = call[i] /\ call[i].mig \in Migrations
               /\ call[i].mig \notin Asked' \cup Answered'
               /\ \A a \in 0 .. MaxAttempts : Awaits(call[i].mig, a)' => a = call[i].attempt
    <3>1. i # n /\ call'[i] = call[i] /\ call[i].mig \in Migrations
      BY <1>2, <2>3, DestinationCalls
    <3>2. CASE call[i].mig = m
      BY <1>5, <1>6, <2>3, <3>1, <3>2
    <3>3. CASE call[i].mig # m
      BY <1>4, <1>6, <1>8, <2>3, <3>1, <3>3 DEF CourseInv, ClientInv, ServeOrder
    <3> QED
      BY <3>1, <3>2, <3>3
  <2> QED
    BY <2>1, <2>2, <2>3 DEF ClientInv, RequestOrder, ResponseOrder, ServeOrder
<1> QED
  BY <1>9, <1>10, <1>11, <1>12, <1>13 DEF CourseInv

(* The listing of the records. *)
LEMMA CourseListing ==
    ASSUME Orderly, TypeOK, WriteAheadInv, CourseInv, NEW n \in Nodes, ListRecords(n)
    PROVE  CourseInv'
<1>1. /\ Free(n)
      /\ UNCHANGED <<journal, plan, call, requests, responses>>
  BY DEF ListRecords, Orderly, records, network
<1>2. \A i \in Nodes : /\ i # n => listed'[i] = listed[i]
                       /\ \A j \in Migrations : i = n =>
                             listed'[i][j] = IF journal[n][j] \in Terminal THEN "none"
                                                                           ELSE journal[n][j]
  BY DEF ListRecords, TypeOK
<1>3. ListedInv'
  BY <1>1, <1>2 DEF CourseInv, ListedInv, Free
<1>4. RoleInv' /\ PartyInv' /\ OpenCallInv'
  BY <1>1 DEF CourseInv, RoleInv, Role, PartyInv, OpenCallInv
<1>5. ClientInv'
  BY <1>1, ClientQuiet DEF CourseInv
<1> QED
  BY <1>3, <1>4, <1>5 DEF CourseInv

(* A daemon that dies. *)
LEMMA CourseForget ==
    ASSUME Orderly, TypeOK, WriteAheadInv, CourseInv, NEW n \in Nodes, Forget(n),
           UNCHANGED <<journal, plan>>
    PROVE  CourseInv'
<1>1. \A i \in Migrations : plan[i].src \in Nodes /\ plan[i].dst \in Nodes
  BY DEF TypeOK, Plan
<1>2. Idles(n)
  BY ReleaseIdles DEF Forget
<1>3. /\ \A i \in Nodes : i # n => call'[i] = call[i]
      /\ call'[n].at = "idle" /\ call'[n].kind = "none"
  BY <1>2 DEF Idles, Elsewhere
<1>4. \A i \in Nodes : /\ i # n => listed'[i] = listed[i]
                       /\ i = n => listed'[i] = NothingListed
  BY DEF Forget, TypeOK
<1>5. \A j \in Migrations, a \in Attempts :
         <<j, a>> \in requests' => <<j, a>> \in requests /\ plan[j].src # n
  <2> SUFFICES ASSUME NEW j \in Migrations, NEW a \in Attempts, <<j, a>> \in requests'
               PROVE  <<j, a>> \in requests /\ plan[j].src # n
    OBVIOUS
  <2>1. <<j, a>>[1] = j
    OBVIOUS
  <2> QED
    BY <2>1 DEF Forget, Orderly
<1>6. \A j \in Migrations, a \in 0 .. MaxAttempts, b \in BOOLEAN :
         <<j, a, b>> \in responses' => <<j, a, b>> \in responses /\ plan[j].src # n
  <2> SUFFICES ASSUME NEW j \in Migrations, NEW a \in 0 .. MaxAttempts, NEW b \in BOOLEAN,
                      <<j, a, b>> \in responses'
               PROVE  <<j, a, b>> \in responses /\ plan[j].src # n
    OBVIOUS
  <2>1. <<j, a, b>>[1] = j
    OBVIOUS
  <2> QED
    BY <2>1 DEF Forget
<1>7. Asked' \subseteq Asked /\ Answered' \subseteq Answered
  BY <1>5, <1>6 DEF Asked, Answered
<1>8. \A j \in Migrations : /\ plan[j].src # n => \A a : Awaits(j, a)' <=> Awaits(j, a)
                            /\ plan[j].src = n => \A a : ~Awaits(j, a)'
  BY <1>1, <1>3 DEF Awaits, At
<1>9. Attempts \subseteq 0 .. MaxAttempts
  BY AttemptNumbers
<1>10. RoleInv'
  BY <1>3 DEF CourseInv, RoleInv, Role
<1>11. PartyInv'
  BY DEF CourseInv, PartyInv
<1>12. ListedInv'
  BY <1>3, <1>4 DEF CourseInv, ListedInv, Free, NothingListed
<1>13. OpenCallInv'
  BY <1>3 DEF CourseInv, OpenCallInv
<1>14. ClientInv'
  <2>1. \A j \in Migrations, a \in Attempts : <<j, a>> \in requests' => Awaits(j, a)'
    BY <1>5, <1>8, <1>9 DEF CourseInv, ClientInv, RequestOrder, ResponseOrder, ServeOrder
  <2>2. \A j \in Migrations, a \in 0 .. MaxAttempts :
           /\ \A b \in BOOLEAN : <<j, a, b>> \in responses' => Awaits(j, a)' /\ j \notin Asked'
           /\ <<j, a, TRUE>> \notin responses' \/ <<j, a, FALSE>> \notin responses'
    BY <1>6, <1>7, <1>8 DEF CourseInv, ClientInv, RequestOrder, ResponseOrder, ServeOrder
  <2>3. \A i \in Nodes : call'[i].kind = "destination" =>
           call'[i] = call[i] /\ call[i].mig \in Migrations
    BY <1>3, DestinationCalls
  <2>4. \A i \in Nodes : call'[i].kind = "destination" =>
           /\ call[i].mig \notin Asked \cup Answered
           /\ \A a \in 0 .. MaxAttempts : Awaits(call[i].mig, a) => a = call[i].attempt
    BY <2>3 DEF CourseInv, ClientInv, RequestOrder, ResponseOrder, ServeOrder
  <2>5. \A i \in Nodes : call'[i].kind = "destination" =>
           \A a \in 0 .. MaxAttempts : Awaits(call[i].mig, a)' => Awaits(call[i].mig, a)
    BY <1>8, <2>3
  <2> QED
    BY <1>7, <2>1, <2>2, <2>3, <2>4, <2>5 DEF ClientInv, RequestOrder, ResponseOrder, ServeOrder
<1> QED
  BY <1>10, <1>11, <1>12, <1>13, <1>14 DEF CourseInv

(* What is known of a call at its place. *)
LEMMA RoleAt ==
    ASSUME CourseInv, NEW n \in Nodes
    PROVE  Role(call[n].kind, call[n].at, n, call[n].mig)
  BY DEF CourseInv, RoleInv

(* The usual case of CourseMove. *)
LEMMA CourseGo ==
    ASSUME TypeOK, WriteAheadInv, CourseInv, NEW n \in Nodes, NEW p,
           call[n].at \notin {"idle", "await", "cancel", "refuse"},
           p \notin {"idle", "await"}, Go(n, p), Role(call[n].kind, p, n, call[n].mig),
           UNCHANGED <<journal, plan, listed, requests, responses>>
    PROVE  CourseInv'
  BY GoMoves, CourseMove DEF Answers

LEMMA SourceCourse ==
    ASSUME Orderly, TypeOK, WriteAheadInv, CourseInv, NEW n \in Nodes, SourceNext(n)
    PROVE  CourseInv'
<1>1. CASE PrefetchDone(n)
  BY <1>1, RoleAt, CourseGo
  DEF PrefetchDone, At, Role, SourcePlace, ResolvePlace, DestinationPlace, RevertPlace, records, network
<1>2. CASE TransferDone(n)
  BY <1>2, RoleAt, CourseGo
  DEF TransferDone, At, Role, SourcePlace, ResolvePlace, DestinationPlace, RevertPlace, records, network
<1>3. CASE TransferFailed(n)
  BY <1>3, RoleAt, CourseGo
  DEF TransferFailed, At, Role, SourcePlace, ResolvePlace, DestinationPlace, RevertPlace, records, network
<1>4. CASE PollAgain(n)
  BY <1>4, RoleAt, CourseGo
  DEF PollAgain, At, Role, SourcePlace, ResolvePlace, DestinationPlace, RevertPlace, records, network
<1>5. CASE ResolveActivated(n)
  BY <1>5, RoleAt, CourseGo
  DEF ResolveActivated, At, Role, SourcePlace, ResolvePlace, DestinationPlace, RevertPlace, records, network
<1>6. CASE ResolveNotCommitted(n)
  BY <1>6, RoleAt, CourseGo
  DEF ResolveNotCommitted, At, Role, SourcePlace, ResolvePlace, DestinationPlace, RevertPlace, records, network
<1>7. CASE GiveAway(n)
  BY <1>7, RoleAt, CourseGo
  DEF GiveAway, At, Role, SourcePlace, ResolvePlace, DestinationPlace, RevertPlace, records, network
<1>8. CASE UndoSource(n)
  BY <1>8, RoleAt, CourseGo
  DEF UndoSource, At, Role, SourcePlace, ResolvePlace, DestinationPlace, RevertPlace, records, network
<1>9. CASE MarkSource(n)
  <2>1. Go(n, "journalTransfer") \/ Go(n, "restore")
    BY <1>9 DEF MarkSource
  <2> QED
    BY <1>9, <2>1, RoleAt, CourseGo DEF MarkSource, At, Role, SourcePlace, ResolvePlace, DestinationPlace, RevertPlace, records, network
<1>10. CASE RestoreSource(n)
  <2>1. Go(n, "spawn") \/ Go(n, "journalUndo")
    BY <1>10 DEF RestoreSource
  <2> QED
    BY <1>10, <2>1, RoleAt, CourseGo DEF RestoreSource, At, Role, SourcePlace, ResolvePlace, DestinationPlace, RevertPlace, records, network
<1>11. CASE PrefetchFailed(n)
  <2>1. Moves(n, "cancel") /\ Writes(n, call[n].mig, "rolled_back")
    BY <1>11, GoMoves, RecordWrites, CallPlaces DEF PrefetchFailed, At
  <2> QED
    BY <1>11, <2>1, RoleAt, CourseMove
    DEF PrefetchFailed, At, Role, SourcePlace, ResolvePlace, DestinationPlace, RevertPlace, JournalStatus, Terminal, Answers, network
<1>12. CASE JournalTransfer(n)
  <2>1. Moves(n, "kill") /\ Writes(n, call[n].mig, "transferring")
    BY <1>12, GoMoves, RecordWrites, CallPlaces DEF JournalTransfer, At
  <2> QED
    BY <1>12, <2>1, RoleAt, CourseMove
    DEF JournalTransfer, At, Role, SourcePlace, ResolvePlace, DestinationPlace, RevertPlace, JournalStatus, Terminal, Answers, network
<1>13. CASE CommitSource(n)
  <2>1. Idles(n) /\ Writes(n, call[n].mig, "activated")
    BY <1>13, ReleaseIdles, RecordWrites, CallPlaces DEF CommitSource
  <2> QED
    BY <1>13, <2>1, CourseMove DEF CommitSource, JournalStatus, Terminal, Answers, network
<1>14. CASE JournalUndo(n)
  <2>1. Writes(n, call[n].mig, "rolled_back")
    BY <1>14, RecordWrites, CallPlaces DEF JournalUndo
  <2>2. \/ Idles(n)
        \/ Moves(n, "cancel") /\ call[n].kind = "source"
    BY <1>14, ReleaseIdles, GoMoves DEF JournalUndo
  <2>3. CASE Idles(n)
    BY <1>14, <2>1, <2>3, CourseMove DEF JournalUndo, JournalStatus, Terminal, Answers, network
  <2>4. CASE Moves(n, "cancel") /\ call[n].kind = "source"
    BY <1>14, <2>1, <2>4, RoleAt, CourseMove
    DEF JournalUndo, Role, SourcePlace, ResolvePlace, DestinationPlace, RevertPlace, JournalStatus, Terminal, Answers, network
  <2> QED
    BY <2>2, <2>3, <2>4
<1>15. CASE CancelReservation(n)
  BY <1>15, ReleaseIdles, CourseMove DEF CancelReservation, At, Answers, records, network
<1>16. CASE QueryAnswered(n)
  <2>1. /\ call[n].mig \in Migrations
        /\ \A m \in Migrations : journal[plan[m].dst][m] \in JournalStatus
    BY <1>16 DEF QueryAnswered, TypeOK, Plan
  <2>2. Moves(n, "decide")
    BY <1>16, <2>1, EditMoves DEF QueryAnswered
  <2> QED
    BY <1>16, <2>2, RoleAt, CourseMove
    DEF QueryAnswered, Role, SourcePlace, ResolvePlace, DestinationPlace, RevertPlace, Answers, records, network
<1>17. CASE QueryFails(n)
  <2>1. "none" \in JournalStatus
    BY DEF JournalStatus
  <2>2. Moves(n, "decide")
    BY <1>17, <2>1, EditMoves DEF QueryFails
  <2> QED
    BY <1>17, <2>2, RoleAt, CourseMove
    DEF QueryFails, Role, SourcePlace, ResolvePlace, DestinationPlace, RevertPlace, Answers, records, network
<1>18. CASE ResolveUnknown(n)
  <2>1. CASE call[n].kind = "source"
    <3>1. Moves(n, "cancel")
      BY <1>18, <2>1, GoMoves DEF ResolveUnknown
    <3> QED
      BY <1>18, <2>1, <3>1, RoleAt, CourseMove
      DEF ResolveUnknown, Role, SourcePlace, ResolvePlace, DestinationPlace, RevertPlace, Answers, network
  <2>2. CASE call[n].kind # "source"
    <3>1. Idles(n) /\ Writes(n, call[n].mig, "uncertain")
      BY <1>18, <2>2, ReleaseIdles, RecordWrites, CallPlaces DEF ResolveUnknown
    <3>2. n = plan[call[n].mig].src
      BY <1>18, <2>2, RoleAt DEF ResolveUnknown, Role, SourcePlace, ResolvePlace, DestinationPlace, RevertPlace
    <3> QED
      BY <1>18, <3>1, <3>2, CourseMove DEF ResolveUnknown, JournalStatus, Terminal, Answers, network
  <2> QED
    BY <2>1, <2>2
<1>19. CASE RequestActivation(n)
  <2> DEFINE m == call[n].mig
             d == [call[n] EXCEPT !.at = "await", !.attempt = 1]
  <2>1. At(n, "source", "request") /\ m \in Migrations /\ call[n] \in Call /\ n = plan[m].src
    BY <1>19, CallRecord DEF RequestActivation, At
  <2>2. d.at = "await" /\ d.attempt = 1 /\ d.mig = m /\ d.kind = "source"
    BY <2>1 DEF Call, At
  <2>3. call' = [call EXCEPT ![n] = d]
    BY <1>19 DEF RequestActivation
  <2> HIDE DEF d
  <2>4. /\ Elsewhere(n) /\ call'[n].at = "await" /\ call'[n].attempt = 1
        /\ call'[n].mig = m /\ call'[n].kind = "source"
    BY <2>2, <2>3 DEF Elsewhere, TypeOK
  <2>5. m \notin Asked /\ journal[plan[m].dst][m] = "none"
    BY <2>1 DEF WriteAheadInv, EarlyInv, Early, At
  <2>6. \A i \in Nodes : ~(call[i].kind = "destination" /\ call[i].mig = m)
    BY <2>5, DestinationCalls DEF DestinationPlace, WriteAheadInv, CallInv
  <2>7. Writes(n, m, "activating")
    BY <1>19, <2>1, RecordWrites DEF RequestActivation
  <2>8. \A j \in Migrations, a \in Attempts : <<j, a>> \in requests' =>
            \/ <<j, a>> \in requests /\ j # m
            \/ j = m /\ call'[n].at = "await" /\ a = call'[n].attempt
    BY <1>19, <2>4, <2>5 DEF RequestActivation, Asked
  <2>9. \A j \in Migrations, a \in 0 .. MaxAttempts, ok \in BOOLEAN :
            <<j, a, ok>> \in responses' => <<j, a, ok>> \in responses /\ j # m
    <3>1. \A a : ~Awaits(m, a)
      BY <2>1 DEF Awaits, At
    <3> QED
      BY <1>19, <3>1 DEF RequestActivation, CourseInv, ClientInv, ResponseOrder
  <2>10. UNCHANGED <<plan, listed>>
    BY <1>19 DEF RequestActivation
  <2> HIDE DEF m
  <2> QED
    BY <2>1, <2>4, <2>6, <2>7, <2>8, <2>9, <2>10, CourseClient DEF m
<1>20. CASE ReceiveResponse(n)
  <2> DEFINE m == call[n].mig
             k == call[n].attempt
  <2>1. At(n, "source", "await") /\ m \in Migrations /\ n = plan[m].src /\ k \in 0 .. MaxAttempts
    BY <1>20, CallRecord DEF ReceiveResponse, At, Call
  <2>2. PICK ok \in BOOLEAN : /\ <<m, k, ok>> \in responses
                              /\ responses' = responses \ {<<m, k, ok>>}
                              /\ Go(n, IF ok THEN "remote" ELSE "restore")
    BY <1>20 DEF ReceiveResponse
  <2>3. UNCHANGED <<journal, plan, listed, requests>>
    BY <1>20 DEF ReceiveResponse, records
  <2>4. m \notin Asked
    BY <2>1, <2>2 DEF CourseInv, ClientInv, ResponseOrder
  <2>5. \E p \in {"remote", "restore"} : Moves(n, p) /\ call'[n].at = p
    BY <2>2, GoMoves DEF Moves
  <2>6. /\ Elsewhere(n) /\ call'[n].at \in {"remote", "restore"}
        /\ call'[n].mig = m /\ call'[n].kind = "source"
    BY <2>1, <2>5 DEF Moves, At
  <2>7. \A j \in Migrations, a \in Attempts : <<j, a>> \in requests' => <<j, a>> \in requests /\ j # m
    BY <2>3, <2>4 DEF Asked
  <2>8. \A a \in 0 .. MaxAttempts, b \in BOOLEAN :
           <<m, a, b>> \in responses => a = k /\ b = ok
    BY <2>1, <2>2 DEF CourseInv, ClientInv, ResponseOrder, Awaits
  <2>9. \A j \in Migrations, a \in 0 .. MaxAttempts, b \in BOOLEAN :
            <<j, a, b>> \in responses' => <<j, a, b>> \in responses /\ j # m
    BY <2>2, <2>8
  <2>10. m \notin Asked'
    BY <2>3, <2>4 DEF Asked
  <2>11. At(n, "source", "await") \/ At(n, "source", "request")
    BY <2>1
  <2>12. call'[n].at \in {"await", "query", "remote", "restore"} /\ call'[n].at # "await"
    BY <2>6
  <2> HIDE DEF m, k
  <2> QED
    BY <2>3, <2>6, <2>7, <2>9, <2>10, <2>11, <2>12, CourseClient DEF m
<1>21. CASE AttemptFails(n)
  <2> DEFINE m == call[n].mig
             k == call[n].attempt
             d == [call[n] EXCEPT !.attempt = k + 1]
  <2>1. /\ At(n, "source", "await") /\ m \in Migrations /\ n = plan[m].src
        /\ k \in 0 .. MaxAttempts /\ call[n] \in Call
    BY <1>21, CallRecord DEF AttemptFails, At, Call
  <2>2. Awaits(m, k) /\ \A a : Awaits(m, a) => a = k
    BY <2>1 DEF Awaits
  <2>3. ~Serving(m, k)
    BY <1>21 DEF AttemptFails, Orderly
  <2>4. \A i \in Nodes : ~(call[i].kind = "destination" /\ call[i].mig = m)
    <3> SUFFICES ASSUME NEW i \in Nodes, call[i].kind = "destination", call[i].mig = m
                 PROVE  FALSE
      OBVIOUS
    <3>1. i = plan[m].dst
      BY DestinationCalls
    <3>2. call[i].attempt = k
      BY <2>1, <2>2 DEF CourseInv, ClientInv, ServeOrder
    <3> QED
      BY <2>3, <3>1, <3>2 DEF Serving, At
  <2>5. /\ UNCHANGED <<plan, listed>>
        /\ responses' = responses \ {<<m, k, ok>> : ok \in BOOLEAN}
        /\ \/ requests' = (requests \ {<<m, k>>}) \cup {<<m, k + 1>>}
              /\ call' = [call EXCEPT ![n] = d] /\ UNCHANGED journal
           \/ requests' = requests \ {<<m, k>>}
              /\ Record(n, m, "uncertain") /\ Go(n, "query")
    <3>1. \A r : r # {} => "lateRequest" \notin Faults
      BY DEF Orderly
    <3> QED
      BY <1>21, <3>1 DEF AttemptFails
  <2>6. /\ d.at = "await" /\ d.kind = "source" /\ d.mig = m /\ d.attempt = k + 1
    BY <2>1 DEF Call, At
  <2> HIDE DEF d
  <2>7. /\ Elsewhere(n) /\ call'[n].mig = m /\ call'[n].kind = "source"
        /\ \/ call'[n].at = "await" /\ call'[n].attempt = k + 1 /\ UNCHANGED journal
              /\ requests' = (requests \ {<<m, k>>}) \cup {<<m, k + 1>>}
           \/ call'[n].at = "query" /\ Writes(n, m, "uncertain")
              /\ requests' = requests \ {<<m, k>>}
    <3>1. CASE call' = [call EXCEPT ![n] = d] /\ UNCHANGED journal
             /\ requests' = (requests \ {<<m, k>>}) \cup {<<m, k + 1>>}
      BY <2>1, <2>5, <2>6, <3>1 DEF Elsewhere, TypeOK
    <3>2. CASE Record(n, m, "uncertain") /\ Go(n, "query") /\ requests' = requests \ {<<m, k>>}
      BY <2>1, <3>2, GoMoves, RecordWrites DEF Moves, At
    <3> QED
      BY <2>5, <3>1, <3>2
  <2>8. \A j \in Migrations, a \in Attempts : <<j, a>> \in requests' =>
            \/ <<j, a>> \in requests /\ j # m
            \/ j = m /\ call'[n].at = "await" /\ a = call'[n].attempt
    <3>1. \A a \in Attempts : <<m, a>> \in requests => a = k
      BY <2>1, <2>2 DEF CourseInv, ClientInv, RequestOrder
    <3> QED
      BY <2>7, <3>1
  <2>9. \A j \in Migrations, a \in 0 .. MaxAttempts, ok \in BOOLEAN :
            <<j, a, ok>> \in responses' => <<j, a, ok>> \in responses /\ j # m
    <3>1. \A a \in 0 .. MaxAttempts, ok \in BOOLEAN : <<m, a, ok>> \in responses => a = k
      BY <2>1, <2>2 DEF CourseInv, ClientInv, ResponseOrder
    <3> QED
      BY <2>5, <3>1
  <2>10. At(n, "source", "await") \/ At(n, "source", "request")
    BY <2>1
  <2> HIDE DEF m, k
  <2> QED
    BY <2>4, <2>5, <2>7, <2>8, <2>9, <2>10, CourseClient DEF m
<1> QED
  BY <1>1, <1>2, <1>3, <1>4, <1>5, <1>6, <1>7, <1>8, <1>9, <1>10, <1>11, <1>12, <1>13, <1>14, <1>15, <1>16, <1>17, <1>18, <1>19, <1>20, <1>21 DEF SourceNext

(* runtime.start and runtime.stop within a call. *)
LEMMA ProcessCourse ==
    ASSUME TypeOK, WriteAheadInv, CourseInv, NEW n \in Nodes, ProcessNext(n)
    PROVE  CourseInv'
<1>1. CASE StopProcess(n)
  <2>1. \E p \in {"transfer", "abort"} :
           /\ Moves(n, p)
           /\ IF call[n].kind = "source" THEN p = "transfer" ELSE p = "abort"
    <3>1. CASE call[n].kind = "source"
      BY <1>1, <3>1, EditMoves DEF StopProcess
    <3>2. CASE call[n].kind # "source"
      <4>1. call' = [call EXCEPT ![n] = [call[n] EXCEPT !.at = "abort"]]
        BY <1>1, <3>2 DEF StopProcess
      <4>2. Go(n, "abort")
        BY <4>1 DEF Go
      <4> QED
        BY <3>2, <4>2, GoMoves
    <3> QED
      BY <3>1, <3>2
  <2> QED
    BY <1>1, <2>1, RoleAt, CourseMove
    DEF StopProcess, Role, SourcePlace, ResolvePlace, DestinationPlace, RevertPlace, Answers, records, network
<1>2. CASE Spawn(n)
  <2>1. PICK p \in Pids : call' = [call EXCEPT ![n] = [call[n] EXCEPT !.at = "running", !.pid = p]]
    BY <1>2 DEF Spawn
  <2>2. Moves(n, "running")
    BY <2>1, EditMoves
  <2> QED
    BY <1>2, <2>2, RoleAt, CourseMove
    DEF Spawn, Role, SourcePlace, ResolvePlace, DestinationPlace, RevertPlace, Answers, records, network
<1>3. CASE SpawnNotNeeded(n)
  <2>1. \E p \in {"consume", "journalUndo"} : Go(n, p) /\ p = AfterStart(n)
    BY <1>3 DEF SpawnNotNeeded, AfterStart
  <2> QED
    BY <1>3, <2>1, RoleAt, CourseGo
    DEF SpawnNotNeeded, AfterStart, Role, SourcePlace, ResolvePlace, DestinationPlace, RevertPlace, records, network
<1>4. CASE SpawnRefused(n)
  <2>1. \E p \in {"abort", "journalUndo"} :
           Go(n, p) /\ p = IF call[n].kind = "destination" THEN "abort" ELSE "journalUndo"
    BY <1>4 DEF SpawnRefused, StartRaised
  <2> QED
    BY <1>4, <2>1, RoleAt, CourseGo
    DEF SpawnRefused, Role, SourcePlace, ResolvePlace, DestinationPlace, RevertPlace, records, network
<1>5. CASE SpawnNotReady(n)
  <2>1. \E p \in {"abort", "journalUndo"} :
           Go(n, p) /\ p = IF call[n].kind = "destination" THEN "abort" ELSE "journalUndo"
    BY <1>5 DEF SpawnNotReady, StartRaised
  <2> QED
    BY <1>5, <2>1, RoleAt, CourseGo
    DEF SpawnNotReady, Role, SourcePlace, ResolvePlace, DestinationPlace, RevertPlace, records, network
<1>6. CASE MarkRunningAfterSpawn(n)
  <2>1. CASE CanRun(n, reg[n])
    <3>1. AfterStart(n) = IF call[n].kind = "destination" THEN "consume" ELSE "journalUndo"
      BY DEF AfterStart
    <3>2. call' = [call EXCEPT ![n] = [call[n] EXCEPT !.at = AfterStart(n), !.pid = NoPid]]
      BY <1>6, <2>1 DEF MarkRunningAfterSpawn
    <3>3. Moves(n, AfterStart(n))
      BY <3>2, EditMoves
    <3> QED
      BY <1>6, <3>1, <3>3, RoleAt, CourseMove
      DEF MarkRunningAfterSpawn, Role, SourcePlace, ResolvePlace, DestinationPlace, RevertPlace, Answers, records, network
  <2>2. CASE ~CanRun(n, reg[n])
    <3>1. \E p \in {"abort", "journalUndo"} :
             Go(n, p) /\ p = IF call[n].kind = "destination" THEN "abort" ELSE "journalUndo"
      BY <1>6, <2>2 DEF MarkRunningAfterSpawn, StartRaised
    <3> QED
      BY <1>6, <3>1, RoleAt, CourseGo
      DEF MarkRunningAfterSpawn, Role, SourcePlace, ResolvePlace, DestinationPlace, RevertPlace, records, network
  <2> QED
    BY <2>1, <2>2
<1> QED
  BY <1>1, <1>2, <1>3, <1>4, <1>5, <1>6 DEF ProcessNext

(* activate_incoming. *)
LEMMA DestinationCourse ==
    ASSUME Orderly, TypeOK, WriteAheadInv, CourseInv, NEW n \in Nodes, DestinationNext(n)
    PROVE  CourseInv'
<1> USE DEF Orderly
<1>0. Undisturbed(n) => listed[n] = NothingListed
  BY DEF Undisturbed
<1>1. CASE \E m \in Migrations, k \in Attempts : AnswerClaimed(n, m, k)
  <2>1. PICK m \in Migrations, k \in Attempts : AnswerClaimed(n, m, k)
    BY <1>1
  <2>2. Writes(n, m, "activated")
    BY <2>1, RecordWrites DEF AnswerClaimed
  <2>3. TRUE \in BOOLEAN
    OBVIOUS
  <2> QED
    BY <1>0, <2>1, <2>2, <2>3, CourseAnswer DEF AnswerClaimed
<1>2. CASE \E m \in Migrations, k \in Attempts : AnswerRolledBack(n, m, k)
  <2>1. PICK m \in Migrations, k \in Attempts : AnswerRolledBack(n, m, k)
    BY <1>2
  <2>2. FALSE \in BOOLEAN
    OBVIOUS
  <2> QED
    BY <2>1, <2>2, CourseAnswer DEF AnswerRolledBack, records
<1>3. CASE \E m \in Migrations, k \in Attempts : StartActivation(n, m, k)
  <2>1. PICK m \in Migrations, k \in Attempts : StartActivation(n, m, k)
    BY <1>3
  <2> DEFINE d == [NoCall(n) EXCEPT !.kind = "destination", !.at = "begin",
                                    !.mig = m, !.attempt = k, !.saved = reg[n]]
  <2>2. d.kind = "destination" /\ d.at = "begin" /\ d.mig = m /\ d.attempt = k
    BY DEF NoCall
  <2>3. call' = [call EXCEPT ![n] = d]
    BY <2>1 DEF StartActivation
  <2> HIDE DEF d
  <2>4. /\ Elsewhere(n) /\ call'[n].kind = "destination" /\ call'[n].at = "begin"
        /\ call'[n].mig = m /\ call'[n].attempt = k
    BY <2>2, <2>3 DEF Elsewhere, TypeOK
  <2>5. Writes(n, m, "activating")
    BY <2>1, RecordWrites DEF StartActivation
  <2> QED
    BY <1>0, <2>1, <2>4, <2>5, CourseActivation DEF StartActivation
<1>4. CASE BeginActivation(n)
  <2>1. Go(n, "claim") \/ Go(n, "abort")
    BY <1>4 DEF BeginActivation
  <2> QED
    BY <1>4, <2>1, RoleAt, CourseGo DEF BeginActivation, At, Role, SourcePlace, ResolvePlace, DestinationPlace, RevertPlace, records, network
<1>5. CASE ClaimTask(n)
  <2>1. Go(n, "spawn") \/ Go(n, "abort")
    BY <1>5 DEF ClaimTask
  <2> QED
    BY <1>5, <2>1, RoleAt, CourseGo DEF ClaimTask, At, Role, SourcePlace, ResolvePlace, DestinationPlace, RevertPlace, records, network
<1>6. CASE CheckpointInvalid(n)
  BY <1>6, RoleAt, CourseGo DEF CheckpointInvalid, At, Role, SourcePlace, ResolvePlace, DestinationPlace, RevertPlace, records, network
<1>7. CASE ConsumeReservation(n)
  <2>1. Go(n, "confirm") \/ Go(n, "kill")
    BY <1>7 DEF ConsumeReservation
  <2> QED
    BY <1>7, <2>1, RoleAt, CourseGo DEF ConsumeReservation, At, Role, SourcePlace, ResolvePlace, DestinationPlace, RevertPlace, records, network
<1>8. CASE AbortActivation(n)
  BY <1>8, RoleAt, CourseGo DEF AbortActivation, At, Role, SourcePlace, ResolvePlace, DestinationPlace, RevertPlace, records, network
<1>9. CASE ConfirmActivation(n)
  <2>1. Idles(n) /\ call[n].kind = "destination" /\ call[n].attempt \in 0 .. MaxAttempts
        /\ call[n].mig \in Migrations
    BY <1>9, ReleaseIdles, CallRecord DEF ConfirmActivation, At, Call
  <2>2. Answers(n, "idle")
    BY <1>9, <2>1 DEF ConfirmActivation, Respond, Answers, Awaits
  <2>3. Writes(n, call[n].mig, "activated")
    BY <1>9, <2>1, RecordWrites DEF ConfirmActivation
  <2> QED
    BY <1>9, <2>1, <2>2, <2>3, CourseMove DEF ConfirmActivation, At, JournalStatus, Terminal
<1>10. CASE RefuseActivation(n)
  <2>1. Idles(n) /\ call[n].kind = "destination" /\ call[n].attempt \in 0 .. MaxAttempts
        /\ call[n].mig \in Migrations
    BY <1>10, ReleaseIdles, CallRecord DEF RefuseActivation, At, Call
  <2>2. Answers(n, "idle")
    BY <1>10, <2>1 DEF RefuseActivation, Respond, Answers, Awaits
  <2> QED
    BY <1>10, <2>1, <2>2, CourseMove DEF RefuseActivation, At, records
<1>11. CASE JournalAbort(n)
  <2>1. Writes(n, call[n].mig, "rolled_back")
    BY <1>11, RecordWrites, CallPlaces DEF JournalAbort
  <2>2. CASE call[n].kind = "destination"
    <3>1. Moves(n, "refuse")
      BY <1>11, <2>2, GoMoves DEF JournalAbort
    <3> QED
      BY <1>11, <2>1, <2>2, <3>1, RoleAt, CourseMove
      DEF JournalAbort, Role, SourcePlace, ResolvePlace, DestinationPlace, RevertPlace, JournalStatus, Terminal, Answers, network
  <2>3. CASE call[n].kind # "destination"
    <3>1. Idles(n)
      BY <1>11, <2>3, ReleaseIdles DEF JournalAbort
    <3> QED
      BY <1>11, <2>1, <3>1, CourseMove DEF JournalAbort, JournalStatus, Terminal, Answers, network
  <2> QED
    BY <2>2, <2>3
<1> QED
  BY <1>1, <1>2, <1>3, <1>4, <1>5, <1>6, <1>7, <1>8, <1>9, <1>10, <1>11 DEF DestinationNext

(* reconcile_durable_state. *)
LEMMA TakeUpBegins ==
    ASSUME TypeOK, NEW n \in Nodes, NEW m, NEW p, TakeUp(n, m, p)
    PROVE  /\ Elsewhere(n)
           /\ call'[n].kind = "reconcile"
           /\ call'[n].at = p
           /\ call'[n].mig = m
           /\ call'[n].saved = original[n][m]
<1> DEFINE d == [NoCall(n) EXCEPT !.kind = "reconcile", !.at = p, !.mig = m,
                                  !.saved = original[n][m]]
<1>1. d.kind = "reconcile" /\ d.at = p /\ d.mig = m /\ d.saved = original[n][m]
  BY DEF NoCall
<1>2. call' = [call EXCEPT ![n] = d]
  BY DEF TakeUp
<1> HIDE DEF d
<1> QED
  BY <1>1, <1>2 DEF Elsewhere, TypeOK

LEMMA ReconcileCourse ==
    ASSUME Orderly, TypeOK, WriteAheadInv, CourseInv, NEW n \in Nodes, ReconcileNext(n)
    PROVE  CourseInv'
<1>0. "activated" \in Terminal /\ "rolled_back" \in Terminal
  BY DEF Terminal
<1>1. CASE ListRecords(n)
  BY <1>1, CourseListing
<1>2. CASE \E m \in Migrations : ReconcileCommitted(n, m)
  <2>1. PICK m \in Migrations : ReconcileCommitted(n, m)
    BY <1>2
  <2>2. Writes(n, m, "activated")
    BY <2>1, RecordWrites DEF ReconcileCommitted
  <2> QED
    BY <1>0, <2>1, <2>2, CourseHandled DEF ReconcileCommitted, Turn, network
<1>3. CASE \E m \in Migrations : ReconcileIncomplete(n, m)
  <2>1. PICK m \in Migrations : ReconcileIncomplete(n, m)
    BY <1>3
  <2>2. TakeUp(n, m, "kill") \/ TakeUp(n, m, "abort")
    BY <2>1 DEF ReconcileIncomplete
  <2> QED
    BY <2>1, <2>2, TakeUpBegins, CourseHandled DEF ReconcileIncomplete, Turn, records, network
<1>4. CASE \E m \in Migrations : ReconcileSettled(n, m)
  <2>1. PICK m \in Migrations : ReconcileSettled(n, m)
    BY <1>4
  <2>2. Writes(n, m, "activated") \/ Writes(n, m, "rolled_back")
    BY <2>1, RecordWrites DEF ReconcileSettled
  <2> QED
    BY <1>0, <2>1, <2>2, CourseHandled DEF ReconcileSettled, Turn, network
<1>5. CASE \E m \in Migrations : ReconcileSource(n, m)
  <2>1. PICK m \in Migrations : ReconcileSource(n, m)
    BY <1>5
  <2> QED
    BY <2>1, TakeUpBegins, CourseHandled DEF ReconcileSource, Turn, records, network
<1> QED
  BY <1>1, <1>2, <1>3, <1>4, <1>5 DEF ReconcileNext

(* The services, the environment, and the scheduler. *)
LEMMA OtherCourse ==
    ASSUME Orderly, TypeOK, WriteAheadInv, CourseInv, NEW n \in Nodes,
           ServiceNext(n) \/ EnvironmentNext(n) \/ SchedulerNext(n)
    PROVE  CourseInv'
<1>1. CASE ServiceNext(n)
  BY <1>1, CourseQuiet
  DEF ServiceNext, Gossip, ReconcileRuntime, Recover, StarterSpawn, StarterRunning,
      StarterNotReady, records, network
<1>2. CASE ProcessExits(n) \/ OperatorStart(n)
  BY <1>2, CourseQuiet DEF ProcessExits, OperatorStart, records, network
<1>3. CASE Crash(n) \/ ServiceCrash(n)
  BY <1>3, CourseForget DEF Crash, ServiceCrash, records
<1>4. CASE SchedulerNext(n)
  <2>1. PICK d \in Nodes, m \in Migrations :
           /\ plan[m] = NoPlan
           /\ d # n
           /\ Free(n)
           /\ Undisturbed(n)
           /\ plan' = [plan EXCEPT ![m] = [src |-> n, dst |-> d, gen |-> reg[n].gen + 1]]
           /\ Record(n, m, "preparing")
           /\ call' = [call EXCEPT ![n] = [NoCall(n) EXCEPT !.kind = "source",
                                                            !.at = "prefetch", !.mig = m]]
           /\ UNCHANGED <<listed, requests, responses>>
    BY <1>4 DEF SchedulerNext, StartMigration, network
  <2> DEFINE e == [NoCall(n) EXCEPT !.kind = "source", !.at = "prefetch", !.mig = m]
             q == [src |-> n, dst |-> d, gen |-> reg[n].gen + 1]
  <2>2. e.kind = "source" /\ e.at = "prefetch" /\ e.mig = m
    BY DEF NoCall
  <2>3. q.src = n /\ q # NoPlan
    BY <2>1 DEF NoPlan
  <2>4. call' = [call EXCEPT ![n] = e] /\ plan' = [plan EXCEPT ![m] = q]
    BY <2>1
  <2> HIDE DEF e, q
  <2>5. /\ Elsewhere(n) /\ call'[n].kind = "source" /\ call'[n].at = "prefetch"
        /\ call'[n].mig = m /\ plan'[m] # NoPlan /\ plan'[m].src = n
        /\ \A j \in Migrations : j # m => plan'[j] = plan[j]
    BY <2>2, <2>3, <2>4 DEF Elsewhere, TypeOK
  <2>6. Writes(n, m, "preparing")
    BY <2>1, RecordWrites
  <2>7. listed[n] = NothingListed
    BY <2>1 DEF Undisturbed, Orderly
  <2> QED
    BY <2>1, <2>5, <2>6, <2>7, CourseStart
<1> QED
  BY <1>1, <1>2, <1>3, <1>4 DEF EnvironmentNext

(* The course is kept by every step. *)
LEMMA CourseStep ==
    ASSUME Orderly, TypeOK, WriteAheadInv, CourseInv, [Next]_vars
    PROVE  CourseInv'
<1>1. ASSUME NEW n \in Nodes, SourceNext(n)
      PROVE  CourseInv'
  BY <1>1, SourceCourse
<1>2. ASSUME NEW n \in Nodes, ProcessNext(n)
      PROVE  CourseInv'
  BY <1>2, ProcessCourse
<1>3. ASSUME NEW n \in Nodes, DestinationNext(n)
      PROVE  CourseInv'
  BY <1>3, DestinationCourse
<1>4. ASSUME NEW n \in Nodes, ReconcileNext(n)
      PROVE  CourseInv'
  BY <1>4, ReconcileCourse
<1>5. ASSUME NEW n \in Nodes, ServiceNext(n) \/ EnvironmentNext(n) \/ SchedulerNext(n)
      PROVE  CourseInv'
  BY <1>5, OtherCourse
<1>6. ASSUME NEW m \in Migrations, ExpireReservation(m)
      PROVE  CourseInv'
  BY <1>6, CourseQuiet DEF ExpireReservation, records, network
<1>7. CASE UNCHANGED vars
  BY <1>7, CourseQuiet DEF vars
<1> QED
  BY <1>1, <1>2, <1>3, <1>4, <1>5, <1>6, <1>7 DEF Next

LEMMA CourseInit ==
    ASSUME Init
    PROVE  CourseInv
<1>1. \A n \in Nodes : /\ call[n].at = "idle" /\ call[n].kind = "none"
                       /\ listed[n] = NothingListed
                       /\ \A m \in Migrations : journal[n][m] = "none" /\ listed[n][m] = "none"
  <2>1. /\ journal = [n \in Nodes |-> [m \in Migrations |-> "none"]]
        /\ call = [n \in Nodes |-> NoCall(n)]
        /\ listed = [n \in Nodes |-> NothingListed]
    BY DEF Init
  <2>2. \A n \in Nodes : call[n].at = "idle" /\ call[n].kind = "none"
    BY <2>1 DEF NoCall
  <2> QED
    BY <2>1, <2>2 DEF NothingListed
<1>2. requests = {} /\ responses = {}
  BY DEF Init
<1>3. RoleInv /\ PartyInv /\ OpenCallInv
  BY <1>1 DEF RoleInv, Role, PartyInv, OpenCallInv
<1>4. ListedInv /\ ClientInv
  BY <1>1, <1>2 DEF ListedInv, ClientInv, RequestOrder, ResponseOrder, ServeOrder, Free
<1> QED
  BY <1>3, <1>4 DEF CourseInv

LEMMA CourseKept ==
    ASSUME Orderly
    PROVE  Spec => []CourseInv
<1>1. Init => CourseInv
  BY CourseInit
<1>2. TypeOK /\ WriteAheadInv /\ CourseInv /\ [Next]_vars => CourseInv'
  BY CourseStep
<1> QED
  BY <1>1, <1>2, TypeCorrect, WriteAheadKept, PTL DEF Spec

-------------------------------------------------------------------------------
(* Who owns the task.  Of the begun migrations, those that moved the task and
   those the source has not decided; at most one is open. *)

Landed == {m \in Begun : journal[plan[m].dst][m] = "activated"}
Open == {m \in Begun : journal[plan[m].src][m] \notin Terminal}

(* The destination has not committed, and will not without a request. *)
Kept(m) == journal[plan[m].dst][m] \in {"none", "rolled_back"}

(* A node owned the task in a generation: at first, or by a committed move. *)
Held(o, g) == \/ o = Home /\ g = 0
              \/ \E m \in Landed : plan[m].dst = o /\ plan[m].gen = g

(* An entry names an owner that held its generation; the migration it names
   last is the one that brought the task there, or the one it was to leave by. *)
Proper(e) ==
    /\ Held(e.owner, e.gen)
    /\ \/ e.last = NoMigration /\ e.gen = 0
       \/ /\ e.last \in Begun
          /\ \/ e.last \in Landed /\ e.owner = plan[e.last].dst /\ e.gen = plan[e.last].gen
             \/ e.owner = plan[e.last].src /\ e.gen + 1 = plan[e.last].gen

Claiming(e, n, m) == n = plan[m].dst /\ e.owner = n /\ e.gen = plan[m].gen /\ e.last = m

(* Node n may have entry e: it is proper or a claim that is not committed; who
   takes itself for the owner is an end of the open migration and has the
   highest generation, or is the source of a move just committed; a destination
   knows of every move to it; the source of an open migration that has not
   moved the task owns it. *)
Fits(e, n) ==
    /\ \/ Proper(e)
       \/ \E m \in Open \ Landed : Claiming(e, n, m) /\ journal[n][m] = "activating"
    /\ e.owner = n =>
          /\ \A m \in Open : n \in {plan[m].src, plan[m].dst}
          /\ \A m \in Landed : plan[m].gen <= e.gen \/ (m \in Open /\ n = plan[m].src)
    /\ \A m \in Landed : n = plan[m].dst =>
          /\ plan[m].gen <= e.gen
          /\ m \in Open => Claiming(e, n, m)
    /\ \A m \in Open \ Landed : n = plan[m].src => e.owner = n /\ e.gen + 1 = plan[m].gen

FitInv == \A n \in Nodes : Fits(reg[n], n)

(* Every migration continues a generation that was held; committed moves have
   different generations; the open migration is the only one and the latest. *)
OrderInv ==
    /\ \A m \in Begun : plan[m].gen > 0 /\ Held(plan[m].src, plan[m].gen - 1)
    /\ \A m, i \in Landed : plan[m].gen = plan[i].gen => m = i
    /\ \A m \in Open : /\ \A i \in Begun : plan[i].gen <= plan[m].gen
                       /\ \A i \in Landed : i # m => plan[i].gen < plan[m].gen
                       /\ \A i \in Open : i = m

(* An entry the destination n may go back to. *)
Backed(e, n) == /\ Proper(e)
                /\ e.owner # n
                /\ \A m \in Landed : plan[m].dst = n => plan[m].gen <= e.gen

(* The snapshots in the records of the open migration. *)
OriginInv ==
    \A m \in Open :
        LET s == plan[m].src
            d == plan[m].dst
        IN  /\ Proper(original[s][m])
            /\ original[s][m].owner = s
            /\ original[s][m].gen + 1 = plan[m].gen
            /\ journal[d][m] = "activating" => Backed(original[d][m], d)

(* A source decides as the destination did. *)
VerdictInv ==
    \A m \in Begun :
        /\ journal[plan[m].src][m] = "rolled_back" => Kept(m)
        /\ journal[plan[m].src][m] = "activated" => m \in Landed

(* A response tells what the destination's record says. *)
ResponseInv ==
    \A m \in Migrations, k \in 0 .. MaxAttempts :
        /\ <<m, k, TRUE>> \in responses => m \in Landed
        /\ <<m, k, FALSE>> \in responses => journal[plan[m].dst][m] = "rolled_back"

(* Where the source takes the task back. *)
TakeBack == {"undo", "restore", "spawn", "running", "journalUndo"}

(* What a call relies on at its place. *)
Stands(n) ==
    LET c == call[n]
        m == call[n].mig
    IN  /\ c.at = "refuse" => journal[n][m] = "rolled_back"
        /\ c.at \in {"remote", "commit"} => m \in Landed
        /\ c.at \in TakeBack /\ c.kind # "destination" => Kept(m)
        /\ c.at = "decide" => /\ c.answer = "activated" => m \in Landed
                              /\ NotCommitted(c) => Kept(m)
        /\ c.at # "idle" /\ n = plan[m].dst /\ journal[n][m] = "activating" => Backed(c.saved, n)
        /\ c.kind = "destination" /\ c.at \in {"spawn", "running", "consume", "confirm"}
              => Claiming(reg[n], n, m)
        /\ c.at \in {"commit", "journalAbort"} => reg[n].owner # n

StandInv == \A n \in Nodes : Stands(n)

OwnerInv == FitInv /\ OrderInv /\ OriginInv /\ VerdictInv /\ ResponseInv /\ StandInv

-------------------------------------------------------------------------------
(* What the parts say together. *)

LEMMA Plans ==
    ASSUME TypeOK, WriteAheadInv
    PROVE  /\ \A m \in Migrations : /\ plan[m].src \in Nodes
                                    /\ plan[m].dst \in Nodes
                                    /\ plan[m].gen \in Nat
           /\ \A m \in Begun : m \in Migrations /\ plan[m].src # plan[m].dst
           /\ Begun \subseteq Migrations /\ Open \subseteq Begun /\ Landed \subseteq Begun
           /\ NoMigration \notin Migrations
<1>1. \A m \in Migrations : plan[m] \in Plan
  BY DEF TypeOK
<1>2. NoMigration \notin Migrations
  BY ConstantsAssumption DEF NoMigration
<1> QED
  BY <1>1, <1>2 DEF Plan, WriteAheadInv, PlanInv, Begun, Open, Landed

(* What is in progress is about the open migration. *)
LEMMA Busy ==
    ASSUME TypeOK, WriteAheadInv, CourseInv, VerdictInv
    PROVE  /\ \A n \in Nodes, m \in Migrations :
                 journal[n][m] \notin Terminal \cup {"none"} =>
                    m \in Open /\ (n = plan[m].dst => journal[n][m] = "activating")
           /\ \A n \in Nodes : call[n].at \notin {"idle", "cancel", "refuse"} => call[n].mig \in Open
           /\ \A m \in Asked : m \in Open /\ At(plan[m].src, "source", "await")
                                          /\ call[plan[m].src].mig = m
<1>1. \A n \in Nodes, m \in Migrations : journal[n][m] # "none" => m \in Begun
  BY DEF WriteAheadInv, PlanInv, Begun
<1>2. ASSUME NEW n \in Nodes, NEW m \in Migrations, journal[n][m] \notin Terminal \cup {"none"}
      PROVE  m \in Open /\ (n = plan[m].dst => journal[n][m] = "activating")
  <2>1. m \in Begun
    BY <1>1, <1>2
  <2>2. CASE n = plan[m].src
    BY <1>2, <2>1, <2>2, Plans DEF Open
  <2>3. CASE n # plan[m].src
    <3>1. n = plan[m].dst /\ journal[n][m] = "activating"
      BY <1>2, <2>3 DEF CourseInv, PartyInv
    <3>2. ~Kept(m) /\ m \notin Landed
      BY <3>1 DEF Kept, Landed
    <3>3. journal[plan[m].src][m] \notin Terminal
      BY <2>1, <3>2 DEF VerdictInv, Terminal
    <3> QED
      BY <2>1, <3>1, <3>3 DEF Open
  <2> QED
    BY <2>2, <2>3
<1>3. ASSUME NEW n \in Nodes, call[n].at \notin {"idle", "cancel", "refuse"}
      PROVE  call[n].mig \in Open
  BY <1>2, <1>3 DEF CourseInv, OpenCallInv, TypeOK
<1>4. ASSUME NEW m \in Asked
      PROVE  m \in Open /\ At(plan[m].src, "source", "await") /\ call[plan[m].src].mig = m
  <2>1. At(plan[m].src, "source", "await") /\ call[plan[m].src].mig = m
    BY DEF CourseInv, ClientInv, RequestOrder, Awaits, Asked
  <2> QED
    BY <1>3, <2>1, Plans DEF At, Asked
<1> QED
  BY <1>2, <1>3, <1>4

(* A claim is of a migration that landed, or of the open one. *)
LEMMA ClaimIs ==
    ASSUME TypeOK, WriteAheadInv, FitInv, NEW n \in Nodes, NEW m \in Migrations,
           Claiming(reg[n], n, m)
    PROVE  \/ m \in Landed
           \/ m \in Open \ Landed /\ journal[n][m] = "activating"
<1>1. Fits(reg[n], n)
  BY DEF FitInv
<1>2. CASE Proper(reg[n])
  <2>1. m # NoMigration
    BY Plans
  <2> QED
    BY <1>2, <2>1, Plans DEF Proper, Claiming
<1>3. CASE \E i \in Open \ Landed : Claiming(reg[n], n, i) /\ journal[n][i] = "activating"
  BY <1>3 DEF Claiming
<1> QED
  BY <1>1, <1>2, <1>3 DEF Fits

(* Only one node can have the highest generation. *)
LEMMA Highest ==
    ASSUME TypeOK, WriteAheadInv, OrderInv, NEW a, NEW b, NEW g, NEW h, Held(a, g), Held(b, h),
           \A i \in Landed : plan[i].gen <= g,
           \A i \in Landed : plan[i].gen <= h
    PROVE  a = b /\ g = h
<1>1. \A i \in Landed : plan[i].gen \in Nat /\ plan[i].gen > 0
  BY Plans DEF OrderInv
<1>2. CASE a = Home /\ g = 0
  BY <1>1, <1>2 DEF Held
<1>3. CASE b = Home /\ h = 0
  BY <1>1, <1>3 DEF Held
<1>4. ASSUME NEW i \in Landed, plan[i].dst = a, plan[i].gen = g,
             NEW j \in Landed, plan[j].dst = b, plan[j].gen = h
      PROVE  a = b /\ g = h
  <2>1. g = h
    BY <1>1, <1>4
  <2> QED
    BY <1>4, <2>1 DEF OrderInv
<1> QED
  BY <1>2, <1>3, <1>4 DEF Held

(* A node that takes itself for the owner while the open migration has not
   moved the task is its source, or claims it. *)
LEMMA OwnerIsSource ==
    ASSUME TypeOK, WriteAheadInv, OwnerInv, NEW n \in Nodes, NEW m \in Open \ Landed,
           reg[n].owner = n, ~Claiming(reg[n], n, m)
    PROVE  n = plan[m].src
<1>1. Fits(reg[n], n)
  BY DEF OwnerInv, FitInv
<1>2. \A i \in Open : i = m
  BY DEF OwnerInv, OrderInv
<1>3. Proper(reg[n])
  BY <1>1, <1>2 DEF Fits
<1>4. \A i \in Landed : plan[i].gen <= reg[n].gen
  BY <1>1, <1>2 DEF Fits
<1>5. \A i \in Landed : plan[i].gen <= plan[m].gen - 1
  <2>1. plan[m].gen \in Nat /\ \A i \in Landed : plan[i].gen \in Nat /\ plan[i].gen < plan[m].gen
    BY Plans DEF OwnerInv, OrderInv
  <2> QED
    BY <2>1
<1>6. Held(plan[m].src, plan[m].gen - 1)
  BY Plans DEF OwnerInv, OrderInv
<1>7. Held(n, reg[n].gen)
  BY <1>3 DEF Proper
<1> QED
  BY <1>4, <1>5, <1>6, <1>7, Highest DEF OwnerInv

-------------------------------------------------------------------------------
(* Entries that fit. *)

LEMMA FitsLike ==
    ASSUME NEW e, NEW f, NEW n, Fits(e, n),
           f.owner = e.owner, f.gen = e.gen, f.last = e.last
    PROVE  Fits(f, n)
  BY DEF Fits, Proper, Claiming

(* The entries of the source while the task is not moved. *)
LEMMA SourceFits ==
    ASSUME TypeOK, WriteAheadInv, OwnerInv, NEW m \in Open \ Landed, NEW e, Proper(e),
           e.owner = plan[m].src, e.gen + 1 = plan[m].gen
    PROVE  Fits(e, plan[m].src)
<1>1. plan[m].src \in Nodes /\ Fits(reg[plan[m].src], plan[m].src)
  BY Plans DEF OwnerInv, FitInv
<1>2. reg[plan[m].src].owner = plan[m].src /\ reg[plan[m].src].gen + 1 = plan[m].gen
  BY <1>1 DEF Fits
<1>3. reg[plan[m].src].gen \in Nat
  BY <1>1 DEF TypeOK, Entry
<1>4. e.gen = reg[plan[m].src].gen
  <2>1. e.gen \in Nat
    BY Plans DEF Proper, Held
  <2> QED
    BY <1>2, <1>3, <2>1
<1>5. \A i \in Landed : plan[m].src = plan[i].dst => i \notin Open
  <2>1. \A i \in Open : i = m
    BY DEF OwnerInv, OrderInv
  <2> QED
    BY <2>1
<1> QED
  BY <1>1, <1>2, <1>4, <1>5 DEF Fits

(* The entry of the source of the open migration is proper. *)
LEMMA SourceProper ==
    ASSUME TypeOK, WriteAheadInv, OwnerInv, NEW m \in Open \ Landed
    PROVE  /\ Proper(reg[plan[m].src])
           /\ reg[plan[m].src].owner = plan[m].src
           /\ reg[plan[m].src].gen + 1 = plan[m].gen
<1>1. plan[m].src \in Nodes /\ Fits(reg[plan[m].src], plan[m].src) /\ plan[m].src # plan[m].dst
  BY Plans DEF OwnerInv, FitInv
<1>2. \A i \in Open : i = m
  BY DEF OwnerInv, OrderInv
<1> QED
  BY <1>1, <1>2 DEF Fits, Claiming

(* claim_local. *)
LEMMA ClaimFits ==
    ASSUME TypeOK, WriteAheadInv, OwnerInv, NEW m \in Open \ Landed, NEW e,
           journal[plan[m].dst][m] = "activating", Claiming(e, plan[m].dst, m)
    PROVE  Fits(e, plan[m].dst)
<1>1. \A i \in Open : i = m
  BY DEF OwnerInv, OrderInv
<1>2. \A i \in Landed : plan[i].gen <= plan[m].gen
  BY Plans DEF OwnerInv, OrderInv
<1>3. plan[m].src # plan[m].dst
  BY Plans
<1> QED
  BY <1>1, <1>2, <1>3 DEF Fits, Claiming

(* mark_remote. *)
LEMMA RemoteFits ==
    ASSUME TypeOK, WriteAheadInv, OwnerInv, NEW m \in Open \cap Landed, NEW e,
           e.owner = plan[m].dst, e.gen = plan[m].gen, e.last = m
    PROVE  Fits(e, plan[m].src)
<1>1. \A i \in Open : i = m
  BY DEF OwnerInv, OrderInv
<1>2. \A i \in Landed : plan[i].gen <= plan[m].gen
  BY Plans DEF OwnerInv, OrderInv
<1>3. plan[m].src # plan[m].dst
  BY Plans
<1>4. Proper(e)
  BY Plans DEF Proper, Held
<1> QED
  BY <1>1, <1>2, <1>3, <1>4 DEF Fits

(* The rollback of an activation. *)
LEMMA BackedFits ==
    ASSUME TypeOK, WriteAheadInv, OwnerInv, NEW m \in Open \ Landed, NEW e,
           Backed(e, plan[m].dst)
    PROVE  Fits(e, plan[m].dst)
<1>1. \A i \in Open : i = m
  BY DEF OwnerInv, OrderInv
<1>2. plan[m].src # plan[m].dst
  BY Plans
<1> QED
  BY <1>1, <1>2 DEF Fits, Backed

(* An activation begins: what the destination has can be gone back to. *)
LEMMA BackedBegins ==
    ASSUME TypeOK, WriteAheadInv, OwnerInv, NEW m \in Open \ Landed,
           ~Claiming(reg[plan[m].dst], plan[m].dst, m)
    PROVE  Backed(reg[plan[m].dst], plan[m].dst)
<1>1. /\ plan[m].dst \in Nodes
      /\ Fits(reg[plan[m].dst], plan[m].dst)
      /\ plan[m].src # plan[m].dst
  BY Plans DEF OwnerInv, FitInv
<1>2. reg[plan[m].dst].owner # plan[m].dst
  BY <1>1, OwnerIsSource
<1> QED
  BY <1>1, <1>2 DEF Backed, Fits, Claiming

(* apply_ownership of what another node has, no uncommitted claim. *)
LEMMA GossipFits ==
    ASSUME TypeOK, WriteAheadInv, OwnerInv, NEW n \in Nodes, NEW u \in Entry, Proper(u),
           Accepts(reg[n], Claim(u))
    PROVE  /\ Fits(ApplyOwnership(n, reg[n], Claim(u)), n)
           /\ ApplyOwnership(n, reg[n], Claim(u)).gen >= reg[n].gen
           /\ ApplyOwnership(n, reg[n], Claim(u)).owner = n => reg[n].owner = n
           /\ \A m \in Open : Claiming(reg[n], n, m)
                 => Claiming(ApplyOwnership(n, reg[n], Claim(u)), n, m)
<1> DEFINE e == reg[n]
           f == ApplyOwnership(n, e, Claim(u))
<1>1. e \in Entry /\ Fits(e, n)
  BY DEF TypeOK, OwnerInv, FitInv
<1>2. /\ f.owner = u.owner
      /\ f.gen = u.gen
      /\ f.last = IF u.last = NoMigration THEN e.last ELSE u.last
  BY <1>1 DEF ApplyOwnership, Claim, Entry
<1>3. u.gen >= e.gen /\ (u.gen = e.gen => u.owner = e.owner)
  BY DEF Accepts, Claim
<1> HIDE DEF e, f
<1>4. /\ u.gen \in Nat /\ e.gen \in Nat
      /\ \A m \in Begun : plan[m].gen \in Nat /\ plan[m].gen > 0
      /\ Landed \subseteq Begun /\ Open \subseteq Begun
      /\ n \in Nodes
  BY <1>1, Plans DEF Entry, OwnerInv, OrderInv
<1>5. Held(u.owner, u.gen)
  BY DEF Proper
<1>6. u.owner = n => e.owner = n /\ e.gen = u.gen
  <2> SUFFICES ASSUME u.owner = n
               PROVE  e.owner = n /\ e.gen = u.gen
    OBVIOUS
  <2>1. CASE u.gen = 0
    BY <1>3, <1>4, <2>1
  <2>2. ASSUME NEW i \in Landed, plan[i].dst = n, plan[i].gen = u.gen
        PROVE  e.owner = n /\ e.gen = u.gen
    <3>1. plan[i].gen <= e.gen
      BY <1>1, <2>2 DEF Fits
    <3>2. e.gen = u.gen
      BY <1>3, <1>4, <2>2, <3>1
    <3> QED
      BY <1>3, <3>2
  <2> QED
    BY <1>5, <2>1, <2>2 DEF Held
<1>7. CASE u.last = NoMigration
  <2>1. u.gen = 0
    <3>1. u.last \notin Begun
      BY <1>7, Plans
    <3> QED
      BY <3>1 DEF Proper
  <2>2. e.gen = 0 /\ u.owner = e.owner
    BY <1>3, <1>4, <2>1
  <2>3. f.owner = e.owner /\ f.gen = e.gen /\ f.last = e.last
    BY <1>2, <1>7, <2>1, <2>2
  <2>4. Fits(f, n)
    BY <1>1, <2>3, FitsLike
  <2> QED
    BY <1>4, <2>3, <2>4 DEF e, f, Claiming
<1>8. CASE u.last # NoMigration
  <2>1. f.owner = u.owner /\ f.gen = u.gen /\ f.last = u.last
    BY <1>2, <1>8
  <2>2. \A m \in Open : /\ \A i \in Begun : plan[i].gen <= plan[m].gen
                        /\ \A i \in Landed : i # m => plan[i].gen < plan[m].gen
    BY DEF OwnerInv, OrderInv
  <2>3. ASSUME NEW m \in Open, Claiming(e, n, m)
        PROVE  m \in Landed /\ Claiming(u, n, m)
    <3>1. u.gen = plan[m].gen /\ m \in Landed
      <4>1. CASE u.gen = 0
        BY <1>3, <1>4, <2>3, <4>1 DEF Claiming
      <4>2. ASSUME NEW i \in Landed, plan[i].gen = u.gen
            PROVE  u.gen = plan[m].gen /\ m \in Landed
        <5>1. plan[m].gen <= plan[i].gen
          BY <1>3, <2>3, <4>2 DEF Claiming
        <5> QED
          BY <1>4, <2>2, <4>2, <5>1
      <4> QED
        BY <1>5, <4>1, <4>2 DEF Held
    <3>2. u.owner = n
      BY <1>3, <2>3, <3>1 DEF Claiming
    <3>3. u.last = m
      <4>1. u.last \in Begun
        BY <1>4, <1>8 DEF Proper
      <4>2. u.gen + 1 # plan[u.last].gen
        BY <1>4, <2>2, <3>1, <4>1
      <4>3. u.last \in Landed /\ u.gen = plan[u.last].gen
        BY <1>8, <4>2 DEF Proper
      <4> QED
        BY <3>1, <4>3 DEF OwnerInv, OrderInv
    <3> QED
      BY <2>3, <3>1, <3>2, <3>3 DEF Claiming
  <2>4. u.owner = n =>
          /\ \A m \in Open : n \in {plan[m].src, plan[m].dst}
          /\ \A m \in Landed : plan[m].gen <= u.gen \/ (m \in Open /\ n = plan[m].src)
    BY <1>1, <1>6 DEF Fits
  <2>5. ASSUME NEW m \in Landed, n = plan[m].dst
        PROVE  /\ plan[m].gen <= u.gen
               /\ m \in Open => Claiming(u, n, m)
    <3>1. plan[m].gen <= e.gen /\ (m \in Open => Claiming(e, n, m))
      BY <1>1, <2>5 DEF Fits
    <3>2. plan[m].gen <= u.gen
      BY <1>3, <1>4, <3>1
    <3> QED
      BY <2>3, <3>1, <3>2
  <2>6. ASSUME NEW m \in Open \ Landed, n = plan[m].src
        PROVE  u.owner = n /\ u.gen + 1 = plan[m].gen
    <3>1. e.owner = n /\ e.gen + 1 = plan[m].gen
      BY <1>1, <2>6 DEF Fits
    <3>2. u.gen < plan[m].gen
      BY <1>4, <1>5, <2>2, <2>6 DEF Held
    <3>3. u.gen = e.gen
      BY <1>3, <1>4, <3>1, <3>2
    <3> QED
      BY <1>3, <3>1, <3>3
  <2>7. Fits(u, n)
    BY <2>4, <2>5, <2>6 DEF Fits
  <2>8. Fits(f, n)
    BY <2>1, <2>7, FitsLike
  <2> QED
    BY <1>3, <1>6, <2>1, <2>3, <2>8 DEF e, f, Claiming
<1> QED
  BY <1>7, <1>8

-------------------------------------------------------------------------------
(* What steps do to it. *)

(* The responses of a step tell the truth. *)
Truthful ==
    \A m \in Migrations, k \in 0 .. MaxAttempts, ok \in BOOLEAN :
        <<m, k, ok>> \in responses' =>
            \/ <<m, k, ok>> \in responses
            \/ IF ok THEN m \in Landed' ELSE journal'[plan'[m].dst][m] = "rolled_back"

(* The outcomes of the migrations do not change. *)
SameView ==
    /\ UNCHANGED plan
    /\ \A m \in Migrations : journal'[plan[m].dst][m] = journal[plan[m].dst][m]
    /\ \A m \in Begun, w \in Terminal :
          journal'[plan[m].src][m] = w <=> journal[plan[m].src][m] = w

LEMMA SameViewMeans ==
    ASSUME SameView
    PROVE  /\ Begun' = Begun /\ Landed' = Landed /\ Open' = Open
           /\ \A m \in Migrations : Kept(m)' <=> Kept(m)
           /\ \A o, g : Held(o, g)' <=> Held(o, g)
           /\ \A e : Proper(e)' <=> Proper(e)
           /\ \A e, n : Backed(e, n)' <=> Backed(e, n)
           /\ \A e, n, m : Claiming(e, n, m)' <=> Claiming(e, n, m)
           /\ \A e, n : Fits(e, n)' <=> Fits(e, n)
<1>1. Begun' = Begun
  BY DEF SameView, Begun
<1>2. Begun \subseteq Migrations
  BY DEF Begun
<1>3. Landed' = Landed /\ Open' = Open
  BY <1>1, <1>2 DEF SameView, Landed, Open
<1>4. \A m \in Migrations : Kept(m)' <=> Kept(m)
  BY DEF SameView, Kept
<1>5. \A o, g : Held(o, g)' <=> Held(o, g)
  BY <1>3 DEF SameView, Held
<1>6. \A e : Proper(e)' <=> Proper(e)
  BY <1>1, <1>3, <1>5 DEF SameView, Proper
<1>7. \A e, n : Backed(e, n)' <=> Backed(e, n)
  BY <1>3, <1>6 DEF SameView, Backed
<1>8. \A e, n, m : Claiming(e, n, m)' <=> Claiming(e, n, m)
  BY DEF SameView, Claiming
<1>9. \A m \in Open \ Landed : \A e, n :
         Claiming(e, n, m) => (journal'[n][m] = journal[n][m])
  BY <1>2 DEF SameView, Claiming, Open
<1>10. \A e, n : Fits(e, n)' <=> Fits(e, n)
  BY <1>3, <1>6, <1>8, <1>9 DEF SameView, Fits
<1> QED
  BY <1>1, <1>3, <1>4, <1>5, <1>6, <1>7, <1>8, <1>10

(* The calls of the nodes a step does not concern stand as they stood. *)
LEMMA RestStands ==
    ASSUME TypeOK, WriteAheadInv, CourseInv, OwnerInv, NEW i \in Nodes,
           call'[i] = call[i], reg'[i] = reg[i],
           \A j \in Begun : plan'[j] = plan[j],
           Landed \subseteq Landed',
           \A e : Proper(e) => Proper(e)',
           \A j \in Begun : plan[j].dst = i => journal'[i][j] = journal[i][j],
           \A j \in Begun \ Asked : Kept(j) => Kept(j)',
           \A j \in Begun : plan[j].dst = i /\ journal[i][j] = "activating" => Landed' = Landed
    PROVE  Stands(i)'
<1>1. CASE call[i].at = "idle"
  <2>1. call'[i].at = "idle" /\ call'[i].kind = "none"
    BY <1>1 DEF CourseInv, RoleInv, Role, SourcePlace, ResolvePlace, DestinationPlace, RevertPlace
  <2> QED
    BY <2>1 DEF Stands, TakeBack
<1>2. CASE call[i].at # "idle"
  <2> DEFINE m == call[i].mig
  <2>1. m \in Migrations /\ m \in Begun /\ plan'[m] = plan[m] /\ plan[m].src # plan[m].dst
    BY <1>2, CallPlaces DEF Begun
  <2>2. Stands(i) /\ Role(call[i].kind, call[i].at, i, m)
    BY DEF OwnerInv, StandInv, CourseInv, RoleInv
  <2>3. m \in Asked => At(plan[m].src, "source", "await")
    BY Busy DEF OwnerInv
  <2>4. /\ call[i].kind # "destination"
        /\ call[i].at \in TakeBack \cup {"decide"}
        => i = plan[m].src
    BY <2>2 DEF Role, TakeBack, RevertPlace
  <2>5. /\ call[i].kind # "destination"
        /\ call[i].at \in TakeBack \cup {"decide"}
        => m \notin Asked
    BY <2>3, <2>4 DEF At, TakeBack
  <2>6. call[i].at = "decide" => call[i].kind # "destination"
    BY <2>2 DEF Role, DestinationPlace
  <2>7. call[i].at = "refuse" => i = plan[m].dst
    BY <2>2 DEF Role, SourcePlace, ResolvePlace, RevertPlace
  <2>8. call'[i].at = "refuse" => journal'[i][m] = "rolled_back"
    BY <2>1, <2>2, <2>7 DEF Stands
  <2>9. call'[i].at \in {"remote", "commit"} => m \in Landed'
    BY <2>2 DEF Stands
  <2>10. call'[i].at \in TakeBack /\ call'[i].kind # "destination" => Kept(m)'
    BY <2>1, <2>2, <2>5 DEF Stands
  <2>11. call'[i].at = "decide" => /\ call'[i].answer = "activated" => m \in Landed'
                                   /\ NotCommitted(call'[i]) => Kept(m)'
    BY <2>1, <2>2, <2>5, <2>6 DEF Stands
  <2>12. i = plan'[m].dst /\ journal'[i][m] = "activating" => Backed(call[i].saved, i)'
    <3> SUFFICES ASSUME i = plan'[m].dst, journal'[i][m] = "activating"
                 PROVE  Backed(call[i].saved, i)'
      OBVIOUS
    <3>1. journal[i][m] = "activating" /\ Landed' = Landed
      BY <2>1
    <3>2. Backed(call[i].saved, i)
      BY <1>2, <2>1, <2>2, <3>1 DEF Stands
    <3>3. \A j \in Landed : plan'[j] = plan[j]
      BY Plans
    <3>4. call'[i].saved = call[i].saved
      OBVIOUS
    <3> QED
      BY <3>1, <3>2, <3>3, <3>4 DEF Backed
  <2>13. /\ call'[i].kind = "destination"
         /\ call'[i].at \in {"spawn", "running", "consume", "confirm"}
         => Claiming(reg[i], i, m)'
    BY <2>1, <2>2 DEF Stands, Claiming
  <2>14. call'[i].at \in {"commit", "journalAbort"} => reg'[i].owner # i
    BY <2>2 DEF Stands
  <2> QED
    BY <2>8, <2>9, <2>10, <2>11, <2>12, <2>13, <2>14 DEF Stands
<1> QED
  BY <1>1, <1>2

LEMMA IdleStands ==
    ASSUME NEW n \in Nodes, call'[n].at = "idle", call'[n].kind = "none"
    PROVE  Stands(n)'
  BY DEF Stands, TakeBack

(* A call that goes on while the outcomes stay. *)
LEMMA MoveStands ==
    ASSUME TypeOK, WriteAheadInv, CourseInv, OwnerInv, NEW n \in Nodes, NEW p,
           SameView, Moves(n, p), call[n].at # "idle",
           p \notin {"idle", "refuse", "decide"},
           p \in {"remote", "commit"} => call[n].mig \in Landed,
           p \in TakeBack /\ call[n].kind # "destination" => Kept(call[n].mig),
           /\ p \in {"spawn", "running", "consume", "confirm"}
           /\ call[n].kind = "destination"
           => Claiming(reg'[n], n, call[n].mig),
           p \in {"commit", "journalAbort"} => reg'[n].owner # n
    PROVE  Stands(n)'
<1> DEFINE m == call[n].mig
<1>1. m \in Migrations /\ m \in Begun
  BY CallPlaces DEF Begun
<1>2. call'[n].at = p /\ call'[n].kind = call[n].kind /\ call'[n].mig = m /\ call'[n].saved = call[n].saved
  BY DEF Moves
<1>3. n = plan'[m].dst /\ journal'[n][m] = "activating" => Backed(call[n].saved, n)'
  <2> SUFFICES ASSUME n = plan'[m].dst, journal'[n][m] = "activating"
               PROVE  Backed(call[n].saved, n)'
    OBVIOUS
  <2>1. n = plan[m].dst /\ journal[n][m] = "activating"
    BY <1>1 DEF SameView
  <2>2. Backed(call[n].saved, n)
    BY <2>1 DEF OwnerInv, StandInv, Stands
  <2>3. call'[n].saved = call[n].saved
    BY <1>2
  <2> QED
    BY <2>2, <2>3, SameViewMeans
<1>4. p \in {"remote", "commit"} => m \in Landed'
  BY SameViewMeans
<1>5. p \in TakeBack /\ call[n].kind # "destination" => Kept(m)'
  BY <1>1, <1>2, SameViewMeans
<1>6. p \in {"spawn", "running", "consume", "confirm"} /\ call[n].kind = "destination"
         => Claiming(reg[n], n, m)'
  BY <1>2, SameViewMeans
<1> QED
  BY <1>2, <1>3, <1>4, <1>5, <1>6 DEF Stands

(* A step of node n that leaves the outcomes. *)
LEMMA ViewStep ==
    ASSUME TypeOK, WriteAheadInv, CourseInv, OwnerInv, NEW n \in Nodes,
           SameView, Elsewhere(n), UNCHANGED original, Truthful,
           \A i \in Nodes : i # n => reg'[i] = reg[i],
           Fits(reg'[n], n), Stands(n)'
    PROVE  OwnerInv'
<1>1. FitInv'
  <2>1. \A i \in Nodes : Fits(reg'[i], i)
    BY DEF OwnerInv, FitInv
  <2> QED
    BY <2>1, SameViewMeans DEF FitInv
<1>2. OrderInv'
  BY SameViewMeans DEF OwnerInv, OrderInv, SameView
<1>3. OriginInv'
  <2> SUFFICES ASSUME NEW m \in Open
               PROVE  /\ Proper(original[plan[m].src][m])'
                      /\ original[plan[m].src][m].owner = plan[m].src
                      /\ original[plan[m].src][m].gen + 1 = plan[m].gen
                      /\ journal'[plan[m].dst][m] = "activating"
                            => Backed(original[plan[m].dst][m], plan[m].dst)'
    BY SameViewMeans DEF OriginInv, SameView
  <2>1. m \in Migrations
    BY Plans
  <2> QED
    BY <2>1, SameViewMeans DEF OwnerInv, OriginInv, SameView
<1>4. VerdictInv'
  BY SameViewMeans DEF OwnerInv, VerdictInv, SameView, Terminal, Begun
<1>5. ResponseInv'
  BY SameViewMeans DEF OwnerInv, ResponseInv, Truthful, SameView
<1>6. StandInv'
  <2> SUFFICES ASSUME NEW i \in Nodes PROVE Stands(i)'
    BY DEF StandInv
  <2>1. CASE i = n
    BY <2>1
  <2>2. CASE i # n
    <3>1. call'[i] = call[i] /\ reg'[i] = reg[i]
      BY <2>2 DEF Elsewhere
    <3>2. \A j \in Begun : plan'[j] = plan[j] /\ (plan[j].dst = i => journal'[i][j] = journal[i][j])
      BY Plans DEF SameView
    <3>3. \A j \in Begun : Kept(j) => Kept(j)'
      BY Plans, SameViewMeans
    <3> QED
      BY <3>1, <3>2, <3>3, SameViewMeans, RestStands
  <2> QED
    BY <2>1, <2>2
<1> QED
  BY <1>1, <1>2, <1>3, <1>4, <1>5, <1>6 DEF OwnerInv

(* The source closes its record of the open migration. *)
LEMMA CloseStep ==
    ASSUME TypeOK, WriteAheadInv, CourseInv, OwnerInv, NEW n \in Nodes, NEW m \in Open,
           n = plan[m].src,
           \/ Writes(n, m, "rolled_back") /\ Kept(m)
           \/ Writes(n, m, "activated") /\ m \in Landed /\ reg[n].owner # n,
           Elsewhere(n), UNCHANGED <<reg, original, plan>>, Truthful, Stands(n)'
    PROVE  OwnerInv'
<1>1. /\ \A j \in Migrations : plan[j].src \in Nodes /\ plan[j].dst \in Nodes
      /\ m \in Migrations /\ Begun \subseteq Migrations /\ n # plan[m].dst
      /\ Open \subseteq Begun /\ Landed \subseteq Begun
  BY Plans
<1>2. Begun' = Begun
  BY DEF Begun
<1>3. \A i \in Nodes, j \in Migrations : (i # n \/ j # m) => journal'[i][j] = journal[i][j]
  BY DEF Writes
<1>4. \A j \in Migrations : journal'[plan[j].dst][j] = journal[plan[j].dst][j]
  BY <1>1, <1>3
<1>5. Landed' = Landed
  BY <1>1, <1>2, <1>4 DEF Landed
<1>6. Open' = Open \ {m}
  BY <1>1, <1>2, <1>3 DEF Open, Writes, Terminal
<1>7. \A j \in Migrations : Kept(j)' <=> Kept(j)
  BY <1>4 DEF Kept
<1>8. \A o, g : Held(o, g)' <=> Held(o, g)
  BY <1>5 DEF Held
<1>9. /\ \A e : Proper(e)' <=> Proper(e)
      /\ \A e, i : Backed(e, i)' <=> Backed(e, i)
  BY <1>2, <1>5, <1>8 DEF Proper, Backed
<1>10. FitInv'
  <2> SUFFICES ASSUME NEW i \in Nodes PROVE Fits(reg[i], i)'
    BY DEF FitInv
  <2>1. Fits(reg[i], i)
    BY DEF OwnerInv, FitInv
  <2>2. m \in Landed \/ journal[plan[m].dst][m] # "activating"
    BY DEF Kept
  <2>3. Proper(reg[i]) \/ \E j \in Open' \ Landed : Claiming(reg[i], i, j) /\ journal'[i][j] = "activating"
    BY <1>1, <1>4, <1>6, <2>1, <2>2 DEF Fits, Claiming
  <2>4. m \in Landed /\ i = n => reg[i].owner # i
    BY DEF Kept, Landed
  <2>5. reg[i].owner = i =>
          /\ \A j \in Open' : i \in {plan[j].src, plan[j].dst}
          /\ \A j \in Landed : plan[j].gen <= reg[i].gen \/ (j \in Open' /\ i = plan[j].src)
    BY <1>6, <2>1, <2>4 DEF Fits
  <2>6. \A j \in Landed : i = plan[j].dst =>
          /\ plan[j].gen <= reg[i].gen
          /\ j \in Open' => Claiming(reg[i], i, j)
    BY <1>6, <2>1 DEF Fits
  <2>7. \A j \in Open' \ Landed : i = plan[j].src => reg[i].owner = i /\ reg[i].gen + 1 = plan[j].gen
    BY <1>6, <2>1 DEF Fits
  <2> QED
    BY <1>5, <1>9, <2>3, <2>5, <2>6, <2>7 DEF Fits, Claiming
<1>11. OrderInv'
  BY <1>2, <1>5, <1>6, <1>8 DEF OwnerInv, OrderInv
<1>12. OriginInv'
  BY <1>1, <1>4, <1>6, <1>9 DEF OwnerInv, OriginInv
<1>13. VerdictInv'
  <2> SUFFICES ASSUME NEW j \in Begun
               PROVE  /\ journal'[plan[j].src][j] = "rolled_back" => Kept(j)'
                      /\ journal'[plan[j].src][j] = "activated" => j \in Landed'
    BY <1>2 DEF VerdictInv
  <2>1. CASE j = m
    BY <1>1, <1>5, <1>7, <2>1 DEF Writes
  <2>2. CASE j # m
    BY <1>1, <1>3, <1>5, <1>7, <2>2 DEF OwnerInv, VerdictInv
  <2> QED
    BY <2>1, <2>2
<1>14. ResponseInv'
  BY <1>4, <1>5 DEF OwnerInv, ResponseInv, Truthful
<1>15. StandInv'
  <2> SUFFICES ASSUME NEW i \in Nodes PROVE Stands(i)'
    BY DEF StandInv
  <2>1. CASE i = n
    BY <2>1
  <2>2. CASE i # n
    <3>1. call'[i] = call[i] /\ reg'[i] = reg[i]
      BY <2>2 DEF Elsewhere
    <3>2. \A j \in Begun : plan'[j] = plan[j] /\ (plan[j].dst = i => journal'[i][j] = journal[i][j])
      BY <1>1, <1>4
    <3>3. \A j \in Begun : Kept(j) => Kept(j)'
      BY <1>1, <1>7
    <3> QED
      BY <1>5, <1>9, <3>1, <3>2, <3>3, RestStands
  <2> QED
    BY <2>1, <2>2
<1> QED
  BY <1>10, <1>11, <1>12, <1>13, <1>14, <1>15 DEF OwnerInv

(* The destination closes its record of an activation it has undone. *)
LEMMA RevertStep ==
    ASSUME TypeOK, WriteAheadInv, CourseInv, OwnerInv, NEW n \in Nodes, NEW m \in Open,
           n = plan[m].dst, journal[n][m] = "activating", reg[n].owner # n,
           Writes(n, m, "rolled_back"),
           Elsewhere(n), UNCHANGED <<reg, original, plan>>, Truthful, Stands(n)'
    PROVE  OwnerInv'
<1>1. /\ \A j \in Migrations : plan[j].src \in Nodes /\ plan[j].dst \in Nodes
      /\ m \in Migrations /\ Begun \subseteq Migrations /\ n # plan[m].src
      /\ Open \subseteq Begun /\ Landed \subseteq Begun
  BY Plans
<1>2. Begun' = Begun
  BY DEF Begun
<1>3. /\ \A i \in Nodes, j \in Migrations : (i # n \/ j # m) => journal'[i][j] = journal[i][j]
      /\ journal'[n][m] = "rolled_back"
  BY <1>1 DEF Writes
<1>4. Landed' = Landed
  BY <1>1, <1>2, <1>3 DEF Landed
<1>5. Open' = Open
  BY <1>1, <1>2, <1>3 DEF Open
<1>6. \A j \in Migrations : Kept(j) => Kept(j)'
  BY <1>1, <1>3 DEF Kept
<1>7. \A o, g : Held(o, g)' <=> Held(o, g)
  BY <1>4 DEF Held
<1>8. /\ \A e : Proper(e)' <=> Proper(e)
      /\ \A e, i : Backed(e, i)' <=> Backed(e, i)
  BY <1>2, <1>4, <1>7 DEF Proper, Backed
<1>9. FitInv'
  <2> SUFFICES ASSUME NEW i \in Nodes PROVE Fits(reg[i], i)'
    BY DEF FitInv
  <2>1. Fits(reg[i], i)
    BY DEF OwnerInv, FitInv
  <2>2. \A j \in Open \ Landed : Claiming(reg[i], i, j) => journal'[i][j] = journal[i][j]
    BY <1>1, <1>3 DEF Claiming
  <2> QED
    BY <1>4, <1>5, <1>8, <2>1, <2>2 DEF Fits, Claiming
<1>10. OrderInv'
  BY <1>2, <1>4, <1>5, <1>7 DEF OwnerInv, OrderInv
<1>11. OriginInv'
  BY <1>1, <1>3, <1>5, <1>8 DEF OwnerInv, OriginInv
<1>12. VerdictInv'
  BY <1>1, <1>2, <1>3, <1>4, <1>6 DEF OwnerInv, VerdictInv
<1>13. ResponseInv'
  BY <1>1, <1>3, <1>4 DEF OwnerInv, ResponseInv, Truthful
<1>14. StandInv'
  <2> SUFFICES ASSUME NEW i \in Nodes PROVE Stands(i)'
    BY DEF StandInv
  <2>1. CASE i = n
    BY <2>1
  <2>2. CASE i # n
    <3>1. call'[i] = call[i] /\ reg'[i] = reg[i]
      BY <2>2 DEF Elsewhere
    <3>2. \A j \in Begun : plan'[j] = plan[j] /\ (plan[j].dst = i => journal'[i][j] = journal[i][j])
      BY <1>1, <1>3, <2>2
    <3>3. \A j \in Begun : Kept(j) => Kept(j)'
      BY <1>1, <1>6
    <3> QED
      BY <1>4, <1>8, <3>1, <3>2, <3>3, RestStands
  <2> QED
    BY <2>1, <2>2
<1> QED
  BY <1>9, <1>10, <1>11, <1>12, <1>13, <1>14 DEF OwnerInv

(* A claim is committed: the destination's record becomes activated. *)
LEMMA LandStep ==
    ASSUME TypeOK, WriteAheadInv, CourseInv, OwnerInv, NEW n \in Nodes, NEW m \in Begun,
           Claiming(reg[n], n, m), Writes(n, m, "activated"),
           Elsewhere(n), UNCHANGED <<reg, original, plan>>, Truthful, Stands(n)'
    PROVE  OwnerInv'
<1>1. /\ \A j \in Migrations : plan[j].src \in Nodes /\ plan[j].dst \in Nodes
      /\ m \in Migrations /\ Begun \subseteq Migrations /\ n # plan[m].src /\ n = plan[m].dst
      /\ Open \subseteq Begun /\ Landed \subseteq Begun
  BY Plans DEF Claiming
<1>2. Begun' = Begun
  BY DEF Begun
<1>3. /\ \A i \in Nodes, j \in Migrations : (i # n \/ j # m) => journal'[i][j] = journal[i][j]
      /\ journal'[n][m] = "activated"
  BY <1>1 DEF Writes
<1>4. Landed' = Landed \cup {m}
  BY <1>1, <1>2, <1>3 DEF Landed
<1>5. Open' = Open
  BY <1>1, <1>2, <1>3 DEF Open
<1>6. m \in Landed \/ (m \in Open \ Landed /\ journal[n][m] = "activating")
  BY <1>1, ClaimIs DEF OwnerInv
<1>7. \A j \in Migrations : Kept(j) => Kept(j)'
  BY <1>1, <1>3, <1>6 DEF Kept, Landed
<1>8. \A o, g : Held(o, g) => Held(o, g)'
  BY <1>4 DEF Held
<1>9. \A e : Proper(e) => Proper(e)'
  BY <1>2, <1>4, <1>8 DEF Proper
<1>10. m \notin Landed =>
         /\ \A j \in Open : j = m
         /\ \A j \in Begun : plan[j].gen <= plan[m].gen
         /\ \A j \in Landed : plan[j].gen < plan[m].gen
  BY <1>6 DEF OwnerInv, OrderInv
<1>11. FitInv'
  <2> SUFFICES ASSUME NEW i \in Nodes PROVE Fits(reg[i], i)'
    BY DEF FitInv
  <2>1. Fits(reg[i], i)
    BY DEF OwnerInv, FitInv
  <2>2. Proper(reg[i])' \/ \E j \in Open' \ Landed' : Claiming(reg[i], i, j)' /\ journal'[i][j] = "activating"
    <3>1. CASE Proper(reg[i])
      BY <1>9, <3>1
    <3>2. ASSUME NEW j \in Open \ Landed, Claiming(reg[i], i, j), journal[i][j] = "activating"
          PROVE  Proper(reg[i])' \/ \E k \in Open' \ Landed' : Claiming(reg[i], i, k)' /\ journal'[i][k] = "activating"
      <4>1. CASE j = m
        BY <1>1, <1>2, <1>4, <3>2, <4>1 DEF Proper, Claiming, Held
      <4>2. CASE j # m
        BY <1>1, <1>3, <1>4, <1>5, <3>2, <4>2 DEF Claiming
      <4> QED
        BY <4>1, <4>2
    <3> QED
      BY <2>1, <3>1, <3>2 DEF Fits
  <2>3. reg[i].owner = i =>
          /\ \A j \in Open : i \in {plan[j].src, plan[j].dst}
          /\ \A j \in Landed' : plan[j].gen <= reg[i].gen \/ (j \in Open /\ i = plan[j].src)
    <3> SUFFICES ASSUME reg[i].owner = i, m \notin Landed
                 PROVE  plan[m].gen <= reg[i].gen \/ (m \in Open /\ i = plan[m].src)
      BY <1>4, <2>1 DEF Fits
    <3>1. i \in {plan[m].src, plan[m].dst}
      BY <1>6, <2>1 DEF Fits
    <3>2. plan[m].gen \in Nat
      BY <1>1, Plans
    <3> QED
      BY <1>1, <1>6, <3>1, <3>2 DEF Claiming
  <2>4. \A j \in Landed' : i = plan[j].dst =>
          /\ plan[j].gen <= reg[i].gen
          /\ j \in Open => Claiming(reg[i], i, j)
    <3>1. plan[m].gen <= reg[n].gen
      BY <1>1, Plans DEF Claiming
    <3> QED
      BY <1>1, <1>4, <2>1, <3>1 DEF Fits
  <2>5. \A j \in Open \ Landed' : i = plan[j].src => reg[i].owner = i /\ reg[i].gen + 1 = plan[j].gen
    BY <1>4, <2>1 DEF Fits
  <2> QED
    BY <1>5, <2>2, <2>3, <2>4, <2>5 DEF Fits, Claiming
<1>12. OrderInv'
  <2>1. \A j \in Begun : plan[j].gen > 0 /\ Held(plan[j].src, plan[j].gen - 1)'
    BY <1>8 DEF OwnerInv, OrderInv
  <2>2. \A j, i \in Landed' : plan[j].gen = plan[i].gen => j = i
    <3>1. \A j \in Landed : plan[j].gen = plan[m].gen => j = m
      <4>1. \A j \in Begun : plan[j].gen \in Nat
        BY Plans
      <4>2. CASE m \in Landed
        BY <4>2 DEF OwnerInv, OrderInv
      <4>3. CASE m \notin Landed
        BY <1>1, <1>10, <4>1, <4>3
      <4> QED
        BY <4>2, <4>3
    <3> QED
      BY <1>4, <3>1 DEF OwnerInv, OrderInv
  <2>3. \A j \in Open : /\ \A i \in Begun : plan[i].gen <= plan[j].gen
                        /\ \A i \in Landed' : i # j => plan[i].gen < plan[j].gen
                        /\ \A i \in Open : i = j
    BY <1>4, <1>6, <1>10 DEF OwnerInv, OrderInv
  <2> QED
    BY <1>2, <1>5, <2>1, <2>2, <2>3 DEF OrderInv
<1>13. OriginInv'
  <2> SUFFICES ASSUME NEW j \in Open
               PROVE  /\ Proper(original[plan[j].src][j])'
                      /\ original[plan[j].src][j].owner = plan[j].src
                      /\ original[plan[j].src][j].gen + 1 = plan[j].gen
                      /\ journal'[plan[j].dst][j] = "activating"
                            => Backed(original[plan[j].dst][j], plan[j].dst)'
    BY <1>5 DEF OriginInv
  <2>1. journal'[plan[j].dst][j] = "activating"
          => Backed(original[plan[j].dst][j], plan[j].dst) /\ Landed' = Landed
    BY <1>1, <1>3, <1>4, <1>6, <1>10 DEF OwnerInv, OriginInv
  <2>2. journal'[plan[j].dst][j] = "activating" => Backed(original[plan[j].dst][j], plan[j].dst)'
    BY <1>9, <2>1 DEF Backed
  <2> QED
    BY <1>9, <2>2 DEF OwnerInv, OriginInv
<1>14. VerdictInv'
  BY <1>1, <1>2, <1>3, <1>4, <1>7 DEF OwnerInv, VerdictInv
<1>15. ResponseInv'
  <2> SUFFICES ASSUME NEW j \in Migrations, NEW k \in 0 .. MaxAttempts
               PROVE  /\ <<j, k, TRUE>> \in responses' => j \in Landed'
                      /\ <<j, k, FALSE>> \in responses' => journal'[plan[j].dst][j] = "rolled_back"
    BY DEF ResponseInv
  <2>1. journal[plan[j].dst][j] = "rolled_back" => journal'[plan[j].dst][j] = "rolled_back"
    BY <1>1, <1>3, <1>6 DEF Landed
  <2> QED
    BY <1>4, <2>1 DEF OwnerInv, ResponseInv, Truthful
<1>16. StandInv'
  <2> SUFFICES ASSUME NEW i \in Nodes PROVE Stands(i)'
    BY DEF StandInv
  <2>1. CASE i = n
    BY <2>1
  <2>2. CASE i # n
    <3>1. call'[i] = call[i] /\ reg'[i] = reg[i]
      BY <2>2 DEF Elsewhere
    <3>2. \A j \in Begun : plan'[j] = plan[j] /\ (plan[j].dst = i => journal'[i][j] = journal[i][j])
      BY <1>1, <1>3, <2>2
    <3>3. \A j \in Begun : Kept(j) => Kept(j)'
      BY <1>1, <1>7
    <3>4. \A j \in Begun : plan[j].dst = i /\ journal[i][j] = "activating" => Landed' = Landed
      <4>1. \A j \in Begun : plan[j].dst = i /\ journal[i][j] = "activating" => j \in Open
        BY <1>1, Busy DEF OwnerInv, Terminal
      <4> QED
        BY <1>1, <1>4, <1>10, <2>2, <4>1
    <3> QED
      BY <1>4, <1>9, <3>1, <3>2, <3>3, <3>4, RestStands
  <2> QED
    BY <2>1, <2>2
<1> QED
  BY <1>11, <1>12, <1>13, <1>14, <1>15, <1>16 DEF OwnerInv

(* A requested activation begins. *)
LEMMA ServeStep ==
    ASSUME TypeOK, WriteAheadInv, CourseInv, OwnerInv, NEW n \in Nodes, NEW m \in Asked,
           n = plan[m].dst, ~Claiming(reg[n], n, m), journal[n][m] # "rolled_back",
           Writes(n, m, "activating"),
           \A i \in Nodes, j \in Migrations : original'[i][j] =
               IF i = n /\ j = m /\ journal[n][m] = "none" THEN reg[n] ELSE original[i][j],
           Elsewhere(n), call'[n].mig = m, call'[n].at = "begin", call'[n].kind = "destination",
           call'[n].saved = reg[n],
           UNCHANGED <<reg, plan, responses>>
    PROVE  OwnerInv'
<1>1. /\ \A j \in Migrations : plan[j].src \in Nodes /\ plan[j].dst \in Nodes
      /\ m \in Migrations /\ Begun \subseteq Migrations
      /\ Open \subseteq Begun /\ Landed \subseteq Begun
  BY Plans DEF Asked
<1>2. m \in Open /\ n # plan[m].src
  BY <1>1, Busy, Plans DEF OwnerInv
<1>3. m \notin Landed
  BY <1>2 DEF OwnerInv, FitInv, Fits
<1>4. Begun' = Begun
  BY DEF Begun
<1>5. /\ \A i \in Nodes, j \in Migrations : (i # n \/ j # m) => journal'[i][j] = journal[i][j]
      /\ journal'[n][m] = "activating"
  BY <1>1 DEF Writes
<1>6. Landed' = Landed
  BY <1>1, <1>3, <1>4, <1>5 DEF Landed
<1>7. Open' = Open
  BY <1>1, <1>2, <1>4, <1>5 DEF Open
<1>8. \A j \in Migrations \ {m} : Kept(j) => Kept(j)'
  BY <1>1, <1>5 DEF Kept
<1>9. \A o, g : Held(o, g)' <=> Held(o, g)
  BY <1>6 DEF Held
<1>10. /\ \A e : Proper(e)' <=> Proper(e)
       /\ \A e, i : Backed(e, i)' <=> Backed(e, i)
  BY <1>4, <1>6, <1>9 DEF Proper, Backed
<1>11. Backed(reg[n], n)
  BY <1>2, <1>3, BackedBegins
<1>12. FitInv'
  <2> SUFFICES ASSUME NEW i \in Nodes PROVE Fits(reg[i], i)'
    BY DEF FitInv
  <2>1. Fits(reg[i], i)
    BY DEF OwnerInv, FitInv
  <2>2. \A j \in Open \ Landed : journal[i][j] = "activating" => journal'[i][j] = "activating"
    BY <1>1, <1>5
  <2> QED
    BY <1>6, <1>7, <1>10, <2>1, <2>2 DEF Fits, Claiming
<1>13. OrderInv'
  BY <1>4, <1>6, <1>7, <1>9 DEF OwnerInv, OrderInv
<1>14. OriginInv'
  <2> SUFFICES ASSUME NEW j \in Open
               PROVE  /\ Proper(original'[plan[j].src][j])
                      /\ original'[plan[j].src][j].owner = plan[j].src
                      /\ original'[plan[j].src][j].gen + 1 = plan[j].gen
                      /\ journal'[plan[j].dst][j] = "activating"
                            => Backed(original'[plan[j].dst][j], plan[j].dst)
    BY <1>7, <1>10 DEF OriginInv
  <2>1. j = m
    BY <1>2 DEF OwnerInv, OrderInv
  <2>2. original'[plan[j].src][j] = original[plan[j].src][j]
    BY <1>1, <1>2, <2>1
  <2>3. Backed(original'[n][m], n)
    <3>1. CASE journal[n][m] = "none"
      BY <1>1, <1>11, <3>1
    <3>2. CASE journal[n][m] # "none"
      <4>1. journal[n][m] = "activating"
        <5>1. journal[n][m] # "activated"
          BY <1>1, <1>2, <1>3 DEF Landed
        <5> QED
          BY <1>1, <1>2, <3>2, <5>1, Busy DEF OwnerInv, Terminal
      <4>2. original'[n][m] = original[n][m]
        BY <1>1, <3>2
      <4> QED
        BY <1>2, <4>1, <4>2 DEF OwnerInv, OriginInv
    <3> QED
      BY <3>1, <3>2
  <2> QED
    BY <2>1, <2>2, <2>3 DEF OwnerInv, OriginInv
<1>15. VerdictInv'
  <2> SUFFICES ASSUME NEW j \in Begun
               PROVE  /\ journal'[plan[j].src][j] = "rolled_back" => Kept(j)'
                      /\ journal'[plan[j].src][j] = "activated" => j \in Landed'
    BY <1>4 DEF VerdictInv
  <2>1. journal'[plan[j].src][j] = journal[plan[j].src][j]
    BY <1>1, <1>2, <1>5
  <2>2. CASE j = m
    BY <1>2, <2>1, <2>2 DEF Open, Terminal
  <2>3. CASE j # m
    BY <1>1, <1>6, <1>8, <2>1, <2>3 DEF OwnerInv, VerdictInv
  <2> QED
    BY <2>2, <2>3
<1>16. ResponseInv'
  BY <1>1, <1>5, <1>6 DEF OwnerInv, ResponseInv
<1>17. StandInv'
  <2> SUFFICES ASSUME NEW i \in Nodes PROVE Stands(i)'
    BY DEF StandInv
  <2>1. CASE i = n
    <3>1. Backed(call[n].saved, n)'
      BY <1>10, <1>11
    <3> QED
      BY <2>1, <3>1 DEF Stands, TakeBack
  <2>2. CASE i # n
    <3>1. call'[i] = call[i] /\ reg'[i] = reg[i]
      BY <2>2 DEF Elsewhere
    <3>2. \A j \in Begun : plan'[j] = plan[j] /\ (plan[j].dst = i => journal'[i][j] = journal[i][j])
      BY <1>1, <1>5, <2>2
    <3>3. \A j \in Begun \ Asked : Kept(j) => Kept(j)'
      BY <1>1, <1>8
    <3> QED
      BY <1>6, <1>10, <3>1, <3>2, <3>3, RestStands
  <2> QED
    BY <2>1, <2>2
<1> QED
  BY <1>12, <1>13, <1>14, <1>15, <1>16, <1>17 DEF OwnerInv

(* A migration begins. *)
LEMMA PlanStep ==
    ASSUME TypeOK, WriteAheadInv, CourseInv, OwnerInv, NEW n \in Nodes, NEW d \in Nodes,
           NEW m \in Migrations, plan[m] = NoPlan, d # n, ~Undecided(n), reg[n].owner = n,
           plan'[m] # NoPlan, plan'[m].src = n, plan'[m].dst = d, plan'[m].gen = reg[n].gen + 1,
           \A j \in Migrations : j # m => plan'[j] = plan[j],
           Writes(n, m, "preparing"),
           \A i \in Nodes, j \in Migrations : original'[i][j] =
               IF i = n /\ j = m THEN reg[n] ELSE original[i][j],
           Elsewhere(n), call'[n].kind = "source", call'[n].at = "prefetch", call'[n].mig = m,
           UNCHANGED <<reg, responses>>
    PROVE  OwnerInv'
<1>1. /\ \A j \in Migrations : plan[j].src \in Nodes /\ plan[j].dst \in Nodes
      /\ \A j \in Begun : plan[j].gen \in Nat
      /\ Begun \subseteq Migrations
      /\ Open \subseteq Begun /\ Landed \subseteq Begun
      /\ m \notin Begun
  BY Plans DEF Begun
<1>2. Begun' = Begun \cup {m}
  BY DEF Begun
<1>3. /\ \A i \in Nodes, j \in Migrations : (i # n \/ j # m) => journal'[i][j] = journal[i][j]
      /\ journal'[n][m] = "preparing"
      /\ \A i \in Nodes : journal[i][m] = "none"
  BY DEF Writes, WriteAheadInv, PlanInv
<1>4. Landed' = Landed
  <2>1. \A j \in Begun' : j \in Landed' <=> j \in Landed
    <3> SUFFICES ASSUME NEW j \in Begun' PROVE j \in Landed' <=> j \in Landed
      OBVIOUS
    <3>1. CASE j = m
      BY <1>1, <1>3, <3>1 DEF Landed
    <3>2. CASE j # m
      BY <1>1, <1>2, <1>3, <3>2 DEF Landed
    <3> QED
      BY <3>1, <3>2
  <2> QED
    BY <1>1, <1>2, <2>1 DEF Landed
<1>5. Open = {}
  <2>1. Fits(reg[n], n)
    BY DEF OwnerInv, FitInv
  <2>2. \A j \in Open : FALSE
    BY <2>1, <1>1 DEF Fits, Undecided, Open, Begun
  <2> QED
    BY <2>2
<1>6. Open' = {m}
  <2>1. \A j \in Begun : j \notin Open'
    <3> SUFFICES ASSUME NEW j \in Begun PROVE j \notin Open'
      OBVIOUS
    <3>1. j # m /\ j \in Migrations /\ plan'[j] = plan[j]
      BY <1>1
    <3>2. journal'[plan[j].src][j] = journal[plan[j].src][j]
      BY <1>1, <1>3, <3>1
    <3> QED
      BY <1>5, <3>1, <3>2 DEF Open
  <2>2. m \in Open'
    BY <1>2, <1>3 DEF Open, Terminal
  <2> QED
    BY <1>2, <2>1, <2>2 DEF Open
<1>7. \A j \in Migrations \ {m} : Kept(j) => Kept(j)'
  BY <1>1, <1>3 DEF Kept
<1>8. \A j \in Begun : plan'[j] = plan[j]
  BY <1>1
<1>9. \A o, g : Held(o, g)' <=> Held(o, g)
  BY <1>1, <1>4, <1>8 DEF Held
<1>10. \A e : Proper(e) => Proper(e)'
  BY <1>1, <1>2, <1>4, <1>8, <1>9 DEF Proper
<1>11. \A i \in Nodes : Fits(reg[i], i) /\ Proper(reg[i]) /\ reg[i].gen \in Nat
  BY <1>5 DEF OwnerInv, FitInv, Fits, TypeOK, Entry
<1>12. \A j \in Landed : plan[j].gen <= reg[n].gen
  BY <1>5, <1>11 DEF Fits
<1>13. FitInv'
  <2> SUFFICES ASSUME NEW i \in Nodes PROVE Fits(reg[i], i)'
    BY DEF FitInv
  <2>1. Proper(reg[i])'
    BY <1>10, <1>11
  <2>2. ASSUME reg[i].owner = i
        PROVE  i = n /\ \A j \in Landed : plan[j].gen <= reg[i].gen
    <3>1. \A j \in Landed : plan[j].gen <= reg[i].gen
      BY <1>5, <1>11, <2>2 DEF Fits
    <3>2. Held(i, reg[i].gen) /\ Held(n, reg[n].gen)
      BY <1>11, <2>2 DEF Proper
    <3> QED
      BY <1>12, <3>1, <3>2, Highest DEF OwnerInv
  <2>3. \A j \in Landed : i = plan[j].dst => plan[j].gen <= reg[i].gen
    BY <1>11 DEF Fits
  <2> QED
    BY <1>1, <1>4, <1>6, <1>8, <2>1, <2>2, <2>3 DEF Fits
<1>14. \A j \in Begun : plan[j].gen > 0 /\ Held(plan[j].src, plan[j].gen - 1)
  BY DEF OwnerInv, OrderInv
<1>15. OrderInv'
  <2>1. Held(n, reg[n].gen)
    BY <1>11 DEF Proper
  <2>2. plan'[m].gen > 0 /\ plan'[m].gen - 1 = reg[n].gen
    BY <1>11
  <2>3. \A j \in Begun : plan[j].gen <= plan'[m].gen
    <3> SUFFICES ASSUME NEW j \in Begun PROVE plan[j].gen <= plan'[m].gen
      OBVIOUS
    <3>1. plan[j].gen - 1 <= reg[n].gen
      BY <1>1, <1>11, <1>12, <1>14 DEF Held
    <3> QED
      BY <1>1, <1>11, <3>1
  <2>4. \A j \in Landed : plan[j].gen < plan'[m].gen
    BY <1>1, <1>11, <1>12
  <2>5. \A j \in Begun' : plan'[j].gen > 0 /\ Held(plan'[j].src, plan'[j].gen - 1)
    <3> SUFFICES ASSUME NEW j \in Begun'
                 PROVE  plan'[j].gen > 0 /\ Held(plan'[j].src, plan'[j].gen - 1)
      OBVIOUS
    <3>1. CASE j = m
      BY <2>1, <2>2, <3>1
    <3>2. CASE j # m
      BY <1>2, <1>8, <1>14, <3>2
    <3> QED
      BY <3>1, <3>2
  <2>6. \A j, i \in Landed : plan'[j].gen = plan'[i].gen => j = i
    BY <1>1, <1>8 DEF OwnerInv, OrderInv
  <2>7. /\ \A i \in Begun' : plan'[i].gen <= plan'[m].gen
        /\ \A i \in Landed : i # m => plan'[i].gen < plan'[m].gen
    BY <1>1, <1>2, <1>8, <1>11, <2>3, <2>4
  <2> QED
    BY <1>4, <1>6, <1>9, <2>5, <2>6, <2>7 DEF OrderInv
<1>16. OriginInv'
  <2>1. original'[n][m] = reg[n]
    OBVIOUS
  <2>2. journal'[d][m] = "none"
    BY <1>3
  <2>3. Proper(original[n][m])'
    BY <1>10, <1>11, <2>1
  <2> QED
    BY <1>6, <2>1, <2>2, <2>3 DEF OriginInv
<1>17. VerdictInv'
  <2> SUFFICES ASSUME NEW j \in Begun'
               PROVE  /\ journal'[plan'[j].src][j] = "rolled_back" => Kept(j)'
                      /\ journal'[plan'[j].src][j] = "activated" => j \in Landed
    BY <1>4 DEF VerdictInv
  <2>1. CASE j = m
    BY <1>3, <2>1
  <2>2. CASE j # m
    <3>1. j \in Begun /\ plan'[j] = plan[j] /\ journal'[plan[j].src][j] = journal[plan[j].src][j]
      BY <1>1, <1>2, <1>3, <2>2
    <3> QED
      BY <1>1, <1>7, <2>2, <3>1 DEF OwnerInv, VerdictInv
  <2> QED
    BY <2>1, <2>2
<1>18. ResponseInv'
  <2> SUFFICES ASSUME NEW j \in Migrations, NEW k \in 0 .. MaxAttempts, NEW ok \in BOOLEAN,
                      <<j, k, ok>> \in responses
               PROVE  IF ok THEN j \in Landed' ELSE journal'[plan'[j].dst][j] = "rolled_back"
    BY DEF ResponseInv
  <2>1. At(plan[j].src, "source", "await") /\ call[plan[j].src].mig = j
    BY DEF CourseInv, ClientInv, ResponseOrder, Awaits
  <2>2. j # m
    BY <1>1, <1>3, <2>1 DEF At, WriteAheadInv, CallInv
  <2>3. plan'[j] = plan[j] /\ journal'[plan[j].dst][j] = journal[plan[j].dst][j]
    BY <1>1, <1>3, <2>2
  <2>4. CASE ok = TRUE
    BY <1>4, <2>4 DEF OwnerInv, ResponseInv
  <2>5. CASE ok = FALSE
    BY <2>3, <2>5 DEF OwnerInv, ResponseInv
  <2> QED
    BY <2>4, <2>5
<1>19. StandInv'
  <2> SUFFICES ASSUME NEW i \in Nodes PROVE Stands(i)'
    BY DEF StandInv
  <2>1. CASE i = n
    BY <2>1 DEF Stands, TakeBack
  <2>2. CASE i # n
    <3>1. call'[i] = call[i] /\ reg'[i] = reg[i]
      BY <2>2 DEF Elsewhere
    <3>2. \A j \in Begun : plan'[j] = plan[j] /\ (plan[j].dst = i => journal'[i][j] = journal[i][j])
      BY <1>1, <1>3, <2>2
    <3>3. \A j \in Begun : Kept(j) => Kept(j)'
      BY <1>1, <1>7
    <3> QED
      BY <1>4, <1>10, <3>1, <3>2, <3>3, RestStands
  <2> QED
    BY <2>1, <2>2
<1> QED
  BY <1>13, <1>15, <1>16, <1>17, <1>18, <1>19 DEF OwnerInv

-------------------------------------------------------------------------------
(* The usual steps. *)

(* The registries change, if at all, in what ownership does not depend on. *)
Keeps(n) ==
    /\ \A i \in Nodes : i # n => reg'[i] = reg[i]
    /\ reg'[n].owner = reg[n].owner
    /\ reg'[n].gen = reg[n].gen
    /\ reg'[n].last = reg[n].last

LEMMA EntriesKeep ==
    ASSUME NEW e \in Entry
    PROVE  \A f \in {MarkFailed(e), BeginRecovery(e), MarkExhausted(e), MarkCompleted(e),
                     MarkStopped(e)} \cup {MarkRunning(e, p) : p \in Pids \cup {NoPid}} :
              f.owner = e.owner /\ f.gen = e.gen /\ f.last = e.last
<1>1. ASSUME NEW p \in Pids \cup {NoPid}
      PROVE  /\ MarkRunning(e, p).owner = e.owner
             /\ MarkRunning(e, p).gen = e.gen
             /\ MarkRunning(e, p).last = e.last
  BY DEF MarkRunning, Entry
<1>2. ASSUME NEW f \in {MarkFailed(e), BeginRecovery(e), MarkExhausted(e), MarkCompleted(e),
                        MarkStopped(e)}
      PROVE  f.owner = e.owner /\ f.gen = e.gen /\ f.last = e.last
  BY DEF MarkFailed, BeginRecovery, MarkExhausted, MarkCompleted, MarkStopped, Entry
<1> QED
  BY <1>1, <1>2

LEMMA WriteKeeps ==
    ASSUME TypeOK, NEW n \in Nodes,
           \/ UNCHANGED reg
           \/ \E f \in {reg[n], MarkFailed(reg[n]), BeginRecovery(reg[n]), MarkExhausted(reg[n]),
                        MarkCompleted(reg[n]), MarkStopped(reg[n])}
                 \cup {MarkRunning(reg[n], p) : p \in Pids \cup {NoPid}} : Write(n, f)
    PROVE  Keeps(n)
<1>1. reg[n] \in Entry
  BY DEF TypeOK
<1>2. ASSUME NEW f, Write(n, f), f.owner = reg[n].owner, f.gen = reg[n].gen, f.last = reg[n].last
      PROVE  Keeps(n)
  BY <1>2 DEF Write, Keeps, TypeOK
<1>3. CASE UNCHANGED reg
  BY <1>3 DEF Keeps
<1>4. ASSUME NEW f \in {reg[n], MarkFailed(reg[n]), BeginRecovery(reg[n]), MarkExhausted(reg[n]),
                        MarkCompleted(reg[n]), MarkStopped(reg[n])}
                 \cup {MarkRunning(reg[n], p) : p \in Pids \cup {NoPid}}, Write(n, f)
      PROVE  Keeps(n)
  <2>1. f.owner = reg[n].owner /\ f.gen = reg[n].gen /\ f.last = reg[n].last
    BY <1>1, EntriesKeep
  <2> QED
    BY <1>2, <1>4, <2>1
<1> QED
  BY <1>3, <1>4

LEMMA SameRecords ==
    ASSUME UNCHANGED <<journal, plan>>
    PROVE  SameView
  BY DEF SameView

(* The source writes that it goes on. *)
LEMMA GoesOnView ==
    ASSUME TypeOK, WriteAheadInv, NEW n \in Nodes, NEW m \in Open, n = plan[m].src,
           NEW w, w \notin Terminal, Writes(n, m, w), UNCHANGED plan
    PROVE  SameView
<1>1. /\ \A j \in Migrations : plan[j].src \in Nodes /\ plan[j].dst \in Nodes
      /\ m \in Migrations /\ Begun \subseteq Migrations /\ n # plan[m].dst
  BY Plans
<1>2. journal[n][m] \notin Terminal
  BY DEF Open
<1>3. \A j \in Migrations : journal'[plan[j].dst][j] = journal[plan[j].dst][j]
  BY <1>1 DEF Writes
<1>4. ASSUME NEW j \in Begun, NEW v \in Terminal
      PROVE  journal'[plan[j].src][j] = v <=> journal[plan[j].src][j] = v
  <2>1. CASE j = m
    BY <1>1, <1>2, <2>1 DEF Writes
  <2>2. CASE j # m
    BY <1>1, <2>2 DEF Writes
  <2> QED
    BY <2>1, <2>2
<1> QED
  BY <1>3, <1>4 DEF SameView

LEMMA FewerResponses ==
    ASSUME responses' \subseteq responses
    PROVE  Truthful
  BY DEF Truthful

(* The call of a source at a place where it relies on nothing. *)
LEMMA SourceStands ==
    ASSUME NEW n \in Nodes, n = plan'[call'[n].mig].src,
           plan'[call'[n].mig].src # plan'[call'[n].mig].dst,
           call'[n].kind # "destination",
           call'[n].at \notin TakeBack \cup {"refuse", "remote", "commit", "decide", "journalAbort"}
    PROVE  Stands(n)'
  BY DEF Stands

(* A step that leaves the outcomes, the calls and what ownership depends on. *)
LEMMA StillStep ==
    ASSUME TypeOK, WriteAheadInv, CourseInv, OwnerInv, NEW n \in Nodes,
           SameView, UNCHANGED original, Truthful, call' = call,
           \A i \in Nodes : i # n => reg'[i] = reg[i],
           Fits(reg'[n], n), reg'[n].owner = n => reg[n].owner = n,
           \A m \in Open : Claiming(reg[n], n, m) => Claiming(reg'[n], n, m)
    PROVE  OwnerInv'
<1>1. CASE call[n].at = "idle"
  <2>1. call'[n].at = "idle" /\ call'[n].kind = "none"
    BY <1>1 DEF CourseInv, RoleInv, Role, SourcePlace, ResolvePlace, DestinationPlace, RevertPlace
  <2> QED
    BY <2>1, IdleStands, ViewStep DEF Elsewhere
<1>2. CASE call[n].at # "idle"
  <2> DEFINE m == call[n].mig
  <2>1. m \in Migrations /\ m \in Begun /\ call'[n] = call[n]
    BY <1>2, CallPlaces DEF Begun
  <2>2. Stands(n) /\ Role(call[n].kind, call[n].at, n, m)
    BY DEF OwnerInv, StandInv, CourseInv, RoleInv
  <2>3. n = plan[m].dst => journal'[n][m] = journal[n][m]
    BY <2>1 DEF SameView
  <2>4. call[n].at = "refuse" => n = plan[m].dst
    BY <2>2 DEF Role, SourcePlace, ResolvePlace, RevertPlace
  <2>5. /\ call[n].kind = "destination"
        /\ call[n].at \in {"spawn", "running", "consume", "confirm"}
        => Claiming(reg[n], n, m)'
    <3>1. call[n].at \notin {"idle", "cancel", "refuse"} => m \in Open
      BY Busy DEF OwnerInv
    <3> QED
      BY <2>2, <3>1, SameViewMeans DEF Stands
  <2>6. n = plan'[m].dst /\ journal'[n][m] = "activating" => Backed(call[n].saved, n)'
    BY <1>2, <2>2, <2>3, SameViewMeans DEF Stands, SameView
  <2>7. /\ call[n].at \in {"remote", "commit"} => m \in Landed'
        /\ call[n].at \in TakeBack /\ call[n].kind # "destination" => Kept(m)'
        /\ call[n].at = "decide" => /\ call[n].answer = "activated" => m \in Landed'
                                    /\ NotCommitted(call[n]) => Kept(m)'
    BY <2>1, <2>2, SameViewMeans DEF Stands
  <2>8. call[n].at \in {"commit", "journalAbort"} => reg'[n].owner # n
    BY <2>2 DEF Stands
  <2>9. call[n].at = "refuse" => journal'[n][m] = "rolled_back"
    BY <2>2, <2>3, <2>4 DEF Stands
  <2>10. Stands(n)'
    BY <2>1, <2>5, <2>6, <2>7, <2>8, <2>9 DEF Stands
  <2> QED
    BY <2>10, ViewStep DEF Elsewhere
<1> QED
  BY <1>1, <1>2

LEMMA KeepStep ==
    ASSUME TypeOK, WriteAheadInv, CourseInv, OwnerInv, NEW n \in Nodes,
           SameView, UNCHANGED original, Truthful, call' = call, Keeps(n)
    PROVE  OwnerInv'
<1>1. Fits(reg'[n], n)
  BY FitsLike DEF OwnerInv, FitInv, Keeps
<1>2. \A m \in Open : Claiming(reg[n], n, m) => Claiming(reg'[n], n, m)
  BY DEF Claiming, Keeps
<1> QED
  BY <1>1, <1>2, StillStep DEF Keeps

(* A call that goes on. *)
LEMMA MoveStep ==
    ASSUME TypeOK, WriteAheadInv, CourseInv, OwnerInv, NEW n \in Nodes, NEW p,
           SameView, UNCHANGED original, Truthful, Keeps(n),
           Moves(n, p), call[n].at # "idle", p \notin {"idle", "refuse", "decide", "journalAbort"},
           p \in {"remote", "commit"} => call[n].mig \in Landed,
           p = "commit" => reg[n].owner # n,
           p \in TakeBack /\ call[n].kind # "destination" => Kept(call[n].mig),
           /\ p \in {"spawn", "running", "consume", "confirm"}
           /\ call[n].kind = "destination"
           => call[n].at \in {"spawn", "running", "consume", "confirm"}
    PROVE  OwnerInv'
<1>1. Fits(reg'[n], n)
  BY FitsLike DEF OwnerInv, FitInv, Keeps
<1>2. /\ p \in {"spawn", "running", "consume", "confirm"}
      /\ call[n].kind = "destination"
      => Claiming(reg'[n], n, call[n].mig)
  BY DEF OwnerInv, StandInv, Stands, Claiming, Keeps
<1>3. Stands(n)'
  BY <1>2, MoveStands DEF Keeps
<1> QED
  BY <1>1, <1>3, ViewStep DEF Keeps, Moves

(* A call that ends. *)
LEMMA IdleStep ==
    ASSUME TypeOK, WriteAheadInv, CourseInv, OwnerInv, NEW n \in Nodes,
           SameView, UNCHANGED original, Truthful, Keeps(n), Idles(n)
    PROVE  OwnerInv'
<1>1. Fits(reg'[n], n)
  BY FitsLike DEF OwnerInv, FitInv, Keeps
<1> QED
  BY <1>1, IdleStands, ViewStep DEF Keeps, Idles

(* The calls of the source of the open migration. *)
LEMMA AtSource ==
    ASSUME TypeOK, WriteAheadInv, CourseInv, OwnerInv, NEW n \in Nodes,
           call[n].at \notin {"idle", "cancel", "refuse"},
           \/ call[n].kind = "source"
           \/ call[n].at \in ResolvePlace /\ call[n].kind # "destination"
    PROVE  /\ call[n].mig \in Open
           /\ call[n].mig \in Migrations
           /\ n = plan[call[n].mig].src
           /\ n # plan[call[n].mig].dst
<1>1. call[n].mig \in Open /\ call[n].mig \in Migrations
  BY Busy, Plans DEF OwnerInv
<1>2. plan[call[n].mig].src # plan[call[n].mig].dst
  BY <1>1, Plans
<1>3. n = plan[call[n].mig].src
  BY RoleAt DEF Role, SourcePlace, ResolvePlace, DestinationPlace, RevertPlace
<1> QED
  BY <1>1, <1>2, <1>3

(* The calls of its destination. *)
LEMMA AtDestination ==
    ASSUME TypeOK, WriteAheadInv, CourseInv, OwnerInv, NEW n \in Nodes,
           call[n].at \notin {"idle", "refuse"},
           call[n].kind = "destination" \/ call[n].at \in {"abort", "journalAbort"}
    PROVE  /\ call[n].mig \in Open \ Landed
           /\ call[n].mig \in Migrations
           /\ n = plan[call[n].mig].dst
           /\ journal[n][call[n].mig] = "activating"
           /\ Backed(call[n].saved, n)
<1>1. n = plan[call[n].mig].dst /\ call[n].at # "cancel"
  BY RoleAt DEF Role, SourcePlace, ResolvePlace, DestinationPlace, RevertPlace
<1>2. call[n].mig \in Open /\ call[n].mig \in Migrations
  BY <1>1, Busy, Plans DEF OwnerInv
<1>3. journal[n][call[n].mig] \notin Terminal \cup {"none"}
  BY <1>1 DEF CourseInv, OpenCallInv
<1>4. journal[n][call[n].mig] = "activating"
  BY <1>1, <1>2, <1>3, Busy DEF OwnerInv
<1>5. Backed(call[n].saved, n)
  BY <1>1, <1>4 DEF OwnerInv, StandInv, Stands
<1> QED
  BY <1>1, <1>2, <1>4, <1>5 DEF Landed


-------------------------------------------------------------------------------
(* The actions. *)

LEMMA SourceOwner ==
    ASSUME Orderly, TypeOK, WriteAheadInv, CourseInv, OwnerInv, NEW n \in Nodes, SourceNext(n)
    PROVE  OwnerInv'
<1> DEFINE m == call[n].mig
<1>0. /\ Stands(n) /\ Fits(reg[n], n) /\ reg[n] \in Entry
      /\ VerdictInv /\ ResponseInv /\ OriginInv
  BY DEF OwnerInv, StandInv, FitInv, TypeOK
<1>1. CASE PrefetchDone(n)
  BY <1>1, GoMoves, WriteKeeps, SameRecords, FewerResponses, MoveStep
  DEF PrefetchDone, At, TakeBack, records, network
<1>2. CASE TransferDone(n)
  BY <1>2, GoMoves, WriteKeeps, SameRecords, FewerResponses, MoveStep
  DEF TransferDone, At, TakeBack, records, network
<1>3. CASE TransferFailed(n)
  <2>1. Kept(m)
    BY <1>3 DEF TransferFailed, At, WriteAheadInv, EarlyInv, Early, Kept
  <2> QED
    BY <1>3, <2>1, GoMoves, WriteKeeps, SameRecords, FewerResponses, MoveStep
    DEF TransferFailed, At, TakeBack, records, network
<1>4. CASE PollAgain(n)
  BY <1>4, GoMoves, WriteKeeps, SameRecords, FewerResponses, MoveStep
  DEF PollAgain, At, TakeBack, records, network
<1>5. CASE ResolveActivated(n)
  <2>1. m \in Landed
    BY <1>0, <1>5 DEF ResolveActivated, Stands
  <2> QED
    BY <1>5, <2>1, GoMoves, WriteKeeps, SameRecords, FewerResponses, MoveStep
    DEF ResolveActivated, TakeBack, records, network
<1>6. CASE ResolveNotCommitted(n)
  <2>1. Kept(m)
    BY <1>0, <1>6 DEF ResolveNotCommitted, Stands
  <2> QED
    BY <1>6, <2>1, GoMoves, WriteKeeps, SameRecords, FewerResponses, MoveStep
    DEF ResolveNotCommitted, TakeBack, records, network
<1>7. CASE GiveAway(n)
  <2> DEFINE f == MarkRemote(reg[n], plan[m].dst, plan[m].gen, m)
  <2>1. call[n].at = "remote" /\ Write(n, f) /\ Moves(n, "commit")
    BY <1>7, GoMoves DEF GiveAway
  <2>2. m \in Landed /\ m \in Open /\ n = plan[m].src /\ n # plan[m].dst
    <3>1. call[n].kind # "destination"
      BY <2>1, RoleAt DEF Role, DestinationPlace
    <3> QED
      BY <1>0, <2>1, <3>1, AtSource DEF Stands, ResolvePlace
  <2>3. f.owner = plan[m].dst
    BY <1>0 DEF MarkRemote, Entry
  <2>4. Fits(f, n)
    <3>1. CASE f = reg[n]
      BY <1>0, <3>1
    <3>2. CASE f # reg[n]
      <4>1. f.gen = plan[m].gen /\ f.last = m
        BY <1>0, <3>2 DEF MarkRemote, Entry
      <4> QED
        BY <2>2, <2>3, <4>1, RemoteFits
    <3> QED
      BY <3>1, <3>2
  <2> HIDE DEF f
  <2>5. /\ reg'[n] = f
        /\ \A i \in Nodes : i # n => reg'[i] = reg[i]
    BY <2>1 DEF Write, TypeOK
  <2>6. SameView /\ Truthful /\ UNCHANGED original
    BY <1>7, SameRecords, FewerResponses DEF GiveAway, records, network
  <2>7. Stands(n)'
    BY <2>1, <2>2, <2>3, <2>5, <2>6, MoveStands DEF TakeBack
  <2> QED
    BY <2>1, <2>4, <2>5, <2>6, <2>7, ViewStep DEF Moves
<1>8. CASE UndoSource(n)
  <2> DEFINE o == original[n][m]
             f == RestoreLocal(n, o, Previous(plan[m].gen))
  <2>1. call[n].at = "undo" /\ Write(n, f) /\ Moves(n, "spawn")
    BY <1>8, GoMoves DEF UndoSource
  <2>2. m \in Open /\ n = plan[m].src /\ call[n].kind # "destination" /\ Kept(m)
    <3>1. call[n].kind # "destination"
      BY <2>1, RoleAt DEF Role, DestinationPlace
    <3> QED
      BY <1>0, <2>1, <3>1, AtSource DEF Stands, ResolvePlace, TakeBack
  <2>3. m \in Open \ Landed
    BY <2>2 DEF Landed, Kept
  <2>4. o \in Entry /\ Proper(o) /\ o.owner = n /\ o.gen + 1 = plan[m].gen
    BY <1>0, <2>2, Plans DEF OriginInv, TypeOK
  <2>5. Previous(plan[m].gen) = o.gen
    BY <2>4 DEF Previous, Entry
  <2>6. f.owner = o.owner /\ f.gen = o.gen /\ f.last = o.last
    BY <2>4, <2>5 DEF RestoreLocal, Entry
  <2> HIDE DEF o, f
  <2>7. Proper(f)
    BY <2>4, <2>6 DEF Proper
  <2>8. Fits(f, n)
    BY <2>2, <2>3, <2>4, <2>6, <2>7, SourceFits
  <2>9. /\ reg'[n] = f
        /\ \A i \in Nodes : i # n => reg'[i] = reg[i]
    BY <2>1 DEF Write, TypeOK
  <2>10. SameView /\ Truthful /\ UNCHANGED original
    BY <1>8, SameRecords, FewerResponses DEF UndoSource, records, network
  <2>11. Stands(n)'
    BY <2>1, <2>2, <2>10, MoveStands
  <2> QED
    BY <2>1, <2>8, <2>9, <2>10, <2>11, ViewStep DEF Moves
<1>9. CASE MarkSource(n)
  <2>1. At(n, "source", "mark") /\ m \in Open /\ n = plan[m].src /\ m \in Migrations
    BY <1>9, AtSource DEF MarkSource, At
  <2>2. Kept(m) /\ m \in Open \ Landed
    BY <2>1 DEF At, WriteAheadInv, EarlyInv, Early, Kept, Landed
  <2>3. SameView /\ Truthful /\ UNCHANGED original
    BY <1>9, SameRecords, FewerResponses DEF MarkSource, records, network
  <2>4. CASE CanMigrate(n, reg[n])
    <3> DEFINE f == MarkMigrating(reg[n], m)
    <3>1. Write(n, f) /\ Moves(n, "journalTransfer")
      BY <1>9, <2>4, GoMoves DEF MarkSource
    <3>2. f.owner = reg[n].owner /\ f.gen = reg[n].gen /\ f.last = m
      BY <1>0 DEF MarkMigrating, Entry
    <3> HIDE DEF f
    <3>3. Proper(reg[n]) /\ reg[n].owner = n /\ reg[n].gen + 1 = plan[m].gen
      BY <2>1, <2>2, SourceProper
    <3>4. Proper(f)
      BY <2>1, <3>2, <3>3, Plans DEF Proper
    <3>5. Fits(f, n)
      BY <2>1, <2>2, <3>2, <3>3, <3>4, SourceFits
    <3>6. /\ reg'[n] = f
          /\ \A i \in Nodes : i # n => reg'[i] = reg[i]
      BY <3>1 DEF Write, TypeOK
    <3>7. Stands(n)'
      BY <2>1, <2>3, <3>1, MoveStands DEF TakeBack, At
    <3> QED
      BY <2>3, <3>1, <3>5, <3>6, <3>7, ViewStep DEF Moves
  <2>5. CASE ~CanMigrate(n, reg[n])
    BY <1>9, <2>1, <2>2, <2>3, <2>5, GoMoves, WriteKeeps, MoveStep DEF MarkSource, At
  <2> QED
    BY <2>4, <2>5
<1>10. CASE RestoreSource(n)
  <2> DEFINE f == RestoreLocal(n, reg[n], original[n][m].gen)
  <2>1. /\ At(n, "source", "restore")
        /\ Write(n, f)
        /\ \/ Moves(n, "spawn")
           \/ Moves(n, "journalUndo")
    BY <1>10, GoMoves DEF RestoreSource
  <2>2. m \in Open /\ n = plan[m].src /\ Kept(m)
    BY <1>0, <2>1, AtSource DEF At, Stands, TakeBack
  <2>3. m \in Open \ Landed
    BY <2>2 DEF Landed, Kept
  <2>4. /\ original[n][m].gen \in Nat /\ original[n][m].gen + 1 = plan[m].gen
        /\ reg[n].gen \in Nat /\ reg[n].owner = n /\ reg[n].gen + 1 = plan[m].gen
    <3>1. original[n][m] \in Entry
      BY <2>2, Plans DEF TypeOK
    <3> QED
      BY <1>0, <2>2, <2>3, <3>1, SourceProper DEF OriginInv, Entry
  <2>5. original[n][m].gen = reg[n].gen
    BY <2>4
  <2>6. f.owner = reg[n].owner /\ f.gen = reg[n].gen /\ f.last = reg[n].last
    BY <1>0, <2>4, <2>5 DEF RestoreLocal, Entry
  <2> HIDE DEF f
  <2>7. Keeps(n)
    BY <2>1, <2>6 DEF Write, TypeOK, Keeps
  <2>8. SameView /\ Truthful /\ UNCHANGED original
    BY <1>10, SameRecords, FewerResponses DEF RestoreSource, records, network
  <2> QED
    BY <2>1, <2>2, <2>7, <2>8, MoveStep DEF At
<1>11. CASE PrefetchFailed(n)
  <2>1. At(n, "source", "prefetch") /\ m \in Open /\ m \in Migrations /\ n = plan[m].src /\ n # plan[m].dst
    BY <1>11, AtSource DEF PrefetchFailed, At
  <2>2. Kept(m)
    BY <2>1 DEF At, WriteAheadInv, EarlyInv, Early, Kept
  <2>3. Writes(n, m, "rolled_back") /\ Moves(n, "cancel")
    BY <1>11, <2>1, GoMoves, RecordWrites DEF PrefetchFailed
  <2>4. UNCHANGED <<reg, original, plan>> /\ Truthful
    BY <1>11, FewerResponses DEF PrefetchFailed, network
  <2>5. Stands(n)'
    BY <2>1, <2>3, <2>4, SourceStands DEF Moves, TakeBack, At
  <2> QED
    BY <2>1, <2>2, <2>3, <2>4, <2>5, CloseStep DEF Moves
<1>12. CASE JournalTransfer(n)
  <2>1. At(n, "source", "journalTransfer") /\ m \in Open /\ m \in Migrations /\ n = plan[m].src
    BY <1>12, AtSource DEF JournalTransfer, At
  <2>2. Writes(n, m, "transferring") /\ Moves(n, "kill")
    BY <1>12, <2>1, GoMoves, RecordWrites DEF JournalTransfer
  <2>3. SameView
    BY <1>12, <2>1, <2>2, GoesOnView DEF JournalTransfer, Terminal
  <2> QED
    BY <1>12, <2>1, <2>2, <2>3, WriteKeeps, FewerResponses, MoveStep
    DEF JournalTransfer, At, TakeBack, network
<1>13. CASE CommitSource(n)
  <2>1. call[n].at = "commit" /\ call[n].kind # "destination"
    BY <1>13, RoleAt DEF CommitSource, Role, DestinationPlace
  <2>2. m \in Landed /\ reg[n].owner # n /\ m \in Open /\ m \in Migrations /\ n = plan[m].src
    BY <1>0, <2>1, AtSource DEF Stands, ResolvePlace
  <2>3. Writes(n, m, "activated") /\ Idles(n)
    BY <1>13, <2>2, ReleaseIdles, RecordWrites DEF CommitSource
  <2>4. UNCHANGED <<reg, original, plan>> /\ Truthful
    BY <1>13, FewerResponses DEF CommitSource, network
  <2> QED
    BY <2>2, <2>3, <2>4, IdleStands, CloseStep DEF Idles
<1>14. CASE JournalUndo(n)
  <2>1. call[n].at = "journalUndo" /\ call[n].kind # "destination"
    BY <1>14, RoleAt DEF JournalUndo, Role, DestinationPlace
  <2>2. Kept(m) /\ m \in Open /\ m \in Migrations /\ n = plan[m].src /\ n # plan[m].dst
    BY <1>0, <2>1, AtSource DEF Stands, ResolvePlace, TakeBack
  <2>3. Writes(n, m, "rolled_back")
    BY <1>14, <2>2, RecordWrites DEF JournalUndo
  <2>4. UNCHANGED <<reg, original, plan>> /\ Truthful
    BY <1>14, FewerResponses DEF JournalUndo, network
  <2>5. Elsewhere(n) /\ Stands(n)'
    <3>1. CASE Idles(n)
      BY <3>1, IdleStands DEF Idles
    <3>2. CASE Moves(n, "cancel")
      BY <2>1, <2>2, <2>4, <3>2, SourceStands DEF Moves, TakeBack
    <3> QED
      BY <1>14, <3>1, <3>2, ReleaseIdles, GoMoves DEF JournalUndo
  <2> QED
    BY <2>2, <2>3, <2>4, <2>5, CloseStep
<1>15. CASE CancelReservation(n)
  BY <1>15, ReleaseIdles, WriteKeeps, SameRecords, FewerResponses, IdleStep
  DEF CancelReservation, records, network
<1>16. CASE QueryAnswered(n)
  <2> DEFINE d == [call[n] EXCEPT !.at = "decide", !.reached = TRUE,
                                  !.answer = journal[plan[m].dst][m]]
  <2>1. call[n].at = "query" /\ call[n].kind # "destination" /\ call[n] \in Call
    BY <1>16, RoleAt DEF QueryAnswered, Role, DestinationPlace, TypeOK
  <2>2. m \in Open /\ m \in Migrations /\ n = plan[m].src /\ n # plan[m].dst
    BY <2>1, AtSource DEF ResolvePlace
  <2>3. /\ d.at = "decide" /\ d.answer = journal[plan[m].dst][m]
        /\ d.mig = m /\ d.kind = call[n].kind
    BY <2>1 DEF Call
  <2>4. call' = [call EXCEPT ![n] = d]
    BY <1>16 DEF QueryAnswered
  <2> HIDE DEF d
  <2>5. call'[n] = d /\ Elsewhere(n)
    BY <2>4 DEF Elsewhere, TypeOK
  <2>6. SameView /\ Truthful /\ UNCHANGED <<original, plan, journal>> /\ Keeps(n)
    BY <1>16, SameRecords, FewerResponses, WriteKeeps DEF QueryAnswered, records, network
  <2>7. /\ d.answer = "activated" => m \in Landed
        /\ d.answer \in {"none", "rolled_back"} => Kept(m)
    BY <2>2, <2>3, Plans DEF Landed, Kept
  <2>8. \A j \in Migrations : j = m =>
           /\ d.answer = "activated" => j \in Landed'
           /\ NotCommitted(d) => Kept(j)'
    BY <2>6, <2>7, SameViewMeans DEF NotCommitted
  <2>10. Stands(n)'
    BY <2>2, <2>3, <2>5, <2>6, <2>8 DEF Stands, TakeBack
  <2>9. Fits(reg'[n], n)
    BY <1>0, <2>6, FitsLike DEF Keeps
  <2> QED
    BY <2>5, <2>6, <2>9, <2>10, ViewStep DEF Keeps
<1>17. CASE QueryFails(n)
  <2> DEFINE d == [call[n] EXCEPT !.at = "decide", !.answer = "none"]
  <2>1. /\ call[n].at = "query" /\ call[n].kind # "destination" /\ call[n] \in Call
        /\ ~call[n].reached
    BY <1>17, RoleAt DEF QueryFails, Role, DestinationPlace, TypeOK, Orderly
  <2>2. m \in Open /\ m \in Migrations /\ n = plan[m].src /\ n # plan[m].dst
    BY <2>1, AtSource DEF ResolvePlace
  <2>3. /\ d.at = "decide" /\ d.answer = "none" /\ d.reached = call[n].reached
        /\ d.mig = m /\ d.kind = call[n].kind
    BY <2>1 DEF Call
  <2>4. call' = [call EXCEPT ![n] = d]
    BY <1>17 DEF QueryFails
  <2> HIDE DEF d
  <2>5. call'[n] = d /\ Elsewhere(n)
    BY <2>4 DEF Elsewhere, TypeOK
  <2>6. SameView /\ Truthful /\ UNCHANGED <<original, plan, journal>> /\ Keeps(n)
    BY <1>17, SameRecords, FewerResponses, WriteKeeps DEF QueryFails, records, network
  <2>7. d.answer # "activated" /\ ~NotCommitted(d)
    BY <2>1, <2>3 DEF NotCommitted
  <2>8. Stands(n)'
    BY <2>2, <2>3, <2>5, <2>6, <2>7 DEF Stands, TakeBack, NotCommitted
  <2>9. Fits(reg'[n], n)
    BY <1>0, <2>6, FitsLike DEF Keeps
  <2> QED
    BY <2>5, <2>6, <2>8, <2>9, ViewStep DEF Keeps
<1>18. CASE ResolveUnknown(n)
  <2>1. CASE call[n].kind = "source"
    <3>1. Moves(n, "cancel") /\ Write(n, MarkExhausted(reg[n])) /\ call[n].at = "decide"
      BY <1>18, <2>1, GoMoves DEF ResolveUnknown
    <3>2. Keeps(n)
      BY <3>1, WriteKeeps
    <3>3. SameView /\ Truthful /\ UNCHANGED original
      BY <1>18, <2>1, SameRecords, FewerResponses DEF ResolveUnknown, network
    <3> QED
      BY <3>1, <3>2, <3>3, MoveStep DEF TakeBack
  <2>2. CASE call[n].kind # "source"
    <3>1. call[n].at = "decide" /\ call[n].kind # "destination"
      BY <1>18, RoleAt DEF ResolveUnknown, Role, DestinationPlace
    <3>2. m \in Open /\ m \in Migrations /\ n = plan[m].src
      BY <3>1, AtSource DEF ResolvePlace
    <3>3. Idles(n) /\ Writes(n, m, "uncertain") /\ Keeps(n)
      BY <1>18, <2>2, <3>2, ReleaseIdles, RecordWrites, WriteKeeps DEF ResolveUnknown
    <3>4. SameView
      BY <1>18, <3>2, <3>3, GoesOnView DEF ResolveUnknown, Terminal
    <3> QED
      BY <1>18, <3>3, <3>4, FewerResponses, IdleStep DEF ResolveUnknown, network
  <2> QED
    BY <2>1, <2>2
<1>19. CASE RequestActivation(n)
  <2> DEFINE d == [call[n] EXCEPT !.at = "await", !.attempt = 1]
  <2>1. At(n, "source", "request") /\ call[n] \in Call
    BY <1>19 DEF RequestActivation, TypeOK
  <2>2. m \in Open /\ m \in Migrations /\ n = plan[m].src /\ n # plan[m].dst
    BY <2>1, AtSource DEF At
  <2>3. d.at = "await" /\ d.mig = m /\ d.kind = "source"
    BY <2>1 DEF Call, At
  <2>4. call' = [call EXCEPT ![n] = d]
    BY <1>19 DEF RequestActivation
  <2> HIDE DEF d
  <2>5. call'[n] = d /\ Elsewhere(n)
    BY <2>4 DEF Elsewhere, TypeOK
  <2>6. Writes(n, m, "activating") /\ Keeps(n)
    BY <1>19, <2>2, RecordWrites, WriteKeeps DEF RequestActivation
  <2>7. SameView
    BY <1>19, <2>2, <2>6, GoesOnView DEF RequestActivation, Terminal
  <2>8. UNCHANGED <<original, plan>> /\ Truthful
    BY <1>19, FewerResponses DEF RequestActivation
  <2>9. Stands(n)'
    BY <2>2, <2>3, <2>5, <2>8, SourceStands DEF TakeBack
  <2>10. Fits(reg'[n], n)
    BY <1>0, <2>6, FitsLike DEF Keeps
  <2> QED
    BY <2>5, <2>6, <2>7, <2>8, <2>9, <2>10, ViewStep DEF Keeps
<1>20. CASE ReceiveResponse(n)
  <2>1. PICK ok \in BOOLEAN :
           /\ <<m, call[n].attempt, ok>> \in responses
           /\ responses' = responses \ {<<m, call[n].attempt, ok>>}
           /\ Go(n, IF ok THEN "remote" ELSE "restore")
    BY <1>20 DEF ReceiveResponse
  <2>2. /\ At(n, "source", "await") /\ m \in Migrations
        /\ call[n].attempt \in 0 .. MaxAttempts
    BY <1>20 DEF ReceiveResponse, At, TypeOK, Call
  <2>3. SameView /\ Truthful /\ UNCHANGED original /\ Keeps(n)
    BY <1>20, <2>1, SameRecords, FewerResponses, WriteKeeps DEF ReceiveResponse, records
  <2>4. CASE ok = TRUE
    <3>1. m \in Landed /\ Moves(n, "remote")
      BY <1>0, <2>1, <2>2, <2>4, GoMoves DEF ResponseInv
    <3> QED
      BY <2>2, <2>3, <3>1, MoveStep DEF At, TakeBack
  <2>5. CASE ok = FALSE
    <3>1. Kept(m) /\ Moves(n, "restore")
      BY <1>0, <2>1, <2>2, <2>5, GoMoves DEF ResponseInv, Kept
    <3> QED
      BY <2>2, <2>3, <3>1, MoveStep DEF At
  <2> QED
    BY <2>4, <2>5
<1>21. CASE AttemptFails(n)
  <2>1. At(n, "source", "await") /\ call[n] \in Call
    BY <1>21 DEF AttemptFails, TypeOK
  <2>2. m \in Open /\ m \in Migrations /\ n = plan[m].src /\ n # plan[m].dst
    BY <2>1, AtSource DEF At
  <2>3. responses' \subseteq responses /\ UNCHANGED <<reg, original, plan>>
    BY <1>21 DEF AttemptFails
  <2>4. \/ call' = [call EXCEPT ![n] = [@ EXCEPT !.attempt = call[n].attempt + 1]] /\ UNCHANGED journal
        \/ Record(n, m, "uncertain") /\ Go(n, "query")
    BY <1>21 DEF AttemptFails
  <2>5. /\ Elsewhere(n) /\ call'[n].kind = "source" /\ call'[n].mig = m
        /\ call'[n].at \in {"await", "query"}
        /\ SameView
    <3>1. CASE Record(n, m, "uncertain") /\ Go(n, "query")
      BY <2>1, <2>2, <2>3, <3>1, GoMoves, RecordWrites, GoesOnView DEF Moves, At, Terminal
    <3>2. CASE /\ call' = [call EXCEPT ![n] = [@ EXCEPT !.attempt = call[n].attempt + 1]]
               /\ UNCHANGED journal
      <4> DEFINE k == call[n].attempt + 1
                 d == [call[n] EXCEPT !.attempt = k]
      <4>1. d.at = "await" /\ d.kind = "source" /\ d.mig = m
        <5> HIDE DEF k
        <5> QED
          BY <2>1 DEF Call, At
      <4>2. call' = [call EXCEPT ![n] = d]
        BY <3>2
      <4> HIDE DEF d
      <4> QED
        BY <2>3, <3>2, <4>1, <4>2, SameRecords DEF Elsewhere, TypeOK
    <3> QED
      BY <2>4, <3>1, <3>2
  <2>6. Stands(n)'
    BY <2>2, <2>3, <2>5, SourceStands DEF TakeBack
  <2> QED
    BY <1>0, <2>3, <2>5, <2>6, FewerResponses, ViewStep
<1> QED
  BY <1>1, <1>2, <1>3, <1>4, <1>5, <1>6, <1>7, <1>8, <1>9, <1>10, <1>11, <1>12, <1>13,
     <1>14, <1>15, <1>16, <1>17, <1>18, <1>19, <1>20, <1>21
  DEF SourceNext


LEMMA ProcessOwner ==
    ASSUME TypeOK, WriteAheadInv, CourseInv, OwnerInv, NEW n \in Nodes, ProcessNext(n)
    PROVE  OwnerInv'
<1> DEFINE m == call[n].mig
<1>0. /\ Stands(n) /\ reg[n] \in Entry /\ call[n] \in Call
      /\ Role(call[n].kind, call[n].at, n, m)
  BY RoleAt DEF OwnerInv, StandInv, TypeOK
<1>1. SameView /\ Truthful /\ UNCHANGED original
  <2>1. UNCHANGED <<journal, plan, original, responses>>
    BY DEF ProcessNext, StopProcess, Spawn, SpawnNotNeeded, SpawnRefused, SpawnNotReady,
           MarkRunningAfterSpawn, records, network
  <2> QED
    BY <2>1, SameRecords, FewerResponses
(* A start that raises. *)
<1>2. ASSUME call[n].at \in {"spawn", "running"}, NEW e \in {reg[n], MarkFailed(reg[n])},
             StartRaised(n, e)
      PROVE  OwnerInv'
  <2>1. e \in Entry /\ e.owner = reg[n].owner /\ e.gen = reg[n].gen /\ e.last = reg[n].last
    BY <1>0, EntriesKeep DEF MarkFailed, Entry, Status
  <2>2. MarkFailed(e) \in {reg[n], MarkFailed(reg[n])}
    BY <1>0 DEF MarkFailed, Entry
  <2>3. Keeps(n)
    BY <1>2, <2>2, WriteKeeps DEF StartRaised
  <2>4. CASE call[n].kind = "destination"
    <3>1. Moves(n, "abort")
      BY <1>2, <2>4, GoMoves DEF StartRaised
    <3> QED
      BY <1>1, <1>2, <2>3, <3>1, MoveStep DEF TakeBack
  <2>5. CASE call[n].kind # "destination"
    <3>1. Moves(n, "journalUndo")
      BY <1>2, <2>5, GoMoves DEF StartRaised
    <3>2. Kept(m)
      BY <1>0, <1>2, <2>5 DEF Stands, TakeBack
    <3> QED
      BY <1>1, <1>2, <2>3, <2>5, <3>1, <3>2, MoveStep
  <2> QED
    BY <2>4, <2>5
(* What follows a start. *)
<1>3. ASSUME call[n].at \in {"spawn", "running"}, Moves(n, AfterStart(n)), Keeps(n)
      PROVE  OwnerInv'
  <2>1. CASE call[n].kind = "destination"
    BY <1>1, <1>3, <2>1, MoveStep DEF AfterStart, TakeBack
  <2>2. CASE call[n].kind # "destination"
    <3>1. Kept(m)
      BY <1>0, <1>3, <2>2 DEF Stands, TakeBack
    <3> QED
      BY <1>1, <1>3, <2>2, <3>1, MoveStep DEF AfterStart
  <2> QED
    BY <2>1, <2>2
<1>4. CASE StopProcess(n)
  <2>1. Keeps(n)
    BY <1>4, WriteKeeps DEF StopProcess
  <2>2. Moves(n, "transfer") \/ Moves(n, "abort")
    <3>1. CASE call[n].kind = "source"
      BY <1>4, <3>1, EditMoves DEF StopProcess
    <3>2. CASE call[n].kind # "source"
      <4>1. call' = [call EXCEPT ![n] = [call[n] EXCEPT !.at = "abort"]]
        BY <1>4, <3>2 DEF StopProcess
      <4> QED
        BY <4>1, GoMoves DEF Go
    <3> QED
      BY <3>1, <3>2
  <2> QED
    BY <1>1, <1>4, <2>1, <2>2, MoveStep DEF StopProcess, TakeBack
<1>5. CASE Spawn(n)
  <2>1. Keeps(n) /\ Moves(n, "running")
    <3>1. PICK p \in Pids : call' = [call EXCEPT ![n] = [call[n] EXCEPT !.at = "running", !.pid = p]]
      BY <1>5 DEF Spawn
    <3> QED
      BY <1>5, <3>1, WriteKeeps, EditMoves DEF Spawn
  <2>2. call[n].kind # "destination" => Kept(m)
    BY <1>0, <1>5 DEF Spawn, Stands, TakeBack
  <2> QED
    BY <1>1, <1>5, <2>1, <2>2, MoveStep DEF Spawn
<1>6. CASE SpawnNotNeeded(n)
  BY <1>3, <1>6, WriteKeeps, GoMoves DEF SpawnNotNeeded
<1>7. CASE SpawnRefused(n)
  BY <1>2, <1>7 DEF SpawnRefused
<1>8. CASE SpawnNotReady(n)
  BY <1>2, <1>8 DEF SpawnNotReady
<1>9. CASE MarkRunningAfterSpawn(n)
  <2>1. CASE CanRun(n, reg[n])
    <3>1. call[n].pid \in Pids \cup {NoPid}
      BY <1>0 DEF Call
    <3>2. Write(n, MarkRunning(reg[n], call[n].pid))
      BY <1>9, <2>1 DEF MarkRunningAfterSpawn
    <3>3. Keeps(n)
      BY <3>1, <3>2, WriteKeeps
    <3>4. call' = [call EXCEPT ![n] = [call[n] EXCEPT !.at = AfterStart(n), !.pid = NoPid]]
      BY <1>9, <2>1 DEF MarkRunningAfterSpawn
    <3>5. Moves(n, AfterStart(n))
      BY <3>4, EditMoves
    <3> QED
      BY <1>3, <1>9, <3>3, <3>5 DEF MarkRunningAfterSpawn
  <2>2. CASE ~CanRun(n, reg[n])
    BY <1>2, <1>9, <2>2 DEF MarkRunningAfterSpawn
  <2> QED
    BY <2>1, <2>2
<1> QED
  BY <1>4, <1>5, <1>6, <1>7, <1>8, <1>9 DEF ProcessNext

(* An answer to the request of an activation. *)
LEMMA TruthfulAnswer ==
    ASSUME NEW m \in Migrations, NEW k \in 0 .. MaxAttempts, NEW ok \in BOOLEAN,
           Respond(m, k, ok) \/ UNCHANGED responses,
           IF ok THEN m \in Landed' ELSE journal'[plan'[m].dst][m] = "rolled_back"
    PROVE  Truthful
  BY DEF Truthful, Respond

LEMMA DestinationOwner ==
    ASSUME TypeOK, WriteAheadInv, CourseInv, OwnerInv, NEW n \in Nodes, DestinationNext(n)
    PROVE  OwnerInv'
<1>0. /\ Stands(n) /\ Fits(reg[n], n) /\ reg[n] \in Entry /\ call[n] \in Call
      /\ Attempts \subseteq 0 .. MaxAttempts
  BY AttemptNumbers DEF OwnerInv, StandInv, FitInv, TypeOK
<1>1. ASSUME NEW m \in Migrations, NEW k \in Attempts, AnswerClaimed(n, m, k)
      PROVE  OwnerInv'
  <2>1. /\ Free(n) /\ n = plan[m].dst /\ m \in Asked /\ Claiming(reg[n], n, m)
        /\ Writes(n, m, "activated") /\ Respond(m, k, TRUE)
        /\ UNCHANGED <<reg, original, plan, call>>
    BY <1>1, RecordWrites DEF AnswerClaimed, Asked, ClaimedFor, Claiming
  <2>2. m \in Begun
    BY <2>1, Busy, Plans DEF OwnerInv
  <2>3. m \in Landed'
    BY <2>1, <2>2 DEF Landed, Begun, Writes
  <2>4. Truthful
    BY <1>0, <2>1, <2>3, TruthfulAnswer
  <2>5. Elsewhere(n) /\ Stands(n)'
    <3>1. call'[n].at = "idle" /\ call'[n].kind = "none"
      BY <2>1, RoleAt DEF Free, Role, SourcePlace, ResolvePlace, DestinationPlace, RevertPlace
    <3> QED
      BY <2>1, <3>1, IdleStands DEF Elsewhere
  <2> QED
    BY <2>1, <2>2, <2>4, <2>5, LandStep
<1>2. ASSUME NEW m \in Migrations, NEW k \in Attempts, AnswerRolledBack(n, m, k)
      PROVE  OwnerInv'
  <2>1. /\ n = plan[m].dst /\ journal[n][m] = "rolled_back" /\ Respond(m, k, FALSE)
        /\ UNCHANGED <<reg, journal, original, plan, call>>
    BY <1>2 DEF AnswerRolledBack, records
  <2>2. Truthful
    BY <1>0, <2>1, TruthfulAnswer
  <2>3. Keeps(n) /\ SameView
    BY <2>1, WriteKeeps, SameRecords
  <2> QED
    BY <2>1, <2>2, <2>3, KeepStep
<1>3. ASSUME NEW m \in Migrations, NEW k \in Attempts, StartActivation(n, m, k)
      PROVE  OwnerInv'
  <2>1. /\ n = plan[m].dst /\ m \in Asked /\ ~Claiming(reg[n], n, m)
        /\ journal[n][m] # "rolled_back" /\ Writes(n, m, "activating")
        /\ UNCHANGED <<reg, plan, responses>>
    BY <1>3, RecordWrites DEF StartActivation, Asked, ClaimedFor, Claiming
  <2>2. \A i \in Nodes, j \in Migrations : original'[i][j] =
            IF i = n /\ j = m /\ journal[n][m] = "none" THEN reg[n] ELSE original[i][j]
    BY <1>3 DEF StartActivation, TypeOK
  <2> DEFINE d == [NoCall(n) EXCEPT !.kind = "destination", !.at = "begin", !.mig = m,
                                    !.attempt = k, !.saved = reg[n]]
  <2>3. d.kind = "destination" /\ d.at = "begin" /\ d.mig = m /\ d.saved = reg[n]
    BY DEF NoCall
  <2>4. call' = [call EXCEPT ![n] = d]
    BY <1>3 DEF StartActivation
  <2> HIDE DEF d
  <2>5. /\ Elsewhere(n) /\ call'[n].mig = m /\ call'[n].at = "begin"
        /\ call'[n].kind = "destination" /\ call'[n].saved = reg[n]
    BY <2>3, <2>4 DEF Elsewhere, TypeOK
  <2> QED
    BY <2>1, <2>2, <2>5, ServeStep
<1>4. CASE BeginActivation(n)
  <2>1. Moves(n, "claim") \/ Moves(n, "abort")
    BY <1>4, GoMoves DEF BeginActivation
  <2> QED
    BY <1>4, <2>1, WriteKeeps, SameRecords, FewerResponses, MoveStep
    DEF BeginActivation, At, TakeBack, records, network
<1>5. CASE ClaimTask(n)
  <2> DEFINE m == call[n].mig
             f == ClaimLocal(n, reg[n], plan[m].gen, m)
  <2>1. At(n, "destination", "claim")
    BY <1>5 DEF ClaimTask
  <2>2. SameView /\ Truthful /\ UNCHANGED original
    BY <1>5, SameRecords, FewerResponses DEF ClaimTask, records, network
  <2>3. CASE CanClaim(reg[n], plan[m].gen)
    <3>1. Write(n, f) /\ Moves(n, "spawn")
      BY <1>5, <2>3, GoMoves DEF ClaimTask
    <3>2. m \in Open \ Landed /\ n = plan[m].dst /\ journal[n][m] = "activating"
      BY <2>1, AtDestination DEF At
    <3>3. Claiming(f, n, m)
      BY <1>0, <3>2 DEF ClaimLocal, Entry, Claiming
    <3> HIDE DEF f
    <3>4. Fits(f, n)
      BY <3>2, <3>3, ClaimFits
    <3>5. /\ reg'[n] = f
          /\ \A i \in Nodes : i # n => reg'[i] = reg[i]
      BY <3>1 DEF Write, TypeOK
    <3>6. Stands(n)'
      BY <2>1, <2>2, <3>1, <3>3, <3>5, MoveStands DEF At
    <3> QED
      BY <2>2, <3>1, <3>4, <3>5, <3>6, ViewStep DEF Moves
  <2>4. CASE ~CanClaim(reg[n], plan[m].gen)
    <3>1. Keeps(n) /\ Moves(n, "abort")
      BY <1>5, <2>4, GoMoves, WriteKeeps DEF ClaimTask
    <3> QED
      BY <2>1, <2>2, <3>1, MoveStep DEF At, TakeBack
  <2> QED
    BY <2>3, <2>4
<1>6. CASE CheckpointInvalid(n)
  BY <1>6, GoMoves, WriteKeeps, SameRecords, FewerResponses, MoveStep
  DEF CheckpointInvalid, At, TakeBack, records, network
<1>7. CASE ConsumeReservation(n)
  <2>1. Moves(n, "confirm") \/ Moves(n, "kill")
    BY <1>7, GoMoves DEF ConsumeReservation
  <2> QED
    BY <1>7, <2>1, WriteKeeps, SameRecords, FewerResponses, MoveStep
    DEF ConsumeReservation, At, TakeBack, records, network
<1>8. CASE ConfirmActivation(n)
  <2> DEFINE m == call[n].mig
  <2>1. /\ At(n, "destination", "confirm") /\ Claiming(reg[n], n, m)
        /\ m \in Begun /\ m \in Migrations /\ n = plan[m].dst
    BY <1>0, <1>8, AtDestination, Plans DEF ConfirmActivation, At, Stands
  <2>2. /\ Writes(n, m, "activated") /\ Respond(m, call[n].attempt, TRUE)
        /\ Idles(n) /\ UNCHANGED <<reg, original, plan>>
    BY <1>8, <2>1, RecordWrites, ReleaseIdles DEF ConfirmActivation
  <2>3. \A j \in Migrations : j = m => j \in Landed'
    BY <2>1, <2>2 DEF Landed, Begun, Writes
  <2>4. Truthful
    <3>1. PICK j \in Migrations : j = m
      BY <2>1
    <3>2. PICK k \in 0 .. MaxAttempts : k = call[n].attempt
      BY <1>0 DEF Call
    <3>3. Respond(j, k, TRUE) /\ j \in Landed'
      BY <2>2, <2>3, <3>1, <3>2
    <3> QED
      BY <3>3, TruthfulAnswer
  <2> QED
    BY <2>1, <2>2, <2>4, IdleStands, LandStep DEF Idles
<1>9. CASE AbortActivation(n)
  <2> DEFINE m == call[n].mig
             f == call[n].saved
  <2>1. call[n].at = "abort" /\ Write(n, f) /\ Moves(n, "journalAbort")
    BY <1>9, GoMoves DEF AbortActivation
  <2>2. m \in Open \ Landed /\ n = plan[m].dst /\ Backed(f, n)
    BY <2>1, AtDestination
  <2>3. Fits(f, n) /\ f.owner # n
    BY <2>2, BackedFits DEF Backed
  <2>4. SameView /\ Truthful /\ UNCHANGED original
    BY <1>9, SameRecords, FewerResponses DEF AbortActivation, records, network
  <2>5. /\ reg'[n] = f
        /\ \A i \in Nodes : i # n => reg'[i] = reg[i]
    BY <2>1 DEF Write, TypeOK
  <2>6. Stands(n)'
    BY <2>1, <2>3, <2>4, <2>5, MoveStands DEF TakeBack
  <2> QED
    BY <2>1, <2>3, <2>4, <2>5, <2>6, ViewStep DEF Moves
<1>10. CASE JournalAbort(n)
  <2> DEFINE m == call[n].mig
  <2>1. /\ call[n].at = "journalAbort" /\ m \in Open \ Landed /\ n = plan[m].dst
        /\ m \in Migrations /\ journal[n][m] = "activating"
    BY <1>10, AtDestination DEF JournalAbort
  <2>2. reg[n].owner # n
    BY <1>0, <2>1 DEF Stands
  <2>3. /\ Writes(n, m, "rolled_back") /\ UNCHANGED <<reg, original, plan>> /\ Truthful
        /\ \/ Idles(n)
           \/ Moves(n, "refuse") /\ call[n].kind = "destination"
    BY <1>10, <2>1, RecordWrites, ReleaseIdles, GoMoves, FewerResponses DEF JournalAbort, network
  <2>4. Elsewhere(n) /\ Stands(n)'
    <3>1. CASE Idles(n)
      BY <3>1, IdleStands DEF Idles
    <3>2. CASE Moves(n, "refuse") /\ call[n].kind = "destination"
      BY <2>1, <2>3, <3>2 DEF Moves, Writes, Stands, TakeBack
    <3> QED
      BY <2>3, <3>1, <3>2
  <2> QED
    BY <2>1, <2>2, <2>3, <2>4, RevertStep
<1>11. CASE RefuseActivation(n)
  <2> DEFINE m == call[n].mig
  <2>1. At(n, "destination", "refuse") /\ m \in Migrations /\ n = plan[m].dst
    BY <1>11, CallRecord DEF RefuseActivation, At
  <2>2. /\ Respond(m, call[n].attempt, FALSE) /\ Idles(n)
        /\ UNCHANGED <<reg, journal, original, plan>>
    BY <1>11, ReleaseIdles DEF RefuseActivation, records
  <2>3. journal[n][m] = "rolled_back"
    BY <1>0, <2>1 DEF At, Stands
  <2>4. Truthful
    <3>1. PICK j \in Migrations : j = m
      BY <2>1
    <3>2. PICK k \in 0 .. MaxAttempts : k = call[n].attempt
      BY <1>0 DEF Call
    <3>3. Respond(j, k, FALSE) /\ journal'[plan'[j].dst][j] = "rolled_back"
      BY <2>1, <2>2, <2>3, <3>1, <3>2
    <3> QED
      BY <3>3, TruthfulAnswer
  <2> QED
    BY <2>2, <2>4, WriteKeeps, SameRecords, IdleStep
<1> QED
  BY <1>1, <1>2, <1>3, <1>4, <1>5, <1>6, <1>7, <1>8, <1>9, <1>10, <1>11 DEF DestinationNext


LEMMA ReconcileOwner ==
    ASSUME TypeOK, WriteAheadInv, CourseInv, OwnerInv, NEW n \in Nodes, ReconcileNext(n)
    PROVE  OwnerInv'
<1>0. Fits(reg[n], n)
  BY DEF OwnerInv, FitInv
(* A record whose turn it is. *)
<1>1. ASSUME NEW m \in Migrations, Turn(n, m)
      PROVE  /\ m \in Open
             /\ listed[n][m] = journal[n][m]
             /\ n = plan[m].dst => journal[n][m] = "activating"
             /\ plan[m].src # plan[m].dst
             /\ call[n].at = "idle" /\ call[n].kind = "none"
  <2>1. /\ listed[n][m] = journal[n][m]
        /\ journal[n][m] \notin Terminal \cup {"none"}
        /\ call[n].at = "idle"
    BY <1>1 DEF Turn, Free, CourseInv, ListedInv
  <2>2. call[n].kind = "none"
    BY <2>1, RoleAt DEF Role, SourcePlace, ResolvePlace, DestinationPlace, RevertPlace
  <2> QED
    BY <2>1, <2>2, Busy, Plans DEF OwnerInv
<1>2. CASE ListRecords(n)
  BY <1>2, WriteKeeps, SameRecords, FewerResponses, KeepStep DEF ListRecords, records, network
<1>3. ASSUME NEW m \in Migrations, ReconcileCommitted(n, m)
      PROVE  OwnerInv'
  <2>1. /\ Claiming(reg[n], n, m) /\ Writes(n, m, "activated") /\ Turn(n, m)
        /\ UNCHANGED <<reg, original, plan, call, responses>>
    BY <1>3, RecordWrites DEF ReconcileCommitted, Committed, ClaimedFor, Claiming, network
  <2>2. m \in Begun /\ Elsewhere(n) /\ Stands(n)'
    BY <1>1, <2>1, IdleStands, Plans DEF Elsewhere
  <2> QED
    BY <2>1, <2>2, FewerResponses, LandStep
<1>4. ASSUME NEW m \in Migrations, ReconcileIncomplete(n, m)
      PROVE  OwnerInv'
  <2>1. /\ Turn(n, m) /\ n = plan[m].dst
        /\ TakeUp(n, m, "kill") \/ TakeUp(n, m, "abort")
        /\ UNCHANGED <<reg, journal, original, plan, responses>>
    BY <1>4 DEF ReconcileIncomplete, records, network
  <2>2. /\ Elsewhere(n) /\ call'[n].kind = "reconcile" /\ call'[n].at \in {"kill", "abort"}
        /\ call'[n].mig = m /\ call'[n].saved = original[n][m]
    BY <2>1, TakeUpBegins
  <2>3. Backed(original[n][m], n)
    BY <1>1, <2>1 DEF OwnerInv, OriginInv
  <2>4. SameView /\ Keeps(n) /\ Truthful
    BY <2>1, SameRecords, WriteKeeps, FewerResponses
  <2>5. Backed(call[n].saved, n)'
    BY <2>2, <2>3, <2>4, SameViewMeans
  <2>6. Stands(n)'
    BY <2>2, <2>5 DEF Stands, TakeBack
  <2> QED
    BY <1>0, <2>1, <2>2, <2>4, <2>6, ViewStep
<1>5. ASSUME NEW m \in Migrations, ReconcileSettled(n, m)
      PROVE  OwnerInv'
  <2>1. /\ Turn(n, m) /\ n = plan[m].src
        /\ UNCHANGED <<reg, original, plan, call, responses>>
        /\ \/ GivenAway(n, m) /\ Writes(n, m, "activated")
           \/ NeverQuiesced(n, m) /\ Writes(n, m, "rolled_back")
    BY <1>5, RecordWrites DEF ReconcileSettled, network
  <2>2. m \in Open /\ Elsewhere(n) /\ Stands(n)'
    BY <1>1, <2>1, IdleStands DEF Elsewhere
  <2>3. \/ Writes(n, m, "rolled_back") /\ Kept(m)
        \/ Writes(n, m, "activated") /\ m \in Landed /\ reg[n].owner # n
    <3>1. CASE GivenAway(n, m) /\ Writes(n, m, "activated")
      BY <1>0, <1>1, <2>1, <3>1 DEF GivenAway, Fits
    <3>2. CASE NeverQuiesced(n, m) /\ Writes(n, m, "rolled_back")
      <4>1. journal[n][m] = "preparing"
        BY <1>1, <2>1, <3>2 DEF NeverQuiesced
      <4>2. m \in Begun
        BY <2>2, Plans
      <4>3. journal[plan[m].dst][m] = "none"
        BY <2>1, <4>1, <4>2 DEF WriteAheadInv, WriteAhead, Begun
      <4> QED
        BY <3>2, <4>3 DEF Kept
    <3> QED
      BY <2>1, <3>1, <3>2
  <2> QED
    BY <2>1, <2>2, <2>3, FewerResponses, CloseStep
<1>6. ASSUME NEW m \in Migrations, ReconcileSource(n, m)
      PROVE  OwnerInv'
  <2>1. /\ Turn(n, m) /\ n = plan[m].src /\ TakeUp(n, m, "query")
        /\ UNCHANGED <<reg, journal, original, plan, responses>>
    BY <1>6 DEF ReconcileSource, records, network
  <2>2. /\ Elsewhere(n) /\ call'[n].kind = "reconcile" /\ call'[n].at = "query"
        /\ call'[n].mig = m
    BY <2>1, TakeUpBegins
  <2>3. SameView /\ Keeps(n) /\ Truthful
    BY <2>1, SameRecords, WriteKeeps, FewerResponses
  <2>4. Stands(n)'
    BY <1>1, <2>1, <2>2, SourceStands DEF TakeBack
  <2> QED
    BY <1>0, <2>1, <2>2, <2>3, <2>4, ViewStep
<1> QED
  BY <1>2, <1>3, <1>4, <1>5, <1>6 DEF ReconcileNext

(* A claim that is not uncommitted is proper. *)
LEMMA ToldIsProper ==
    ASSUME TypeOK, WriteAheadInv, OwnerInv, NEW j \in Nodes, ~Uncommitted(j)
    PROVE  Proper(reg[j])
<1>1. Fits(reg[j], j)
  BY DEF OwnerInv, FitInv
<1>2. \A m \in Open \ Landed : Claiming(reg[j], j, m) => journal[j][m] = "activated"
  BY Plans DEF Uncommitted, ClaimedFor, Claiming
<1>3. \A m \in Open \ Landed : Claiming(reg[j], j, m) => journal[j][m] # "activated"
  BY Plans DEF Landed, Claiming
<1> QED
  BY <1>1, <1>2, <1>3 DEF Fits

(* The services, the environment, and the scheduler. *)
LEMMA OtherOwner ==
    ASSUME Orderly, TypeOK, WriteAheadInv, CourseInv, OwnerInv, NEW n \in Nodes,
           SchedulerNext(n) \/ ServiceNext(n) \/ EnvironmentNext(n)
    PROVE  OwnerInv'
<1>1. CASE SchedulerNext(n)
  <2>1. PICK d \in Nodes : StartMigration(n, d)
    BY <1>1 DEF SchedulerNext
  <2>2. PICK m \in Migrations :
           /\ plan[m] = NoPlan
           /\ d # n
           /\ Free(n)
           /\ Undecided(n) => "moveOn" \in Faults
           /\ reg[n].owner = n
           /\ plan' = [plan EXCEPT ![m] = [src |-> n, dst |-> d, gen |-> reg[n].gen + 1]]
           /\ Record(n, m, "preparing")
           /\ original' = [original EXCEPT ![n][m] = reg[n]]
           /\ call' = [call EXCEPT ![n] = [NoCall(n) EXCEPT !.kind = "source",
                                                            !.at = "prefetch", !.mig = m]]
           /\ UNCHANGED <<reg, procs, starter, listed, network, budget>>
    BY <2>1 DEF StartMigration
  <2> DEFINE e == [src |-> n, dst |-> d, gen |-> reg[n].gen + 1]
             c == [NoCall(n) EXCEPT !.kind = "source", !.at = "prefetch", !.mig = m]
  <2>3. e.src = n /\ e.dst = d /\ e.gen = reg[n].gen + 1
    OBVIOUS
  <2>4. e # NoPlan
    <3>1. reg[n].gen \in Nat
      BY DEF TypeOK, Entry
    <3>2. e.gen # NoPlan.gen
      BY <2>3, <3>1 DEF NoPlan
    <3> QED
      BY <3>2
  <2>5. c.kind = "source" /\ c.at = "prefetch" /\ c.mig = m
    BY DEF NoCall
  <2>6. plan' = [plan EXCEPT ![m] = e] /\ call' = [call EXCEPT ![n] = c]
    BY <2>2
  <2> HIDE DEF e, c
  <2>7. plan'[m] = e /\ \A j \in Migrations : j # m => plan'[j] = plan[j]
    BY <2>6 DEF TypeOK
  <2>8. call'[n] = c /\ Elsewhere(n)
    BY <2>6 DEF Elsewhere, TypeOK
  <2>9. Writes(n, m, "preparing")
    BY <2>2, RecordWrites
  <2>10. \A i \in Nodes, j \in Migrations : original'[i][j] =
             IF i = n /\ j = m THEN reg[n] ELSE original[i][j]
    BY <2>2 DEF TypeOK
  <2>11. ~Undecided(n) /\ UNCHANGED <<reg, responses>>
    BY <2>2 DEF Orderly, network
  <2> QED
    BY <2>2, <2>3, <2>4, <2>5, <2>7, <2>8, <2>9, <2>10, <2>11, PlanStep
<1>2. ASSUME NEW j \in Nodes, Gossip(n, j)
      PROVE  OwnerInv'
  <2> DEFINE f == ApplyOwnership(n, reg[n], Claim(reg[j]))
  <2>1. /\ Accepts(reg[n], Claim(reg[j])) /\ Write(n, f) /\ ~Uncommitted(j)
        /\ UNCHANGED <<journal, original, plan, call, responses>>
    BY <1>2 DEF Gossip, Orderly, records, network
  <2>2. Proper(reg[j]) /\ reg[j] \in Entry
    BY <2>1, ToldIsProper DEF TypeOK
  <2>3. /\ Fits(f, n) /\ (f.owner = n => reg[n].owner = n)
        /\ \A m \in Open : Claiming(reg[n], n, m) => Claiming(f, n, m)
    BY <2>1, <2>2, GossipFits
  <2> HIDE DEF f
  <2>4. /\ reg'[n] = f
        /\ \A i \in Nodes : i # n => reg'[i] = reg[i]
    BY <2>1 DEF Write, TypeOK
  <2>5. SameView /\ Truthful
    BY <2>1, SameRecords, FewerResponses
  <2> QED
    BY <2>1, <2>3, <2>4, <2>5, StillStep
<1>3. CASE /\ UNCHANGED <<journal, original, plan, call, responses>>
           /\ Keeps(n)
  BY <1>3, SameRecords, FewerResponses, KeepStep
<1>4. CASE ReconcileRuntime(n)
  BY <1>3, <1>4, WriteKeeps DEF ReconcileRuntime, records, network
<1>5. CASE Recover(n)
  BY <1>3, <1>5, WriteKeeps DEF Recover, records, network
<1>6. CASE StarterSpawn(n)
  BY <1>3, <1>6, WriteKeeps DEF StarterSpawn, records, network
<1>7. CASE StarterRunning(n)
  <2>1. starter[n].pid \in Pids \cup {NoPid}
    BY DEF TypeOK
  <2> QED
    BY <1>3, <1>7, <2>1, WriteKeeps DEF StarterRunning, records, network
<1>8. CASE StarterNotReady(n)
  BY <1>3, <1>8, WriteKeeps DEF StarterNotReady, records, network
<1>9. CASE ProcessExits(n)
  BY <1>3, <1>9, WriteKeeps DEF ProcessExits, records, network
<1>10. CASE OperatorStart(n)
  BY <1>3, <1>10, WriteKeeps DEF OperatorStart, records, network
<1>11. CASE Crash(n) \/ ServiceCrash(n)
  <2>1. /\ Idles(n) /\ responses' \subseteq responses
        /\ UNCHANGED <<reg, journal, original, plan>>
    BY <1>11, ReleaseIdles DEF Crash, ServiceCrash, Forget, records
  <2> QED
    BY <2>1, WriteKeeps, SameRecords, FewerResponses, IdleStep
<1> QED
  BY <1>1, <1>2, <1>4, <1>5, <1>6, <1>7, <1>8, <1>9, <1>10, <1>11
  DEF ServiceNext, EnvironmentNext

LEMMA OwnerStep ==
    ASSUME Orderly, TypeOK, WriteAheadInv, CourseInv, OwnerInv, [Next]_vars
    PROVE  OwnerInv'
<1>1. CASE UNCHANGED vars
  <2>1. UNCHANGED <<reg, journal, original, plan, call, responses>>
    BY <1>1 DEF vars
  <2>2. Home \in Nodes
    BY ConstantsAssumption
  <2> QED
    BY <2>1, <2>2, WriteKeeps, SameRecords, FewerResponses, KeepStep
<1>2. ASSUME NEW m \in Migrations, ExpireReservation(m)
      PROVE  OwnerInv'
  <2>1. UNCHANGED <<reg, journal, original, plan, call, responses>>
    BY <1>2 DEF ExpireReservation, records, network
  <2>2. Home \in Nodes
    BY ConstantsAssumption
  <2> QED
    BY <2>1, <2>2, WriteKeeps, SameRecords, FewerResponses, KeepStep
<1>3. ASSUME NEW n \in Nodes,
             \/ SchedulerNext(n) \/ SourceNext(n) \/ ProcessNext(n) \/ DestinationNext(n)
             \/ ReconcileNext(n) \/ ServiceNext(n) \/ EnvironmentNext(n)
      PROVE  OwnerInv'
  BY <1>3, SourceOwner, ProcessOwner, DestinationOwner, ReconcileOwner, OtherOwner
<1> QED
  BY <1>1, <1>2, <1>3 DEF Next

LEMMA OwnerInit == Init => OwnerInv
<1> SUFFICES ASSUME Init PROVE OwnerInv
  OBVIOUS
<1>1. /\ journal = [n \in Nodes |-> [m \in Migrations |-> "none"]]
      /\ plan = [m \in Migrations |-> NoPlan]
      /\ call = [n \in Nodes |-> NoCall(n)]
      /\ responses = {}
      /\ \E p \in Pids :
            reg = [n \in Nodes |-> IF n = Home THEN MarkRunning(InitialEntry(n, Home), p)
                                               ELSE InitialEntry(n, Home)]
  BY DEF Init
<1>2. Begun = {} /\ Landed = {} /\ Open = {}
  BY <1>1 DEF Begun, Landed, Open
<1>3. ASSUME NEW n \in Nodes
      PROVE  reg[n].owner = Home /\ reg[n].gen = 0 /\ reg[n].last = NoMigration
  BY <1>1 DEF MarkRunning, InitialEntry
<1>4. FitInv
  BY <1>2, <1>3 DEF FitInv, Fits, Proper, Held
<1>5. OrderInv /\ OriginInv /\ VerdictInv
  BY <1>2 DEF OrderInv, OriginInv, VerdictInv
<1>6. ResponseInv
  BY <1>1 DEF ResponseInv
<1>7. StandInv
  <2>1. \A n \in Nodes : call[n].at = "idle" /\ call[n].kind = "none"
    BY <1>1 DEF NoCall
  <2> QED
    BY <2>1 DEF StandInv, Stands, TakeBack
<1> QED
  BY <1>4, <1>5, <1>6, <1>7 DEF OwnerInv

LEMMA OwnerKept ==
    ASSUME Orderly
    PROVE  Spec => []OwnerInv
<1>1. Init => OwnerInv
  BY OwnerInit
<1>2. TypeOK /\ WriteAheadInv /\ CourseInv /\ OwnerInv /\ [Next]_vars => OwnerInv'
  BY OwnerStep
<1> QED
  BY <1>1, <1>2, TypeCorrect, WriteAheadKept, CourseKept, PTL DEF Spec


-------------------------------------------------------------------------------
(* What follows from it. *)

(* The fence works (mark_migrating, mark_remote, claim_local, restore_local and
   apply_ownership number the owners of a task): however activations fail, are
   retried or are undone, whatever crashes, no two registries ever name
   different owners for one generation. *)
THEOREM OwnersAreFenced ==
    ASSUME Orderly
    PROVE  Spec => []OneOwnerPerGeneration
<1>1. TypeOK /\ WriteAheadInv /\ OwnerInv => OneOwnerPerGeneration
  <2> SUFFICES ASSUME TypeOK, WriteAheadInv, OwnerInv, NEW a \in Nodes, NEW b \in Nodes,
                      reg[a].gen = reg[b].gen
               PROVE  reg[a].owner = reg[b].owner
    BY DEF OneOwnerPerGeneration
  <2>1. Fits(reg[a], a) /\ Fits(reg[b], b)
    BY DEF OwnerInv, FitInv
  <2>2. /\ \A m \in Begun : plan[m].gen > 0
        /\ \A m, i \in Landed : plan[m].gen = plan[i].gen => m = i
        /\ \A m \in Open : \A i \in Landed : i # m => plan[i].gen < plan[m].gen
        /\ \A m, i \in Open : i = m
        /\ \A m \in Begun : plan[m].gen \in Nat
        /\ Landed \subseteq Begun /\ Open \subseteq Begun
    BY Plans DEF OwnerInv, OrderInv
  <2>3. ASSUME NEW m \in Open \ Landed, NEW o, Held(o, plan[m].gen)
        PROVE  FALSE
    BY <2>2, <2>3 DEF Held
  <2>4. CASE Proper(reg[a]) /\ Proper(reg[b])
    BY <2>2, <2>4 DEF Proper, Held
  <2>5. CASE ~Proper(reg[a])
    <3>1. PICK m \in Open \ Landed : Claiming(reg[a], a, m)
      BY <2>1, <2>5 DEF Fits
    <3>2. ~Proper(reg[b])
      BY <2>3, <3>1 DEF Proper, Claiming
    <3>3. PICK i \in Open \ Landed : Claiming(reg[b], b, i)
      BY <2>1, <3>2 DEF Fits
    <3> QED
      BY <2>2, <3>1, <3>3 DEF Claiming
  <2>6. CASE ~Proper(reg[b])
    <3>1. PICK m \in Open \ Landed : Claiming(reg[b], b, m)
      BY <2>1, <2>6 DEF Fits
    <3>2. ~Proper(reg[a])
      BY <2>3, <3>1 DEF Proper, Claiming
    <3> QED
      BY <2>5, <3>2
  <2> QED
    BY <2>4, <2>5, <2>6
<1> QED
  BY <1>1, TypeCorrect, WriteAheadKept, OwnerKept, PTL

(* claim_local precedes the commit of an activation and anti-entropy reads the
   registry meanwhile; still no other node ever names a destination as the owner
   by a migration that the destination has not committed. *)
THEOREM OwnershipFollowsCommit ==
    ASSUME Orderly
    PROVE  Spec => []OwnershipAfterCommit
<1>1. TypeOK /\ WriteAheadInv /\ OwnerInv => OwnershipAfterCommit
  <2> SUFFICES ASSUME TypeOK, WriteAheadInv, OwnerInv, NEW m \in Begun, NEW n \in Nodes,
                      n # plan[m].dst, reg[n].last = m, reg[n].owner = plan[m].dst
               PROVE  journal[plan[m].dst][m] = "activated"
    BY DEF OwnershipAfterCommit
  <2>1. Fits(reg[n], n)
    BY DEF OwnerInv, FitInv
  <2>2. m # NoMigration /\ plan[m].src # plan[m].dst
    BY Plans
  <2>3. m \in Landed
    BY <2>1, <2>2 DEF Fits, Proper, Claiming
  <2> QED
    BY <2>3 DEF Landed
<1> QED
  BY <1>1, TypeCorrect, WriteAheadKept, OwnerKept, PTL

(* Where a node's call goes from the decision. *)
LEMMA DecisionLeads ==
    ASSUME TypeOK, WriteAheadInv, CourseInv, NEW n \in Nodes, call[n].at = "decide",
           [Next]_vars, call'[n].at = "undo"
    PROVE  ResolveNotCommitted(n)
<1>0. call[n] \in Call /\ DOMAIN call = Nodes
  BY DEF TypeOK
<1>1. ASSUME NEW i \in Nodes, NEW c, call' = [call EXCEPT ![i] = c]
      PROVE  i = n /\ c.at = "undo"
  BY <1>0, <1>1 DEF TypeOK
<1>2. call' # call
  OBVIOUS
<1>3. ASSUME NEW i \in Nodes, NEW p, Go(i, p)
      PROVE  i = n /\ p = "undo"
  <2>1. call'[i].at = p /\ Elsewhere(i)
    BY <1>3, GoMoves DEF Moves
  <2> QED
    BY <2>1 DEF Elsewhere
<1>4. ASSUME NEW i \in Nodes, Idles(i)
      PROVE  FALSE
  BY <1>4 DEF Idles, Elsewhere
<1>5. ASSUME NEW i \in Nodes, SourceNext(i)
      PROVE  ResolveNotCommitted(n)
  <2>1. CASE RequestActivation(i)
    <3>1. i = n
      BY <1>1, <2>1 DEF RequestActivation
    <3> QED
      BY <2>1, <3>1 DEF RequestActivation, At
  <2>2. CASE AttemptFails(i)
    <3>1. i = n
      BY <1>1, <1>3, <2>2 DEF AttemptFails
    <3> QED
      BY <2>2, <3>1 DEF AttemptFails, At
  <2>3. CASE QueryAnswered(i) \/ QueryFails(i)
    <3>1. i = n
      BY <1>1, <2>3 DEF QueryAnswered, QueryFails
    <3> QED
      BY <2>3, <3>1 DEF QueryAnswered, QueryFails
  <2>4. CASE ResolveNotCommitted(i)
    BY <1>3, <2>4 DEF ResolveNotCommitted
  <2>5. CASE UndoSource(i) \/ RestoreSource(i) \/ JournalUndo(i) \/ CommitSource(i)
             \/ CancelReservation(i) \/ ResolveUnknown(i)
    BY <1>3, <1>4, <2>5, ReleaseIdles
    DEF UndoSource, RestoreSource, JournalUndo, CommitSource, CancelReservation, ResolveUnknown
  <2>6. CASE ReceiveResponse(i)
    <3>1. Go(i, "remote") \/ Go(i, "restore")
      BY <2>6 DEF ReceiveResponse
    <3> QED
      BY <1>3, <3>1
  <2>7. CASE \/ PrefetchDone(i) \/ PrefetchFailed(i) \/ MarkSource(i) \/ JournalTransfer(i)
             \/ TransferDone(i) \/ TransferFailed(i) \/ PollAgain(i)
             \/ ResolveActivated(i) \/ GiveAway(i)
    BY <1>3, <2>7
    DEF PrefetchDone, PrefetchFailed, MarkSource, JournalTransfer, TransferDone,
        TransferFailed, PollAgain, ResolveActivated, GiveAway
  <2> QED
    BY <1>5, <2>1, <2>2, <2>3, <2>4, <2>5, <2>6, <2>7 DEF SourceNext
<1>6. ASSUME NEW i \in Nodes, ProcessNext(i)
      PROVE  ResolveNotCommitted(n)
  <2>1. i = n
    <3>1. CASE StopProcess(i)
      <4>1. \E c : call' = [call EXCEPT ![i] = c]
        BY <3>1 DEF StopProcess
      <4> QED
        BY <1>1, <4>1
    <3>2. CASE Spawn(i)
      <4>1. \E c : call' = [call EXCEPT ![i] = c]
        BY <3>2 DEF Spawn
      <4> QED
        BY <1>1, <4>1
    <3>3. CASE MarkRunningAfterSpawn(i)
      <4>1. \E c : call' = [call EXCEPT ![i] = c]
        BY <3>3 DEF MarkRunningAfterSpawn, StartRaised, Go
      <4> QED
        BY <1>1, <4>1
    <3>4. CASE SpawnNotNeeded(i) \/ SpawnRefused(i) \/ SpawnNotReady(i)
      <4>1. \E p : Go(i, p)
        BY <3>4 DEF SpawnNotNeeded, SpawnRefused, SpawnNotReady, StartRaised
      <4> QED
        BY <1>3, <4>1
    <3> QED
      BY <1>6, <3>1, <3>2, <3>3, <3>4 DEF ProcessNext
  <2> QED
    BY <1>6, <2>1
    DEF ProcessNext, StopProcess, Spawn, SpawnNotNeeded, SpawnRefused, SpawnNotReady,
        MarkRunningAfterSpawn
<1>7. ASSUME NEW i \in Nodes, DestinationNext(i)
      PROVE  ResolveNotCommitted(n)
  <2>1. ASSUME NEW m \in Migrations, NEW k \in Attempts,
               AnswerClaimed(i, m, k) \/ AnswerRolledBack(i, m, k) \/ StartActivation(i, m, k)
        PROVE  FALSE
    <3>1. i = n
      BY <1>1, <1>2, <2>1 DEF AnswerClaimed, AnswerRolledBack, StartActivation
    <3> QED
      BY <2>1, <3>1 DEF AnswerClaimed, AnswerRolledBack, StartActivation, Free
  <2>2. CASE \/ BeginActivation(i) \/ ClaimTask(i) \/ CheckpointInvalid(i)
             \/ ConsumeReservation(i) \/ AbortActivation(i)
    BY <1>3, <2>2
    DEF BeginActivation, ClaimTask, CheckpointInvalid, ConsumeReservation, AbortActivation
  <2>3. CASE ConfirmActivation(i) \/ JournalAbort(i) \/ RefuseActivation(i)
    BY <1>3, <1>4, <2>3, ReleaseIdles DEF ConfirmActivation, JournalAbort, RefuseActivation
  <2> QED
    BY <1>7, <2>1, <2>2, <2>3 DEF DestinationNext
<1>8. ASSUME NEW i \in Nodes, ReconcileNext(i)
      PROVE  FALSE
  <2>1. ASSUME NEW m \in Migrations,
               \/ ReconcileCommitted(i, m) \/ ReconcileIncomplete(i, m)
               \/ ReconcileSettled(i, m)   \/ ReconcileSource(i, m)
        PROVE  FALSE
    <3>1. Turn(i, m)
      BY <2>1 DEF ReconcileCommitted, ReconcileIncomplete, ReconcileSettled, ReconcileSource
    <3>2. i = n
      BY <1>1, <1>2, <2>1
      DEF ReconcileCommitted, ReconcileIncomplete, ReconcileSettled, ReconcileSource, TakeUp
    <3> QED
      BY <3>1, <3>2 DEF Turn, Free
  <2> QED
    BY <1>2, <1>8, <2>1 DEF ReconcileNext, ListRecords
<1>9. ASSUME NEW i \in Nodes, SchedulerNext(i) \/ ServiceNext(i) \/ EnvironmentNext(i)
      PROVE  FALSE
  <2>1. CASE SchedulerNext(i)
    <3>1. i = n
      BY <1>1, <2>1 DEF SchedulerNext, StartMigration
    <3> QED
      BY <2>1, <3>1 DEF SchedulerNext, StartMigration, Free
  <2>2. CASE ServiceNext(i)
    BY <1>2, <2>2
    DEF ServiceNext, Gossip, ReconcileRuntime, Recover, StarterSpawn, StarterRunning, StarterNotReady
  <2>3. CASE EnvironmentNext(i)
    BY <1>2, <1>4, <2>3, ReleaseIdles
    DEF EnvironmentNext, ProcessExits, OperatorStart, Crash, ServiceCrash, Forget
  <2> QED
    BY <1>9, <2>1, <2>2, <2>3
<1> QED
  BY <1>2, <1>5, <1>6, <1>7, <1>8, <1>9 DEF Next, vars, ExpireReservation

(* migrate and _reconcile_source_record restart the task after an unknown
   outcome only while the destination's journal says that the activation was
   rolled back, or knows nothing of it: whichever answers _query_remote_outcome
   got before, and whatever has happened since it got the last one. *)
THEOREM RestartsAreSafe ==
    ASSUME Orderly
    PROVE  Spec => RestartOnlyIfNotCommitted
<1>1. ASSUME TypeOK, WriteAheadInv, CourseInv, OwnerInv, [Next]_vars
      PROVE  [\A n \in Nodes : call[n].at = "decide" /\ call'[n].at = "undo" =>
                 LET m == call[n].mig IN journal[plan[m].dst][m] \in {"none", "rolled_back"}]_vars
  <2> SUFFICES ASSUME NEW n \in Nodes, call[n].at = "decide", call'[n].at = "undo"
               PROVE  journal[plan[call[n].mig].dst][call[n].mig] \in {"none", "rolled_back"}
    OBVIOUS
  <2>1. ResolveNotCommitted(n)
    BY <1>1, DecisionLeads
  <2>2. Stands(n)
    BY <1>1 DEF OwnerInv, StandInv
  <2> QED
    BY <2>1, <2>2 DEF ResolveNotCommitted, Stands, Kept
<1> QED
  BY <1>1, TypeCorrect, WriteAheadKept, CourseKept, OwnerKept, PTL
  DEF Spec, RestartOnlyIfNotCommitted


(* A step never rewrites a terminal record. *)
LEMMA RecordsStay ==
    ASSUME TypeOK, WriteAheadInv, CourseInv, OwnerInv, [Next]_vars,
           NEW n \in Nodes, NEW m \in Begun, journal[n][m] \in Terminal
    PROVE  journal'[n][m] = journal[n][m]
<1>0. m \in Migrations
  BY DEF Begun
<1>1. ASSUME NEW i \in Nodes, NEW j \in Migrations, NEW w, Record(i, j, w),
             journal[i][j] \notin Terminal \/ w = journal[i][j]
      PROVE  journal'[n][m] = journal[n][m]
  <2>1. Writes(i, j, w)
    BY <1>1, RecordWrites
  <2> QED
    BY <1>0, <1>1, <2>1 DEF Writes
<1>2. ASSUME NEW i \in Nodes, call[i].at \notin {"idle", "cancel", "refuse"},
             NEW w, Record(i, call[i].mig, w)
      PROVE  journal'[n][m] = journal[n][m]
  BY <1>1, <1>2, CallPlaces DEF CourseInv, OpenCallInv
<1>3. ASSUME NEW i \in Nodes, SourceNext(i)
      PROVE  journal'[n][m] = journal[n][m]
  <2>1. CASE UNCHANGED journal
    BY <2>1
  <2>2. CASE \/ PrefetchFailed(i) \/ JournalTransfer(i) \/ RequestActivation(i)
             \/ CommitSource(i) \/ JournalUndo(i)
    BY <1>2, <2>2
    DEF PrefetchFailed, JournalTransfer, RequestActivation, CommitSource, JournalUndo, At
  <2>3. CASE AttemptFails(i)
    <3>1. call[i].at = "await" /\ (UNCHANGED journal \/ Record(i, call[i].mig, "uncertain"))
      BY <2>3 DEF AttemptFails, At
    <3> QED
      BY <1>2, <3>1
  <2>4. CASE ResolveUnknown(i)
    BY <1>2, <2>4 DEF ResolveUnknown
  <2> QED
    BY <1>3, <2>1, <2>2, <2>3, <2>4
    DEF SourceNext, PrefetchDone, MarkSource, TransferDone, TransferFailed, ReceiveResponse,
        QueryAnswered, QueryFails, PollAgain, ResolveActivated, ResolveNotCommitted, GiveAway,
        UndoSource, RestoreSource, CancelReservation, records
<1>4. ASSUME NEW i \in Nodes, ProcessNext(i)
      PROVE  journal'[n][m] = journal[n][m]
  BY <1>4
  DEF ProcessNext, StopProcess, Spawn, SpawnNotNeeded, SpawnRefused, SpawnNotReady,
      MarkRunningAfterSpawn, records
<1>5. ASSUME NEW i \in Nodes, DestinationNext(i)
      PROVE  journal'[n][m] = journal[n][m]
  <2>1. ASSUME NEW j \in Migrations, NEW k \in Attempts, AnswerClaimed(i, j, k)
        PROVE  journal'[n][m] = journal[n][m]
    <3>1. Claiming(reg[i], i, j) /\ i = plan[j].dst /\ Record(i, j, "activated")
      BY <2>1 DEF AnswerClaimed, ClaimedFor, Claiming
    <3>2. journal[i][j] \in {"activated", "activating"}
      BY <3>1, ClaimIs DEF OwnerInv, Landed
    <3> QED
      BY <1>1, <3>1, <3>2 DEF Terminal
  <2>2. ASSUME NEW j \in Migrations, NEW k \in Attempts, StartActivation(i, j, k)
        PROVE  journal'[n][m] = journal[n][m]
    <3>1. /\ i = plan[j].dst /\ j \in Asked /\ ~Claiming(reg[i], i, j)
          /\ journal[i][j] # "rolled_back" /\ Record(i, j, "activating")
      BY <2>2 DEF StartActivation, Asked, ClaimedFor, Claiming
    <3>2. j \in Open
      BY <3>1, Busy DEF OwnerInv
    <3>3. Fits(reg[i], i)
      BY DEF OwnerInv, FitInv
    <3>4. j \notin Landed
      BY <3>1, <3>2, <3>3 DEF Fits
    <3>5. journal[i][j] # "activated"
      BY <3>1, <3>2, <3>4, Plans DEF Landed
    <3> QED
      BY <1>1, <3>1, <3>5 DEF Terminal
  <2>3. CASE ConfirmActivation(i) \/ JournalAbort(i)
    BY <1>2, <2>3 DEF ConfirmActivation, JournalAbort, At
  <2> QED
    BY <1>5, <2>1, <2>2, <2>3
    DEF DestinationNext, AnswerRolledBack, BeginActivation, ClaimTask, CheckpointInvalid,
        ConsumeReservation, AbortActivation, RefuseActivation, records
<1>6. ASSUME NEW i \in Nodes, ReconcileNext(i)
      PROVE  journal'[n][m] = journal[n][m]
  <2>1. ASSUME NEW j \in Migrations, ReconcileCommitted(i, j) \/ ReconcileSettled(i, j)
        PROVE  journal'[n][m] = journal[n][m]
    <3>1. listed[i][j] # "none" /\ (Record(i, j, "activated") \/ Record(i, j, "rolled_back"))
      BY <2>1 DEF ReconcileCommitted, ReconcileSettled, Turn
    <3> QED
      BY <1>1, <3>1 DEF CourseInv, ListedInv
  <2> QED
    BY <1>6, <2>1 DEF ReconcileNext, ListRecords, ReconcileIncomplete, ReconcileSource, records
<1>7. ASSUME NEW i \in Nodes, SchedulerNext(i)
      PROVE  journal'[n][m] = journal[n][m]
  <2>1. PICK d \in Nodes : StartMigration(i, d)
    BY <1>7 DEF SchedulerNext
  <2>2. PICK j \in Migrations : plan[j] = NoPlan /\ Record(i, j, "preparing")
    BY <2>1 DEF StartMigration
  <2>3. journal[i][j] = "none"
    BY <2>2 DEF WriteAheadInv, PlanInv
  <2> QED
    BY <1>1, <2>2, <2>3 DEF Terminal
<1>8. ASSUME NEW i \in Nodes, ServiceNext(i) \/ EnvironmentNext(i)
      PROVE  journal'[n][m] = journal[n][m]
  BY <1>8
  DEF ServiceNext, EnvironmentNext, Gossip, ReconcileRuntime, Recover, StarterSpawn,
      StarterRunning, StarterNotReady, ProcessExits, OperatorStart, Crash, ServiceCrash, records
<1> QED
  BY <1>3, <1>4, <1>5, <1>6, <1>7, <1>8 DEF Next, vars, ExpireReservation, records

(* What migrate, activate_incoming or reconciliation decided once is final: no
   retry, late answer, crash or restart ever rewrites a terminal record. *)
THEOREM DecisionsAreFinal ==
    ASSUME Orderly
    PROVE  Spec => DecisionIsFinal
<1>1. ASSUME TypeOK, WriteAheadInv, CourseInv, OwnerInv, [Next]_vars
      PROVE  [\A m \in Begun, n \in Nodes : journal[n][m] \in Terminal
                                               => journal'[n][m] = journal[n][m]]_vars
  BY <1>1, RecordsStay
<1> QED
  BY <1>1, TypeCorrect, WriteAheadKept, CourseKept, OwnerKept, PTL DEF Spec, DecisionIsFinal

(* The generation of a node's entry falls at the roll back of an activation. *)
LEMMA GenerationsRise ==
    ASSUME TypeOK, WriteAheadInv, CourseInv, OwnerInv, [Next]_vars,
           NEW n \in Nodes, reg'[n].gen < reg[n].gen
    PROVE  call[n].at = "abort"
<1>0. /\ reg[n] \in Entry /\ reg[n].gen \in Nat
      /\ \A i \in Nodes : reg[i] \in Entry
  BY DEF TypeOK, Entry
<1>1. ASSUME NEW i \in Nodes, Keeps(i)
      PROVE  FALSE
  BY <1>0, <1>1 DEF Keeps
<1>2. ASSUME NEW i \in Nodes, NEW f, Write(i, f)
      PROVE  i = n /\ f.gen < reg[n].gen
  BY <1>0, <1>2 DEF Write, TypeOK
<1>3. reg' # reg
  BY <1>0
<1>4. ASSUME NEW i \in Nodes, SourceNext(i)
      PROVE  FALSE
  <2> DEFINE m == call[i].mig
  <2>1. CASE MarkSource(i)
    <3>1. Write(i, MarkMigrating(reg[i], m))
      BY <1>3, <2>1 DEF MarkSource
    <3>2. MarkMigrating(reg[i], m).gen = reg[i].gen
      BY <1>0 DEF MarkMigrating, Entry
    <3>3. i = n /\ MarkMigrating(reg[i], m).gen < reg[n].gen
      BY <1>2, <3>1
    <3> QED
      BY <1>0, <3>2, <3>3
  <2>2. CASE ResolveUnknown(i)
    BY <1>1, <2>2, WriteKeeps DEF ResolveUnknown
  <2>3. CASE GiveAway(i)
    <3> DEFINE f == MarkRemote(reg[i], plan[m].dst, plan[m].gen, m)
    <3>1. call[i].at = "remote" /\ Write(i, f)
      BY <2>3 DEF GiveAway
    <3>2. i = n /\ f.gen < reg[n].gen
      BY <1>2, <3>1
    <3>3. m \in Open
      BY <3>1, Busy DEF OwnerInv
    <3>4. /\ plan[m].gen \in Nat
          /\ \A j \in Landed : plan[j].gen <= plan[m].gen
          /\ \A j \in Open : j = m
      BY <3>3, Plans DEF OwnerInv, OrderInv
    <3>5. Fits(reg[n], n)
      BY DEF OwnerInv, FitInv
    <3>6. reg[n].gen <= plan[m].gen
      BY <1>0, <3>4, <3>5 DEF Fits, Proper, Held, Claiming
    <3>7. f.gen = plan[m].gen \/ f = reg[i]
      BY <1>0 DEF MarkRemote, Entry
    <3> QED
      BY <1>0, <3>2, <3>4, <3>6, <3>7
  <2>4. CASE UndoSource(i)
    <3> DEFINE o == original[i][m]
               f == RestoreLocal(i, o, Previous(plan[m].gen))
    <3>1. call[i].at = "undo" /\ Write(i, f)
      BY <2>4 DEF UndoSource
    <3>2. call[i].kind # "destination"
      BY <3>1, RoleAt DEF Role, DestinationPlace
    <3>3. m \in Open /\ m \in Migrations /\ i = plan[m].src /\ Kept(m)
      BY <3>1, <3>2, AtSource DEF ResolvePlace, TakeBack, OwnerInv, StandInv, Stands
    <3>4. m \in Open \ Landed
      BY <3>3 DEF Kept, Landed
    <3>5. reg[i].gen + 1 = plan[m].gen
      BY <3>3, <3>4, SourceProper
    <3>6. o \in Entry /\ o.gen + 1 = plan[m].gen
      BY <3>3 DEF OwnerInv, OriginInv, TypeOK
    <3>7. Previous(plan[m].gen) = reg[i].gen
      BY <1>0, <3>5 DEF Previous, Entry
    <3>8. f.gen = reg[i].gen
      BY <3>6, <3>7 DEF RestoreLocal, Entry
    <3> QED
      BY <1>0, <1>2, <3>1, <3>8
  <2>5. CASE RestoreSource(i)
    <3> DEFINE f == RestoreLocal(i, reg[i], original[i][m].gen)
    <3>1. At(i, "source", "restore") /\ Write(i, f)
      BY <2>5 DEF RestoreSource
    <3>2. m \in Open /\ m \in Migrations /\ i = plan[m].src /\ Kept(m)
      BY <3>1, AtSource DEF At, TakeBack, OwnerInv, StandInv, Stands
    <3>3. m \in Open \ Landed
      BY <3>2 DEF Kept, Landed
    <3>4. reg[i].gen + 1 = plan[m].gen
      BY <3>2, <3>3, SourceProper
    <3>5. original[i][m] \in Entry /\ original[i][m].gen + 1 = plan[m].gen
      BY <3>2 DEF OwnerInv, OriginInv, TypeOK
    <3>6. original[i][m].gen = reg[i].gen
      BY <1>0, <3>4, <3>5 DEF Entry
    <3>7. f.gen = reg[i].gen
      BY <1>0, <3>6 DEF RestoreLocal, Entry
    <3> QED
      BY <1>0, <1>2, <3>1, <3>7
  <2> QED
    BY <1>3, <1>4, <2>1, <2>2, <2>3, <2>4, <2>5
    DEF SourceNext, PrefetchDone, PrefetchFailed, JournalTransfer, TransferDone, TransferFailed,
        RequestActivation, ReceiveResponse, AttemptFails, QueryAnswered, QueryFails, PollAgain,
        ResolveActivated, ResolveNotCommitted, CommitSource, JournalUndo, CancelReservation
<1>5. ASSUME NEW i \in Nodes, ProcessNext(i)
      PROVE  FALSE
  <2>1. ASSUME NEW e \in {reg[i], MarkFailed(reg[i])}, StartRaised(i, e)
        PROVE  FALSE
    <3>1. MarkFailed(e) \in {reg[i], MarkFailed(reg[i])}
      BY <1>0 DEF MarkFailed, Entry
    <3> QED
      BY <1>1, <2>1, <3>1, WriteKeeps DEF StartRaised
  <2>2. CASE MarkRunningAfterSpawn(i)
    <3>1. call[i].pid \in Pids \cup {NoPid}
      BY DEF TypeOK, Call
    <3> QED
      BY <1>1, <2>1, <2>2, <3>1, WriteKeeps DEF MarkRunningAfterSpawn
  <2>3. CASE StopProcess(i)
    BY <1>1, <2>3, WriteKeeps DEF StopProcess
  <2> QED
    BY <1>3, <1>5, <2>1, <2>2, <2>3
    DEF ProcessNext, Spawn, SpawnNotNeeded, SpawnRefused, SpawnNotReady
<1>6. ASSUME NEW i \in Nodes, DestinationNext(i)
      PROVE  call[n].at = "abort"
  <2>1. CASE ClaimTask(i)
    <3> DEFINE f == ClaimLocal(i, reg[i], plan[call[i].mig].gen, call[i].mig)
    <3>1. Write(i, f) /\ CanClaim(reg[i], plan[call[i].mig].gen)
      BY <1>3, <2>1 DEF ClaimTask
    <3>2. f.gen = plan[call[i].mig].gen
      BY <1>0 DEF ClaimLocal, Entry
    <3>3. plan[call[i].mig].gen \in Nat
      BY <2>1, Plans DEF ClaimTask, At, TypeOK
    <3> QED
      BY <1>0, <1>2, <3>1, <3>2, <3>3 DEF CanClaim
  <2>2. CASE AbortActivation(i)
    BY <1>2, <2>2 DEF AbortActivation
  <2> QED
    BY <1>3, <1>6, <2>1, <2>2
    DEF DestinationNext, AnswerClaimed, AnswerRolledBack, StartActivation, BeginActivation,
        CheckpointInvalid, ConsumeReservation, ConfirmActivation, JournalAbort, RefuseActivation
<1>7. ASSUME NEW i \in Nodes, ServiceNext(i)
      PROVE  FALSE
  <2>1. ASSUME NEW j \in Nodes, Gossip(i, j)
        PROVE  FALSE
    <3> DEFINE f == ApplyOwnership(i, reg[i], Claim(reg[j]))
    <3>1. Write(i, f) /\ Accepts(reg[i], Claim(reg[j]))
      BY <2>1 DEF Gossip
    <3>2. f.gen = reg[j].gen /\ reg[j].gen >= reg[i].gen
      BY <1>0, <3>1 DEF ApplyOwnership, Accepts, Claim, Entry
    <3>3. reg[j].gen \in Nat
      BY <1>0 DEF Entry
    <3> QED
      BY <1>0, <1>2, <3>1, <3>2, <3>3
  <2>2. CASE StarterRunning(i)
    <3>1. starter[i].pid \in Pids \cup {NoPid}
      BY DEF TypeOK
    <3> QED
      BY <1>1, <2>2, <3>1, WriteKeeps DEF StarterRunning
  <2>3. CASE ReconcileRuntime(i) \/ Recover(i) \/ StarterNotReady(i)
    BY <1>1, <2>3, WriteKeeps DEF ReconcileRuntime, Recover, StarterNotReady
  <2> QED
    BY <1>3, <1>7, <2>1, <2>2, <2>3 DEF ServiceNext, StarterSpawn
<1> QED
  BY <1>3, <1>4, <1>5, <1>6, <1>7
  DEF Next, vars, ExpireReservation, SchedulerNext, StartMigration, ReconcileNext, ListRecords,
      ReconcileCommitted, ReconcileIncomplete, ReconcileSettled, ReconcileSource,
      EnvironmentNext, ProcessExits, OperatorStart, Crash, ServiceCrash

(* The generation of a node's entry, the fence that apply_ownership compares,
   falls only where activate_incoming or reconciliation undoes the claim of this
   very node: no message, restore or restart takes it back. *)
THEOREM GenerationsAreMonotone ==
    ASSUME Orderly
    PROVE  Spec => GenerationFallsOnlyOnAbort
<1>1. ASSUME TypeOK, WriteAheadInv, CourseInv, OwnerInv, [Next]_vars
      PROVE  [\A n \in Nodes : reg'[n].gen < reg[n].gen => call[n].at = "abort"]_vars
  BY <1>1, GenerationsRise
<1> QED
  BY <1>1, TypeCorrect, WriteAheadKept, CourseKept, OwnerKept, PTL
  DEF Spec, GenerationFallsOnlyOnAbort


-------------------------------------------------------------------------------
(* A reservation is consumed by every activation that commits. *)

(* A node changes its own entry and its own call. *)
LEMMA OneActs ==
    ASSUME TypeOK, NEW i \in Nodes,
           \/ SchedulerNext(i) \/ SourceNext(i)  \/ ProcessNext(i) \/ DestinationNext(i)
           \/ ReconcileNext(i) \/ ServiceNext(i) \/ EnvironmentNext(i)
    PROVE  Elsewhere(i) /\ \A j \in Nodes : j # i => reg'[j] = reg[j]
<1> DEFINE Edited == UNCHANGED call \/ \E c : call' = [call EXCEPT ![i] = c]
           Written == UNCHANGED reg \/ \E e : reg' = [reg EXCEPT ![i] = e]
<1>0. Edited /\ Written => Elsewhere(i) /\ \A j \in Nodes : j # i => reg'[j] = reg[j]
  BY DEF Elsewhere, TypeOK
<1>1. /\ \A p : Go(i, p) => Edited
      /\ Release(i) => Edited
      /\ \A e : Write(i, e) => Written
      /\ \A m, p : TakeUp(i, m, p) => Edited
      /\ \A c : call' = [call EXCEPT ![i] = c] => Edited
      /\ UNCHANGED call => Edited
      /\ UNCHANGED reg => Written
  BY DEF Go, Release, Write, TakeUp
<1> HIDE DEF Edited, Written
<1>2. CASE SchedulerNext(i)
  BY <1>0, <1>1, <1>2 DEF SchedulerNext, StartMigration
<1>3. CASE SourceNext(i)
  <2>1. CASE AttemptFails(i)
    <3>1. \/ \E k : call' = [call EXCEPT ![i] = [@ EXCEPT !.attempt = k]]
          \/ Go(i, "query")
      BY <2>1 DEF AttemptFails
    <3>2. UNCHANGED reg
      BY <2>1 DEF AttemptFails
    <3> QED
      BY <1>0, <1>1, <3>1, <3>2
  <2>2. CASE ReceiveResponse(i)
    <3>1. \E p : Go(i, p)
      BY <2>2 DEF ReceiveResponse
    <3> QED
      BY <1>0, <1>1, <2>2, <3>1 DEF ReceiveResponse
  <2>3. CASE MarkSource(i) \/ ResolveUnknown(i) \/ JournalUndo(i) \/ RestoreSource(i)
             \/ GiveAway(i) \/ UndoSource(i)
    BY <1>0, <1>1, <2>3
    DEF MarkSource, ResolveUnknown, JournalUndo, RestoreSource, GiveAway, UndoSource
  <2> QED
    BY <1>0, <1>1, <1>3, <2>1, <2>2, <2>3
    DEF SourceNext, PrefetchDone, PrefetchFailed, JournalTransfer, TransferDone, TransferFailed,
        RequestActivation, QueryAnswered, QueryFails, PollAgain, ResolveActivated,
        ResolveNotCommitted, CommitSource, CancelReservation
<1>4. CASE ProcessNext(i)
  <2>1. CASE StopProcess(i)
    <3>1. \E c : call' = [call EXCEPT ![i] = c]
      BY <2>1 DEF StopProcess
    <3> QED
      BY <1>0, <1>1, <2>1, <3>1 DEF StopProcess
  <2>2. CASE Spawn(i)
    <3>1. \E c : call' = [call EXCEPT ![i] = c]
      BY <2>2 DEF Spawn
    <3> QED
      BY <1>0, <1>1, <2>2, <3>1 DEF Spawn
  <2>3. CASE MarkRunningAfterSpawn(i)
    <3>1. \E c : call' = [call EXCEPT ![i] = c]
      BY <2>3 DEF MarkRunningAfterSpawn, StartRaised, Go
    <3>2. \E e : Write(i, e)
      BY <2>3 DEF MarkRunningAfterSpawn, StartRaised
    <3> QED
      BY <1>0, <1>1, <3>1, <3>2
  <2>4. CASE SpawnNotNeeded(i) \/ SpawnRefused(i) \/ SpawnNotReady(i)
    BY <1>0, <1>1, <2>4 DEF SpawnNotNeeded, SpawnRefused, SpawnNotReady, StartRaised
  <2> QED
    BY <1>4, <2>1, <2>2, <2>3, <2>4 DEF ProcessNext
<1>5. CASE DestinationNext(i)
  <2>1. CASE \/ BeginActivation(i) \/ ClaimTask(i) \/ CheckpointInvalid(i)
             \/ ConsumeReservation(i) \/ AbortActivation(i) \/ ConfirmActivation(i)
             \/ JournalAbort(i) \/ RefuseActivation(i)
    BY <1>0, <1>1, <2>1
    DEF BeginActivation, ClaimTask, CheckpointInvalid, ConsumeReservation, AbortActivation,
        ConfirmActivation, JournalAbort, RefuseActivation
  <2>2. ASSUME NEW m \in Migrations, NEW k \in Attempts,
               AnswerClaimed(i, m, k) \/ AnswerRolledBack(i, m, k) \/ StartActivation(i, m, k)
        PROVE  Edited /\ Written
    BY <1>1, <2>2 DEF AnswerClaimed, AnswerRolledBack, StartActivation
  <2> QED
    BY <1>0, <1>5, <2>1, <2>2 DEF DestinationNext
<1>6. CASE ReconcileNext(i)
  BY <1>0, <1>1, <1>6
  DEF ReconcileNext, ListRecords, ReconcileCommitted, ReconcileIncomplete, ReconcileSettled,
      ReconcileSource
<1>7. CASE ServiceNext(i)
  BY <1>0, <1>1, <1>7
  DEF ServiceNext, Gossip, ReconcileRuntime, Recover, StarterSpawn, StarterRunning, StarterNotReady
<1>8. CASE EnvironmentNext(i)
  BY <1>0, <1>1, <1>8
  DEF EnvironmentNext, ProcessExits, OperatorStart, Crash, ServiceCrash, Forget
<1> QED
  BY <1>2, <1>3, <1>4, <1>5, <1>6, <1>7, <1>8

(* A plan that was made stays, and a consumed reservation stays consumed. *)
LEMMA PlansStay ==
    ASSUME TypeOK, WriteAheadInv, [Next]_vars, NEW m \in Begun
    PROVE  /\ plan'[m] = plan[m]
           /\ m \in Begun'
           /\ bid[m] = "consumed" => bid'[m] = "consumed"
<1>0. m \in Migrations /\ plan[m] # NoPlan
  BY DEF Begun
<1> SUFFICES plan'[m] = plan[m] /\ (bid[m] = "consumed" => bid'[m] = "consumed")
  BY <1>0 DEF Begun
<1>1. ASSUME NEW j \in Migrations, NEW b,
             bid' = [bid EXCEPT ![j] = b], bid[j] = "consumed" => b = "consumed"
      PROVE  bid[m] = "consumed" => bid'[m] = "consumed"
  BY <1>0, <1>1 DEF TypeOK
<1>2. ASSUME NEW i \in Nodes, SchedulerNext(i)
      PROVE  plan'[m] = plan[m] /\ (bid[m] = "consumed" => bid'[m] = "consumed")
  BY <1>0, <1>2 DEF SchedulerNext, StartMigration, TypeOK
<1>3. ASSUME NEW i \in Nodes, SourceNext(i)
      PROVE  plan'[m] = plan[m] /\ (bid[m] = "consumed" => bid'[m] = "consumed")
  <2>1. CASE CancelReservation(i)
    <3>1. call[i].mig \in Migrations
      BY <2>1 DEF CancelReservation, At, TypeOK
    <3>2. Cancelled("consumed") = "consumed"
      BY DEF Cancelled, HeldBid
    <3> QED
      BY <1>1, <2>1, <3>1, <3>2 DEF CancelReservation
  <2> QED
    BY <1>3, <2>1
    DEF SourceNext, PrefetchDone, PrefetchFailed, MarkSource, JournalTransfer, TransferDone,
        TransferFailed, RequestActivation, ReceiveResponse, AttemptFails, QueryAnswered,
        QueryFails, PollAgain, ResolveActivated, ResolveNotCommitted, ResolveUnknown, GiveAway,
        CommitSource, UndoSource, RestoreSource, JournalUndo
<1>4. ASSUME NEW i \in Nodes, ProcessNext(i)
      PROVE  plan'[m] = plan[m] /\ (bid[m] = "consumed" => bid'[m] = "consumed")
  BY <1>4
  DEF ProcessNext, StopProcess, Spawn, SpawnNotNeeded, SpawnRefused, SpawnNotReady,
      MarkRunningAfterSpawn
<1>5. ASSUME NEW i \in Nodes, DestinationNext(i)
      PROVE  plan'[m] = plan[m] /\ (bid[m] = "consumed" => bid'[m] = "consumed")
  <2>0. call[i].at # "idle" => call[i].mig \in Migrations
    BY DEF TypeOK
  <2>1. Cancelled("consumed") = "consumed"
    BY DEF Cancelled, HeldBid
  <2>2. CASE BeginActivation(i) \/ ConsumeReservation(i)
    BY <1>1, <2>0, <2>2 DEF BeginActivation, ConsumeReservation, At
  <2>3. CASE JournalAbort(i) \/ RefuseActivation(i)
    BY <1>1, <2>0, <2>1, <2>3 DEF JournalAbort, RefuseActivation, At
  <2> QED
    BY <1>5, <2>2, <2>3
    DEF DestinationNext, AnswerClaimed, AnswerRolledBack, StartActivation, ClaimTask,
        CheckpointInvalid, ConfirmActivation, AbortActivation
<1>6. ASSUME NEW i \in Nodes, ReconcileNext(i)
      PROVE  plan'[m] = plan[m] /\ (bid[m] = "consumed" => bid'[m] = "consumed")
  <2>1. ASSUME NEW j \in Migrations, ReconcileCommitted(i, j)
        PROVE  plan'[m] = plan[m] /\ (bid[m] = "consumed" => bid'[m] = "consumed")
    BY <1>1, <2>1 DEF ReconcileCommitted
  <2> QED
    BY <1>6, <2>1 DEF ReconcileNext, ListRecords, ReconcileIncomplete, ReconcileSettled, ReconcileSource
<1>7. ASSUME NEW i \in Nodes, ServiceNext(i) \/ EnvironmentNext(i)
      PROVE  plan'[m] = plan[m] /\ (bid[m] = "consumed" => bid'[m] = "consumed")
  BY <1>7
  DEF ServiceNext, EnvironmentNext, Gossip, ReconcileRuntime, Recover, StarterSpawn,
      StarterRunning, StarterNotReady, ProcessExits, OperatorStart, Crash, ServiceCrash
<1>8. ASSUME NEW j \in Migrations, ExpireReservation(j)
      PROVE  plan'[m] = plan[m] /\ (bid[m] = "consumed" => bid'[m] = "consumed")
  BY <1>1, <1>8 DEF ExpireReservation, HeldBid
<1> QED
  BY <1>2, <1>3, <1>4, <1>5, <1>6, <1>7, <1>8 DEF Next, vars


(* The places between the claim and the commit, or the roll back. *)
ClaimPlace == {"spawn", "running", "consume", "confirm", "kill", "abort"}

(* A destination that takes itself for the owner by the open migration is still
   in the call that claimed it. *)
ClaimedInCall ==
    \A m \in Open \ Landed :
        LET d == plan[m].dst
        IN  reg[d].owner = d => call[d].kind = "destination" /\ call[d].at \in ClaimPlace

ConsumedInv ==
    /\ \A m \in Landed : bid[m] = "consumed"
    /\ \A n \in Nodes : call[n].at = "confirm" => bid[call[n].mig] = "consumed"
    /\ ClaimedInCall

(* A migration lands by the commit of the call that claimed it. *)
LEMMA LandsByConfirm ==
    ASSUME TypeOK, WriteAheadInv, CourseInv, OwnerInv, ConsumedInv, [Next]_vars,
           NEW m \in Begun, m \notin Landed, m \in Landed'
    PROVE  \E n \in Nodes : ConfirmActivation(n) /\ call[n].mig = m
<1>0. /\ m \in Migrations /\ plan'[m] = plan[m] /\ plan[m].dst \in Nodes
      /\ plan[m].src # plan[m].dst
  BY PlansStay, Plans
<1> DEFINE d == plan[m].dst
<1>1. journal'[d][m] = "activated" /\ journal[d][m] # "activated"
  BY <1>0 DEF Landed
<1>2. ASSUME NEW i \in Nodes, NEW j \in Migrations, NEW w, Record(i, j, w)
      PROVE  i = d /\ j = m /\ w = "activated"
  <2>1. Writes(i, j, w)
    BY <1>2, RecordWrites
  <2> QED
    BY <1>0, <1>1, <2>1 DEF Writes
<1>3. journal' # journal
  BY <1>1
(* A node that has claimed and not committed is in its call. *)
<1>4. Free(d) => ~Claiming(reg[d], d, m)
  <2> SUFFICES ASSUME Free(d), Claiming(reg[d], d, m) PROVE FALSE
    OBVIOUS
  <2>1. m \in Open \ Landed
    BY <1>0, ClaimIs DEF OwnerInv
  <2>2. call[d].at \in ClaimPlace
    BY <2>1 DEF Claiming, ConsumedInv, ClaimedInCall
  <2> QED
    BY <2>2 DEF Free, ClaimPlace
<1>5. ASSUME NEW i \in Nodes, SourceNext(i)
      PROVE  FALSE
  <2>1. \E w : Record(i, call[i].mig, w) /\ call[i].mig \in Migrations
                  /\ call[i].at \notin {"idle", "cancel", "refuse"} /\ call[i].kind # "destination"
                  /\ call[i].at \in SourcePlace /\ (call[i].at = "kill" => call[i].kind = "source")
    <3>1. CASE AttemptFails(i)
      BY <1>3, <3>1 DEF AttemptFails, At, TypeOK, SourcePlace
    <3>2. CASE CommitSource(i) \/ JournalUndo(i) \/ ResolveUnknown(i)
      <4>1. /\ call[i].at \in {"commit", "journalUndo", "decide"} /\ call[i].mig \in Migrations
            /\ \E w : Record(i, call[i].mig, w)
        BY <1>3, <3>2 DEF CommitSource, JournalUndo, ResolveUnknown, TypeOK
      <4> QED
        BY <4>1, RoleAt DEF Role, DestinationPlace, SourcePlace
    <3>3. CASE PrefetchFailed(i) \/ JournalTransfer(i) \/ RequestActivation(i)
      BY <3>3 DEF PrefetchFailed, JournalTransfer, RequestActivation, At, TypeOK, SourcePlace
    <3> QED
      BY <1>3, <1>5, <3>1, <3>2, <3>3
      DEF SourceNext, PrefetchDone, MarkSource, TransferDone, TransferFailed, ReceiveResponse,
          QueryAnswered, QueryFails, PollAgain, ResolveActivated, ResolveNotCommitted, GiveAway,
          UndoSource, RestoreSource, CancelReservation, records
  <2>2. i = d /\ call[i].mig = m
    BY <1>2, <2>1
  <2> QED
    BY <1>0, <2>1, <2>2, RoleAt DEF Role, SourcePlace, RevertPlace
<1>6. ASSUME NEW i \in Nodes, ProcessNext(i)
      PROVE  FALSE
  BY <1>3, <1>6
  DEF ProcessNext, StopProcess, Spawn, SpawnNotNeeded, SpawnRefused, SpawnNotReady,
      MarkRunningAfterSpawn, records
<1>7. ASSUME NEW i \in Nodes, DestinationNext(i)
      PROVE  \E n \in Nodes : ConfirmActivation(n) /\ call[n].mig = m
  <2>1. ASSUME NEW j \in Migrations, NEW k \in Attempts, AnswerClaimed(i, j, k)
        PROVE  FALSE
    <3>1. Free(i) /\ Claiming(reg[i], i, j) /\ Record(i, j, "activated")
      BY <2>1 DEF AnswerClaimed, ClaimedFor, Claiming
    <3> QED
      BY <1>2, <1>4, <3>1
  <2>2. ASSUME NEW j \in Migrations, NEW k \in Attempts, StartActivation(i, j, k)
        PROVE  FALSE
    BY <1>2, <2>2 DEF StartActivation
  <2>3. CASE ConfirmActivation(i)
    <3>1. call[i].mig \in Migrations /\ Record(i, call[i].mig, "activated")
      BY <2>3 DEF ConfirmActivation, At, TypeOK
    <3> QED
      BY <1>2, <2>3, <3>1
  <2>4. CASE JournalAbort(i)
    <3>1. call[i].mig \in Migrations /\ Record(i, call[i].mig, "rolled_back")
      BY <2>4 DEF JournalAbort, TypeOK
    <3> QED
      BY <1>2, <3>1
  <2> QED
    BY <1>3, <1>7, <2>1, <2>2, <2>3, <2>4
    DEF DestinationNext, AnswerRolledBack, BeginActivation, ClaimTask, CheckpointInvalid,
        ConsumeReservation, AbortActivation, RefuseActivation, records
<1>8. ASSUME NEW i \in Nodes, ReconcileNext(i)
      PROVE  FALSE
  <2>1. ASSUME NEW j \in Migrations, ReconcileCommitted(i, j)
        PROVE  FALSE
    <3>1. Free(i) /\ Claiming(reg[i], i, j) /\ Record(i, j, "activated")
      BY <2>1 DEF ReconcileCommitted, Committed, ClaimedFor, Claiming, Turn
    <3> QED
      BY <1>2, <1>4, <3>1
  <2>2. ASSUME NEW j \in Migrations, ReconcileSettled(i, j)
        PROVE  FALSE
    <3>1. i = plan[j].src /\ \E w : Record(i, j, w)
      BY <2>2 DEF ReconcileSettled
    <3> QED
      BY <1>0, <1>2, <3>1
  <2> QED
    BY <1>3, <1>8, <2>1, <2>2 DEF ReconcileNext, ListRecords, ReconcileIncomplete, ReconcileSource, records
<1>9. ASSUME NEW i \in Nodes, SchedulerNext(i)
      PROVE  FALSE
  <2>1. \E j \in Migrations : Record(i, j, "preparing")
    BY <1>9 DEF SchedulerNext, StartMigration
  <2> QED
    BY <1>2, <2>1
<1>10. ASSUME NEW i \in Nodes, ServiceNext(i) \/ EnvironmentNext(i)
       PROVE  FALSE
  BY <1>3, <1>10
  DEF ServiceNext, EnvironmentNext, Gossip, ReconcileRuntime, Recover, StarterSpawn,
      StarterRunning, StarterNotReady, ProcessExits, OperatorStart, Crash, ServiceCrash, records
<1> QED
  BY <1>3, <1>5, <1>6, <1>7, <1>8, <1>9, <1>10 DEF Next, vars, ExpireReservation, records

(* Node i, which acts, keeps its part of it. *)
ConsumedAt(i) ==
    /\ call'[i].at = "confirm" => call'[i].mig \in Begun /\ bid'[call'[i].mig] = "consumed"
    /\ \A m \in Open \ Landed :
          i = plan[m].dst /\ m \notin Landed' /\ reg'[i].owner = i =>
             call'[i].kind = "destination" /\ call'[i].at \in ClaimPlace

(* A destination that takes itself for the owner is busy with the open migration. *)
LEMMA ClaimedBusy ==
    ASSUME TypeOK, WriteAheadInv, CourseInv, OwnerInv, ConsumedInv, NEW i \in Nodes,
           NEW m \in Open \ Landed, i = plan[m].dst
    PROVE  /\ m \in Begun /\ m \in Migrations
           /\ \A j \in Open : j = m
           /\ call[i].at \notin {"idle", "cancel", "refuse"} =>
                 call[i].mig = m /\ call[i].kind # "source" /\ i # plan[m].src
           /\ reg[i].owner = i => call[i].kind = "destination" /\ call[i].at \in ClaimPlace
           /\ reg[i].owner = i => reg[i].last = m /\ reg[i].gen = plan[m].gen
                                  /\ journal[i][m] = "activating"
<1>1. m \in Begun /\ m \in Migrations /\ plan[m].src # plan[m].dst
  BY Plans
<1>2. \A j \in Open : j = m
  BY DEF OwnerInv, OrderInv
<1>3. call[i].at \notin {"idle", "cancel", "refuse"} => call[i].mig = m
  BY <1>2, Busy DEF OwnerInv
<1>4. call[i].kind = "source" => i = plan[call[i].mig].src
  BY DEF CourseInv, RoleInv, Role
<1>5. reg[i].owner = i => Claiming(reg[i], i, m) /\ journal[i][m] = "activating"
  <2> SUFFICES ASSUME reg[i].owner = i
               PROVE  Claiming(reg[i], i, m) /\ journal[i][m] = "activating"
    OBVIOUS
  <2>1. Claiming(reg[i], i, m)
    BY <1>1, OwnerIsSource
  <2>2. plan[m].gen > 0 /\ plan[m].gen \in Nat
    BY <1>1 DEF OwnerInv, OrderInv, TypeOK, Plan
  <2>3. ~Proper(reg[i])
    BY <1>1, <2>1, <2>2 DEF Proper, Claiming
  <2> QED
    BY <1>2, <2>1, <2>3 DEF OwnerInv, FitInv, Fits
<1> QED
  BY <1>1, <1>2, <1>3, <1>4, <1>5 DEF ConsumedInv, ClaimedInCall, Claiming

(* Steps that do not take the node for the owner, other than at the source,
   and leave a call that has claimed the task where it may be. *)
LEMMA ConsumedKeeps ==
    ASSUME TypeOK, WriteAheadInv, CourseInv, OwnerInv, ConsumedInv, NEW i \in Nodes,
           call'[i].at # "confirm" \/ UNCHANGED <<call, bid, plan>>,
           reg'[i].owner = i =>
              \/ reg[i].owner = i
              \/ call[i].at \notin {"idle", "cancel", "refuse"} /\ i = plan[call[i].mig].src,
           \A m \in Open \ Landed :
              /\ i = plan[m].dst /\ reg'[i].owner = i /\ m \notin Landed' /\ call[i].mig = m
              /\ call[i].kind = "destination" /\ call[i].at \in ClaimPlace
              => call'[i].kind = "destination" /\ call'[i].at \in ClaimPlace
    PROVE  ConsumedAt(i)
<1>1. call'[i].at = "confirm" => call'[i].mig \in Begun /\ bid'[call'[i].mig] = "consumed"
  BY CallPlaces DEF ConsumedInv, Begun
<1>2. ASSUME NEW m \in Open \ Landed, i = plan[m].dst, m \notin Landed', reg'[i].owner = i
      PROVE  call'[i].kind = "destination" /\ call'[i].at \in ClaimPlace
  <2>1. reg[i].owner = i
    BY <1>2, ClaimedBusy
  <2>2. call[i].kind = "destination" /\ call[i].at \in ClaimPlace
    BY <1>2, <2>1, ClaimedBusy
  <2>3. call[i].mig = m
    BY <1>2, <2>2, ClaimedBusy DEF ClaimPlace
  <2> QED
    BY <1>2, <2>2, <2>3
<1> QED
  BY <1>1, <1>2 DEF ConsumedAt

LEMMA SourceConsumed ==
    ASSUME TypeOK, WriteAheadInv, CourseInv, OwnerInv, ConsumedInv, NEW i \in Nodes,
           SourceNext(i)
    PROVE  ConsumedAt(i)
<1>0. call[i] \in Call
  BY DEF TypeOK
<1>1. \/ call[i].at \in {"prefetch", "mark", "journalTransfer", "transfer", "request",
                         "await", "query", "decide", "remote", "commit", "undo", "restore",
                         "journalUndo"}
      \/ At(i, "source", "cancel") /\ UNCHANGED reg
  BY DEF SourceNext, PrefetchDone, PrefetchFailed, MarkSource, JournalTransfer, TransferDone,
         TransferFailed, RequestActivation, ReceiveResponse, AttemptFails, QueryAnswered,
         QueryFails, PollAgain, ResolveActivated, ResolveNotCommitted, ResolveUnknown,
         GiveAway, CommitSource, UndoSource, RestoreSource, JournalUndo, CancelReservation, At
<1>2. call[i].kind # "destination"
  BY <1>1, RoleAt DEF Role, DestinationPlace, At
<1>3. \/ call[i].at \notin {"idle", "cancel", "refuse"} /\ i = plan[call[i].mig].src
      \/ UNCHANGED reg
  BY <1>1, RoleAt DEF Role, DestinationPlace, RevertPlace
<1>4. ASSUME NEW p, p # "confirm", Go(i, p)
      PROVE  call'[i].at # "confirm"
  BY <1>4, GoMoves DEF Moves
<1>5. ASSUME Release(i)
      PROVE  call'[i].at # "confirm"
  BY <1>5, ReleaseIdles DEF Idles
<1>6. ASSUME NEW c, c.at \in {"await", "decide"}, call' = [call EXCEPT ![i] = c]
      PROVE  call'[i].at # "confirm"
  BY <1>6 DEF TypeOK
<1>7. CASE RequestActivation(i)
  <2> DEFINE c == [call[i] EXCEPT !.at = "await", !.attempt = 1]
  <2>1. call' = [call EXCEPT ![i] = c]
    BY <1>7 DEF RequestActivation
  <2>2. c.at = "await"
    BY <1>0 DEF Call
  <2> HIDE DEF c
  <2>3. call'[i].at # "confirm"
    BY <2>1, <2>2 DEF TypeOK
  <2> QED
    BY <1>2, <1>3, <2>3, ConsumedKeeps
<1>8. CASE AttemptFails(i)
  <2> DEFINE k == call[i].attempt + 1
             c == [call[i] EXCEPT !.attempt = k]
  <2>1. call' = [call EXCEPT ![i] = c] \/ Go(i, "query")
    BY <1>8 DEF AttemptFails
  <2>2. call[i].at = "await"
    BY <1>8 DEF AttemptFails, At
  <2> HIDE DEF k
  <2>3. c.at = "await"
    BY <1>0, <2>2 DEF Call
  <2> HIDE DEF c
  <2> QED
    BY <1>2, <1>3, <1>4, <1>6, <2>1, <2>3, ConsumedKeeps
<1>9. CASE QueryAnswered(i) \/ QueryFails(i)
  <2> DEFINE w == journal[plan[call[i].mig].dst][call[i].mig]
             c == [call[i] EXCEPT !.at = "decide", !.reached = TRUE, !.answer = w]
             d == [call[i] EXCEPT !.at = "decide", !.answer = "none"]
  <2>1. call' = [call EXCEPT ![i] = c] \/ call' = [call EXCEPT ![i] = d]
    BY <1>9 DEF QueryAnswered, QueryFails
  <2> HIDE DEF w
  <2>2. c.at = "decide" /\ d.at = "decide"
    BY <1>0 DEF Call
  <2> HIDE DEF c, d
  <2> QED
    BY <1>2, <1>3, <1>6, <2>1, <2>2, ConsumedKeeps
<1>10. CASE ReceiveResponse(i)
  <2>1. Go(i, "remote") \/ Go(i, "restore")
    BY <1>10 DEF ReceiveResponse
  <2> QED
    BY <1>2, <1>3, <1>4, <2>1, ConsumedKeeps
<1>11. CASE RestoreSource(i) \/ MarkSource(i) \/ JournalUndo(i) \/ ResolveUnknown(i)
  <2>1. Go(i, "spawn") \/ Go(i, "journalUndo") \/ Go(i, "journalTransfer") \/ Go(i, "restore")
        \/ Go(i, "cancel") \/ Release(i)
    BY <1>11 DEF RestoreSource, MarkSource, JournalUndo, ResolveUnknown
  <2> QED
    BY <1>2, <1>3, <1>4, <1>5, <2>1, ConsumedKeeps
<1>12. CASE PrefetchDone(i) \/ PrefetchFailed(i) \/ JournalTransfer(i) \/ TransferDone(i)
            \/ TransferFailed(i) \/ PollAgain(i) \/ ResolveActivated(i) \/ ResolveNotCommitted(i)
            \/ GiveAway(i) \/ CommitSource(i) \/ UndoSource(i) \/ CancelReservation(i)
  <2>1. \/ \E p \in {"mark", "cancel", "kill", "request", "restore", "query", "remote", "undo",
                     "commit", "spawn"} : Go(i, p)
        \/ Release(i)
    BY <1>12 DEF PrefetchDone, PrefetchFailed, JournalTransfer, TransferDone,
           TransferFailed, PollAgain, ResolveActivated, ResolveNotCommitted, GiveAway,
           CommitSource, UndoSource, CancelReservation
  <2> QED
    BY <1>2, <1>3, <1>4, <1>5, <2>1, ConsumedKeeps
<1> QED
  BY <1>7, <1>8, <1>9, <1>10, <1>11, <1>12 DEF SourceNext

LEMMA ProcessConsumed ==
    ASSUME TypeOK, WriteAheadInv, CourseInv, OwnerInv, ConsumedInv, NEW i \in Nodes,
           ProcessNext(i)
    PROVE  ConsumedAt(i)
<1>0. Keeps(i)
  <2>1. CASE StopProcess(i)
    BY <2>1, WriteKeeps DEF StopProcess
  <2>2. CASE Spawn(i) \/ SpawnNotNeeded(i)
    BY <2>2, WriteKeeps DEF Spawn, SpawnNotNeeded
  <2>3. CASE SpawnRefused(i)
    BY <2>3, WriteKeeps DEF SpawnRefused, StartRaised
  <2>4. CASE SpawnNotReady(i)
    <3>1. reg[i] \in Entry /\ MarkFailed(reg[i]) \in Entry
      BY EntryTransitions DEF TypeOK
    <3>2. Write(i, MarkFailed(reg[i])) \/ Write(i, MarkFailed(MarkFailed(reg[i])))
      BY <2>4 DEF SpawnNotReady, StartRaised
    <3>3. \A f : f.owner = reg[i].owner /\ f.gen = reg[i].gen /\ f.last = reg[i].last
                    /\ Write(i, f) => Keeps(i)
      BY DEF Write, Keeps, TypeOK
    <3> QED
      BY <3>1, <3>2, <3>3, EntriesKeep
  <2>5. CASE MarkRunningAfterSpawn(i)
    <3>1. call[i].pid \in Pids \cup {NoPid}
      BY DEF TypeOK, Call
    <3> QED
      BY <2>5, <3>1, WriteKeeps DEF MarkRunningAfterSpawn, StartRaised
  <2> QED
    BY <2>1, <2>2, <2>3, <2>4, <2>5 DEF ProcessNext
<1>1. ASSUME NEW p, Moves(i, p), p # "confirm", call[i].kind = "destination" => p \in ClaimPlace
      PROVE  ConsumedAt(i)
  BY <1>0, <1>1, ConsumedKeeps DEF Keeps, Moves
<1>2. CASE StopProcess(i)
  <2>1. CASE call[i].kind = "source"
    <3> DEFINE c == [call[i] EXCEPT !.at = "transfer", !.stopped = TRUE]
    <3>1. call' = [call EXCEPT ![i] = c]
      BY <1>2, <2>1 DEF StopProcess
    <3> QED
      BY <1>1, <2>1, <3>1, EditMoves
  <2>2. CASE call[i].kind # "source"
    <3>1. Go(i, "abort")
      BY <1>2, <2>2 DEF StopProcess, Go
    <3> QED
      BY <1>1, <3>1, GoMoves DEF ClaimPlace
  <2> QED
    BY <2>1, <2>2
<1>3. CASE Spawn(i)
  <2>1. PICK p \in Pids : call' = [call EXCEPT ![i] = [call[i] EXCEPT !.at = "running", !.pid = p]]
    BY <1>3 DEF Spawn
  <2> DEFINE c == [call[i] EXCEPT !.at = "running", !.pid = p]
  <2>2. Moves(i, "running")
    BY <2>1, EditMoves
  <2> QED
    BY <1>1, <2>2 DEF ClaimPlace
<1>4. CASE SpawnNotNeeded(i)
  BY <1>1, <1>4, GoMoves DEF SpawnNotNeeded, AfterStart, ClaimPlace
<1>5. ASSUME NEW e, StartRaised(i, e)
      PROVE  ConsumedAt(i)
  BY <1>1, <1>5, GoMoves DEF StartRaised, ClaimPlace
<1>6. CASE MarkRunningAfterSpawn(i)
  <2>1. CASE CanRun(i, reg[i])
    <3>1. call' = [call EXCEPT ![i] = [call[i] EXCEPT !.at = AfterStart(i), !.pid = NoPid]]
      BY <1>6, <2>1 DEF MarkRunningAfterSpawn
    <3>2. Moves(i, AfterStart(i))
      BY <3>1, EditMoves
    <3> QED
      BY <1>1, <3>2 DEF AfterStart, ClaimPlace
  <2>2. CASE ~CanRun(i, reg[i])
    BY <1>5, <1>6, <2>2 DEF MarkRunningAfterSpawn
  <2> QED
    BY <2>1, <2>2
<1> QED
  BY <1>2, <1>3, <1>4, <1>5, <1>6 DEF ProcessNext, SpawnRefused, SpawnNotReady

LEMMA DestinationConsumed ==
    ASSUME TypeOK, WriteAheadInv, CourseInv, OwnerInv, ConsumedInv, NEW i \in Nodes,
           DestinationNext(i)
    PROVE  ConsumedAt(i)
<1>0. call[i] \in Call /\ reg[i] \in Entry /\ (UNCHANGED reg => Keeps(i))
  BY DEF TypeOK, Keeps
<1>1. ASSUME NEW p, Moves(i, p), p # "confirm",
             call[i].kind = "destination" /\ call[i].at \in ClaimPlace => p \in ClaimPlace,
             reg'[i].owner = i => reg[i].owner = i
      PROVE  ConsumedAt(i)
  BY <1>1, ConsumedKeeps DEF Moves
<1>2. ASSUME NEW m \in Migrations, NEW k \in Attempts, AnswerClaimed(i, m, k) \/ AnswerRolledBack(i, m, k)
      PROVE  ConsumedAt(i)
  BY <1>2, ConsumedKeeps DEF AnswerClaimed, AnswerRolledBack, Free, ClaimPlace
<1>3. ASSUME NEW m \in Migrations, NEW k \in Attempts, StartActivation(i, m, k)
      PROVE  ConsumedAt(i)
  <2> DEFINE c == [NoCall(i) EXCEPT !.kind = "destination", !.at = "begin", !.mig = m,
                                    !.attempt = k, !.saved = reg[i]]
  <2>1. call' = [call EXCEPT ![i] = c] /\ Free(i) /\ UNCHANGED reg
    BY <1>3 DEF StartActivation
  <2>2. c.at = "begin"
    BY DEF NoCall
  <2> HIDE DEF c
  <2>3. call'[i].at # "confirm"
    BY <2>1, <2>2 DEF TypeOK
  <2> QED
    BY <2>1, <2>3, ConsumedKeeps DEF Free, ClaimPlace
<1>4. CASE BeginActivation(i)
  <2>1. (Go(i, "claim") \/ Go(i, "abort")) /\ UNCHANGED reg /\ call[i].at = "begin"
    BY <1>4 DEF BeginActivation, At
  <2> QED
    BY <1>1, <2>1, GoMoves DEF ClaimPlace
<1>5. CASE ClaimTask(i)
  <2>1. CASE UNCHANGED reg /\ Go(i, "abort")
    BY <1>1, <2>1, GoMoves DEF ClaimPlace
  <2>2. CASE Go(i, "spawn")
    <3>1. Moves(i, "spawn") /\ call[i].kind = "destination"
      BY <1>5, <2>2, GoMoves DEF ClaimTask, At
    <3> QED
      BY <3>1 DEF ConsumedAt, Moves, ClaimPlace
  <2> QED
    BY <1>5, <2>1, <2>2 DEF ClaimTask
<1>6. CASE CheckpointInvalid(i)
  BY <1>1, <1>6, GoMoves DEF CheckpointInvalid, ClaimPlace
<1>7. CASE ConsumeReservation(i)
  <2> DEFINE m == call[i].mig
  <2>1. m \in Migrations /\ m \in Begun /\ call[i].kind = "destination" /\ UNCHANGED <<reg, plan>>
    BY <1>7, CallPlaces DEF ConsumeReservation, At, Begun
  <2>2. CASE bid' = [bid EXCEPT ![m] = "consumed"] /\ Go(i, "confirm")
    <3>1. Moves(i, "confirm") /\ bid'[m] = "consumed"
      BY <2>1, <2>2, GoMoves DEF TypeOK
    <3> QED
      BY <2>1, <3>1 DEF ConsumedAt, Moves, ClaimPlace
  <2>3. CASE Go(i, "kill")
    BY <1>1, <2>1, <2>3, GoMoves DEF ClaimPlace
  <2> QED
    BY <1>7, <2>2, <2>3 DEF ConsumeReservation
<1>8. CASE ConfirmActivation(i)
  <2> DEFINE m == call[i].mig
  <2>1. /\ call'[i].at = "idle" /\ UNCHANGED <<reg, plan>> /\ m \in Migrations
        /\ Writes(i, m, "activated") /\ At(i, "destination", "confirm")
    BY <1>8, ReleaseIdles, RecordWrites DEF ConfirmActivation, Idles, At, TypeOK
  <2>2. i = plan[m].dst /\ m \in Begun
    BY <2>1, RoleAt, CallPlaces DEF Role, Begun, At
  <2>3. m \in Landed'
    BY <2>1, <2>2 DEF Landed, Begun, Writes
  <2> QED
    BY <2>1, <2>3, ConsumedKeeps
<1>9. CASE AbortActivation(i)
  <2>1. Backed(call[i].saved, i) /\ Moves(i, "journalAbort") /\ reg'[i] = call[i].saved
    BY <1>9, AtDestination, GoMoves DEF AbortActivation, Write, TypeOK
  <2> QED
    BY <2>1, ConsumedKeeps DEF Backed, Moves
<1>10. CASE JournalAbort(i)
  <2>1. UNCHANGED reg /\ call[i].at = "journalAbort"
    BY <1>10 DEF JournalAbort
  <2>2. Go(i, "refuse") \/ Release(i)
    BY <1>10 DEF JournalAbort
  <2>3. call'[i].at # "confirm"
    BY <2>2, GoMoves, ReleaseIdles DEF Moves, Idles
  <2> QED
    BY <2>1, <2>3, ConsumedKeeps DEF ClaimPlace
<1>11. CASE RefuseActivation(i)
  <2>1. UNCHANGED reg /\ call[i].at = "refuse" /\ call'[i].at = "idle"
    BY <1>11, ReleaseIdles DEF RefuseActivation, At, Idles
  <2> QED
    BY <2>1, ConsumedKeeps DEF ClaimPlace
<1> QED
  BY <1>2, <1>3, <1>4, <1>5, <1>6, <1>7, <1>8, <1>9, <1>10, <1>11 DEF DestinationNext

LEMMA OtherConsumed ==
    ASSUME Orderly, "crashOnClaim" \notin Faults, TypeOK, WriteAheadInv, CourseInv, OwnerInv,
           ConsumedInv, NEW i \in Nodes,
           SchedulerNext(i) \/ ReconcileNext(i) \/ ServiceNext(i) \/ EnvironmentNext(i)
    PROVE  ConsumedAt(i)
<1>0. call[i] \in Call /\ reg[i] \in Entry
  BY DEF TypeOK
(* A claim that is not committed is not forgotten by a crash. *)
<1>1. ASSUME Uncommitted(i) => "crashOnClaim" \in Faults, UNCHANGED reg, Release(i)
      PROVE  ConsumedAt(i)
  <2>1. ~Uncommitted(i) /\ call'[i].at # "confirm"
    BY <1>1, ReleaseIdles DEF Idles
  <2>2. ASSUME NEW m \in Open \ Landed, i = plan[m].dst, reg'[i].owner = i
        PROVE  FALSE
    <3>1. m \in Migrations /\ reg[i].last = m /\ reg[i].gen = plan[m].gen /\ journal[i][m] = "activating"
      BY <1>1, <2>2, ClaimedBusy
    <3>2. Uncommitted(i)
      BY <1>1, <2>2, <3>1 DEF Uncommitted, ClaimedFor
    <3> QED
      BY <2>1, <3>2
  <2> QED
    BY <2>1, <2>2 DEF ConsumedAt
<1>2. CASE SchedulerNext(i)
  <2>1. PICK m \in Migrations :
           call' = [call EXCEPT ![i] = [NoCall(i) EXCEPT !.kind = "source",
                                                         !.at = "prefetch", !.mig = m]]
    BY <1>2 DEF SchedulerNext, StartMigration
  <2> DEFINE c == [NoCall(i) EXCEPT !.kind = "source", !.at = "prefetch", !.mig = m]
  <2>2. c.at = "prefetch"
    BY DEF NoCall
  <2>3. call' = [call EXCEPT ![i] = c]
    BY <2>1
  <2> HIDE DEF c
  <2>4. call'[i].at # "confirm"
    BY <2>2, <2>3 DEF TypeOK
  <2>5. Free(i) /\ UNCHANGED reg
    BY <1>2 DEF SchedulerNext, StartMigration
  <2> QED
    BY <2>4, <2>5, ConsumedKeeps DEF Free, ClaimPlace
<1>3. CASE ReconcileNext(i)
  <2>1. ASSUME NEW m \in Migrations, NEW p, p \in {"kill", "abort", "query"}, TakeUp(i, m, p), Free(i),
               UNCHANGED reg
        PROVE  ConsumedAt(i)
    <3> DEFINE c == [NoCall(i) EXCEPT !.kind = "reconcile", !.at = p, !.mig = m,
                                      !.saved = original[i][m]]
    <3>1. call' = [call EXCEPT ![i] = c]
      BY <2>1 DEF TakeUp
    <3>2. c.at = p
      BY DEF NoCall
    <3> HIDE DEF c
    <3>3. call'[i].at # "confirm"
      BY <2>1, <3>1, <3>2 DEF TypeOK
    <3> QED
      BY <2>1, <3>3, ConsumedKeeps DEF Free, ClaimPlace
  <2>2. ASSUME UNCHANGED <<call, reg>>, Free(i) \/ UNCHANGED <<bid, plan>>
        PROVE  ConsumedAt(i)
    BY <2>2, ConsumedKeeps DEF Free
  <2>3. CASE ListRecords(i)
    BY <2>2, <2>3 DEF ListRecords
  <2>4. ASSUME NEW m \in Migrations, ReconcileCommitted(i, m) \/ ReconcileSettled(i, m)
        PROVE  ConsumedAt(i)
    BY <2>2, <2>4 DEF ReconcileCommitted, ReconcileSettled, Turn
  <2>5. ASSUME NEW m \in Migrations, ReconcileIncomplete(i, m)
        PROVE  ConsumedAt(i)
    <3>1. TakeUp(i, m, "kill") \/ TakeUp(i, m, "abort")
      BY <2>5 DEF ReconcileIncomplete
    <3>2. Free(i) /\ UNCHANGED reg
      BY <2>5 DEF ReconcileIncomplete, Turn
    <3> QED
      BY <2>1, <3>1, <3>2
  <2>6. ASSUME NEW m \in Migrations, ReconcileSource(i, m)
        PROVE  ConsumedAt(i)
    BY <2>1, <2>6 DEF ReconcileSource, Turn
  <2> QED
    BY <1>3, <2>3, <2>4, <2>5, <2>6 DEF ReconcileNext
<1>4. ASSUME UNCHANGED <<call, bid, plan>>, Keeps(i)
      PROVE  ConsumedAt(i)
  BY <1>4, ConsumedKeeps DEF Keeps
<1>5. CASE ServiceNext(i)
  <2>1. ASSUME NEW j \in Nodes, Gossip(i, j)
        PROVE  ConsumedAt(i)
    <3> DEFINE e == ApplyOwnership(i, reg[i], Claim(reg[j]))
    <3>1. Proper(reg[j]) /\ reg[j] \in Entry
      BY <2>1, ToldIsProper DEF Gossip, Orderly, TypeOK
    <3>2. Accepts(reg[i], Claim(reg[j])) /\ Write(i, e) /\ UNCHANGED <<call, bid, plan>>
      BY <2>1 DEF Gossip
    <3>3. e.owner = i => reg[i].owner = i
      BY <3>1, <3>2, GossipFits
    <3> HIDE DEF e
    <3>4. reg'[i] = e
      BY <3>2 DEF Write, TypeOK
    <3> QED
      BY <3>2, <3>3, <3>4, ConsumedKeeps
  <2>2. CASE ReconcileRuntime(i)
    BY <1>4, <2>2, WriteKeeps DEF ReconcileRuntime
  <2>3. CASE Recover(i)
    BY <1>4, <2>3, WriteKeeps DEF Recover
  <2>4. CASE StarterSpawn(i)
    BY <1>4, <2>4, WriteKeeps DEF StarterSpawn
  <2>5. CASE StarterRunning(i)
    <3>1. starter[i].pid \in Pids \cup {NoPid}
      BY DEF TypeOK
    <3> QED
      BY <1>4, <2>5, <3>1, WriteKeeps DEF StarterRunning
  <2>6. CASE StarterNotReady(i)
    BY <1>4, <2>6, WriteKeeps DEF StarterNotReady
  <2> QED
    BY <1>5, <2>1, <2>2, <2>3, <2>4, <2>5, <2>6 DEF ServiceNext
<1>6. CASE EnvironmentNext(i)
  BY <1>1, <1>4, <1>6, WriteKeeps
  DEF EnvironmentNext, ProcessExits, OperatorStart, Crash, ServiceCrash, Forget
<1> QED
  BY <1>2, <1>3, <1>5, <1>6

LEMMA ConsumedStep ==
    ASSUME Orderly, "crashOnClaim" \notin Faults, TypeOK, WriteAheadInv, CourseInv, OwnerInv,
           ConsumedInv, [Next]_vars
    PROVE  ConsumedInv'
<1>1. \A m \in Begun : /\ plan'[m] = plan[m]
                       /\ m \in Begun'
                       /\ bid[m] = "consumed" => bid'[m] = "consumed"
  BY PlansStay
<1>2. /\ \A m \in Migrations : plan[m].src \in Nodes /\ plan[m].dst \in Nodes
      /\ \A m \in Begun : m \in Migrations /\ plan[m].src # plan[m].dst
      /\ Open \subseteq Begun /\ Landed \subseteq Begun
  BY Plans
(* What has just begun is not known at its destination. *)
<1>3. ASSUME NEW m \in Begun' \ Begun
      PROVE  /\ journal'[plan'[m].dst][m] = "none"
             /\ plan'[m].dst \in Nodes
             /\ reg'[plan'[m].dst].owner # plan'[m].dst
  <2>1. m \in Migrations /\ plan[m] = NoPlan /\ plan' # plan /\ plan'[m] # NoPlan
    BY DEF Begun
  <2>2. PICK i \in Nodes, d \in Nodes : StartMigration(i, d)
    <3>1. ASSUME NEW i \in Nodes, SourceNext(i) \/ ProcessNext(i) PROVE FALSE
      BY <2>1, <3>1
      DEF SourceNext, PrefetchDone, PrefetchFailed, MarkSource, JournalTransfer, TransferDone,
          TransferFailed, RequestActivation, ReceiveResponse, AttemptFails, QueryAnswered,
          QueryFails, PollAgain, ResolveActivated, ResolveNotCommitted, ResolveUnknown, GiveAway,
          CommitSource, UndoSource, RestoreSource, JournalUndo, CancelReservation, ProcessNext,
          StopProcess, Spawn, SpawnNotNeeded, SpawnRefused, SpawnNotReady, MarkRunningAfterSpawn
    <3>2. ASSUME NEW i \in Nodes, DestinationNext(i) \/ ReconcileNext(i) PROVE FALSE
      BY <2>1, <3>2
      DEF DestinationNext, AnswerClaimed, AnswerRolledBack, StartActivation, BeginActivation,
          ClaimTask, CheckpointInvalid, ConsumeReservation, ConfirmActivation, AbortActivation,
          JournalAbort, RefuseActivation, ReconcileNext, ListRecords, ReconcileCommitted,
          ReconcileIncomplete, ReconcileSettled, ReconcileSource
    <3>3. ASSUME NEW i \in Nodes, ServiceNext(i) \/ EnvironmentNext(i) PROVE FALSE
      BY <2>1, <3>3
      DEF ServiceNext, Gossip, ReconcileRuntime, Recover, StarterSpawn, StarterRunning,
          StarterNotReady, EnvironmentNext, ProcessExits, OperatorStart, Crash, ServiceCrash
    <3> QED
      BY <2>1, <3>1, <3>2, <3>3 DEF Next, vars, ExpireReservation, SchedulerNext
  <2>3. PICK j \in Migrations :
           /\ plan' = [plan EXCEPT ![j] = [src |-> i, dst |-> d, gen |-> reg[i].gen + 1]]
           /\ Record(i, j, "preparing") /\ UNCHANGED reg
           /\ d # i /\ reg[i].owner = i /\ ~Undecided(i)
    BY <2>2 DEF StartMigration, Orderly
  <2>4. j = m
    BY <2>1, <2>3 DEF TypeOK
  <2>5. plan'[m].dst = d
    <3> DEFINE g == reg[i].gen + 1
    <3>1. plan' = [plan EXCEPT ![m] = [src |-> i, dst |-> d, gen |-> g]]
      BY <2>3, <2>4
    <3> HIDE DEF g
    <3> QED
      BY <2>1, <3>1 DEF TypeOK
  <2>6. journal'[d][m] = "none"
    <3>1. Writes(i, m, "preparing") /\ journal[d][m] = "none"
      BY <2>1, <2>3, <2>4, RecordWrites DEF WriteAheadInv, PlanInv
    <3> QED
      BY <2>1, <2>3, <3>1 DEF Writes
  <2>7. reg[d].owner # d
    <3>1. Fits(reg[i], i) /\ Fits(reg[d], d) /\ reg[i].gen \in Nat /\ reg[d].gen \in Nat
      BY DEF OwnerInv, FitInv, TypeOK, Entry
    <3>2. Open = {}
      <4>1. \A o \in Open : FALSE
        BY <1>2, <2>3, <3>1 DEF Fits, Undecided, Open, Begun
      <4> QED
        BY <4>1
    <3>3. Proper(reg[i]) /\ Proper(reg[d])
      BY <3>1, <3>2 DEF Fits
    <3>4. ASSUME reg[d].owner = d PROVE FALSE
      <4>1. /\ \A o \in Landed : plan[o].gen <= reg[i].gen
            /\ \A o \in Landed : plan[o].gen <= reg[d].gen
        BY <2>3, <3>1, <3>2, <3>4 DEF Fits
      <4>2. Held(i, reg[i].gen) /\ Held(d, reg[d].gen)
        BY <2>3, <3>3, <3>4 DEF Proper
      <4> QED
        BY <2>3, <4>1, <4>2, Highest DEF OwnerInv
    <3> QED
      BY <3>4
  <2> QED
    BY <2>3, <2>5, <2>6, <2>7
<1>4. \A m \in Landed' : bid'[m] = "consumed"
  <2> SUFFICES ASSUME NEW m \in Landed' PROVE bid'[m] = "consumed"
    OBVIOUS
  <2>1. m \in Begun
    BY <1>3 DEF Landed
  <2>2. CASE m \in Landed
    BY <1>1, <2>1, <2>2 DEF ConsumedInv
  <2>3. CASE m \notin Landed
    <3>1. PICK n \in Nodes : ConfirmActivation(n) /\ call[n].mig = m
      BY <2>1, <2>3, LandsByConfirm
    <3> QED
      BY <3>1 DEF ConfirmActivation, At, ConsumedInv
  <2> QED
    BY <2>2, <2>3
<1>5. Open' \ Landed' \subseteq (Open \ Landed) \cup (Begun' \ Begun)
  <2> SUFFICES ASSUME NEW m \in Open' \ Landed', m \in Begun PROVE m \in Open \ Landed
    BY DEF Open
  <2>1. \A n \in Nodes : journal[n][m] \in Terminal => journal'[n][m] = journal[n][m]
    BY RecordsStay
  <2> QED
    BY <1>1, <1>2, <2>1 DEF Open, Landed, Terminal
<1>6. ASSUME NEW i \in Nodes, Elsewhere(i), \A j \in Nodes : j # i => reg'[j] = reg[j],
             ConsumedAt(i)
      PROVE  ConsumedInv'
  <2>1. \A n \in Nodes : call'[n].at = "confirm" => bid'[call'[n].mig] = "consumed"
    <3>1. \A n \in Nodes : call[n].at = "confirm" => call[n].mig \in Begun
      BY CallPlaces DEF Begun
    <3> QED
      BY <1>1, <1>6, <3>1 DEF Elsewhere, ConsumedInv, ConsumedAt
  <2>2. ClaimedInCall'
    <3> SUFFICES ASSUME NEW m \in Open' \ Landed', reg'[plan'[m].dst].owner = plan'[m].dst
                 PROVE  /\ call'[plan'[m].dst].kind = "destination"
                        /\ call'[plan'[m].dst].at \in ClaimPlace
      BY DEF ClaimedInCall
    <3>1. m \in Open \ Landed /\ plan'[m] = plan[m] /\ plan[m].dst \in Nodes
      BY <1>1, <1>2, <1>3, <1>5
    <3> QED
      BY <1>6, <3>1 DEF Elsewhere, ConsumedInv, ClaimedInCall, ConsumedAt
  <2> QED
    BY <1>4, <2>1, <2>2 DEF ConsumedInv
<1>7. CASE UNCHANGED <<call, reg>>
  <2>1. \A n \in Nodes : call'[n].at = "confirm" => bid'[call'[n].mig] = "consumed"
    <3>1. \A n \in Nodes : call[n].at = "confirm" => call[n].mig \in Begun
      BY CallPlaces DEF Begun
    <3> QED
      BY <1>1, <1>7, <3>1 DEF ConsumedInv
  <2>2. ClaimedInCall'
    BY <1>1, <1>2, <1>3, <1>5, <1>7 DEF ConsumedInv, ClaimedInCall
  <2> QED
    BY <1>4, <2>1, <2>2 DEF ConsumedInv
<1>8. ASSUME NEW i \in Nodes,
             \/ SchedulerNext(i) \/ SourceNext(i)  \/ ProcessNext(i) \/ DestinationNext(i)
             \/ ReconcileNext(i) \/ ServiceNext(i) \/ EnvironmentNext(i)
      PROVE  ConsumedInv'
  <2>1. Elsewhere(i) /\ \A j \in Nodes : j # i => reg'[j] = reg[j]
    BY <1>8, OneActs
  <2>2. ConsumedAt(i)
    BY <1>8, SourceConsumed, ProcessConsumed, DestinationConsumed, OtherConsumed
  <2> QED
    BY <1>6, <2>1, <2>2
<1> QED
  BY <1>7, <1>8 DEF Next, vars, ExpireReservation

LEMMA ConsumedInit == Init => ConsumedInv
<1> SUFFICES ASSUME Init PROVE ConsumedInv
  OBVIOUS
<1>1. plan = [m \in Migrations |-> NoPlan] /\ call = [n \in Nodes |-> NoCall(n)]
  BY DEF Init
<1>2. Begun = {} /\ Landed = {} /\ Open = {}
  BY <1>1 DEF Begun, Landed, Open
<1>3. \A n \in Nodes : call[n].at = "idle"
  BY <1>1 DEF NoCall
<1> QED
  BY <1>2, <1>3 DEF ConsumedInv, ClaimedInCall

(* An activation is all or nothing (activate_incoming consumes the reservation
   before it commits, and reconciliation finds no claim that was not committed):
   a committed destination has consumed its reservation, unless a daemon dies
   between the claim and the commit. *)
THEOREM ActivationsConsume ==
    ASSUME Orderly, "crashOnClaim" \notin Faults
    PROVE  Spec => []ActivatedConsumed
<1>1. Init => ConsumedInv
  BY ConsumedInit
<1>2. TypeOK /\ WriteAheadInv /\ CourseInv /\ OwnerInv /\ ConsumedInv /\ [Next]_vars => ConsumedInv'
  BY ConsumedStep
<1>3. ConsumedInv => ActivatedConsumed
  BY DEF ConsumedInv, ActivatedConsumed, Landed
<1> QED
  BY <1>1, <1>2, <1>3, TypeCorrect, WriteAheadKept, CourseKept, OwnerKept, PTL DEF Spec

===============================================================================
