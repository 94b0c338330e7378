---------------------- MODULE MigrationExecution_proofs -----------------------
(***************************************************************************)
(* Who executes the task: at most one process of the whole cluster, which  *)
(* its node can find, for every set of nodes and migrations, every bound,  *)
(* and exits, failed starts and crashes as the runs allow them.            *)
(***************************************************************************)
EXTENDS MCMigration, Migration_proofs

(* What is excluded beside what Orderly excludes: markers of a completion that
   arrive during a migration, a daemon that dies between the end or start of a
   process and the record that says so, a recovery that does not look at the
   journal, and operators who start the task by hand. *)
Sober == /\ Orderly
         /\ Faults \cap {"completes", "crashOnMove", "recoverEarly", "operatorStart"} = {}

(* The places of a call at which its node has no process of the task. *)
QuietPlace == {"transfer", "request", "await", "query", "decide", "remote", "commit", "undo",
               "restore", "spawn", "begin", "claim", "abort"}

(* No record of a completion; only the owner's entry names a process. *)
Settled(e, n) ==
    /\ e.status # "completed"
    /\ e.pid # NoPid => e.owner = n /\ e.status \in {"running", "migrating"}

SettledInv == \A n \in Nodes : /\ Settled(reg[n], n)
                               /\ Settled(call[n].saved, n)
                               /\ \A m \in Migrations : Settled(original[n][m], n)

(* A source whose record admits that the task may be on its way. *)
Sent(n, m) == n = plan[m].src /\ journal[n][m] \in {"transferring", "activating", "uncertain"}

(* The processes of a node are those it can name, and it has them only as the
   owner; recovery runs only where no migration is in progress; a call has what
   its place says; without a call the source of a migration that may have moved
   the task has none, nor has one that quiesced. *)
Works(n) ==
    LET e == reg[n]
        c == call[n]
        s == starter[n]
    IN  /\ procs[n] \subseteq {e.pid, c.pid, s.pid}
        /\ procs[n] # {} => e.owner = n
        /\ c.at # "running" => c.pid = NoPid
        /\ c.at = "running" => procs[n] \subseteq {c.pid}
        /\ c.at \in QuietPlace => procs[n] = {}
        /\ c.at \in {"spawn", "running"} => e.status \in {"stopped", "remote"}
        /\ c.at \in {"prefetch", "mark"} => journal[n][c.mig] = "preparing"
        /\ e.status = "migrating" => procs[n] = {} \/ c.at \in {"journalTransfer", "kill"}
        /\ s.at # "running" => s.pid = NoPid
        /\ s.at # "idle" => e.owner = n /\ e.status = "recovering" /\ ~Unfinished(n)
        /\ c.at \in {"idle", "cancel", "refuse"} =>
              \A m \in Migrations : Sent(n, m) => procs[n] = {}

WorkInv == SettledInv /\ \A n \in Nodes : Works(n)

-------------------------------------------------------------------------------
(* What it says. *)

LEMMA NoPidRuns ==
    ASSUME TypeOK, NEW n \in Nodes
    PROVE  NoPid \notin procs[n]
  BY ConstantsAssumption DEF TypeOK, NoPid

(* A call that has an open record keeps recovery away. *)
LEMMA CallIsUnfinished ==
    ASSUME TypeOK, CourseInv, NEW n \in Nodes, call[n].at \notin {"idle", "cancel", "refuse"}
    PROVE  Unfinished(n) /\ call[n].mig \in Migrations
  BY DEF CourseInv, OpenCallInv, Unfinished, TypeOK

LEMMA NoStarter ==
    ASSUME TypeOK, WorkInv, NEW n \in Nodes, Unfinished(n)
    PROVE  /\ starter[n].at = "idle" /\ starter[n].pid = NoPid
           /\ procs[n] \subseteq {reg[n].pid, call[n].pid}
<1>1. Works(n) /\ NoPid \notin procs[n]
  BY NoPidRuns DEF WorkInv
<1> QED
  BY <1>1 DEF Works

(* Another migration of which a node in a call is the source is decided. *)
LEMMA OthersDecided ==
    ASSUME TypeOK, WriteAheadInv, CourseInv, OwnerInv, NEW n \in Nodes,
           call[n].at \notin {"idle", "cancel", "refuse"},
           NEW m \in Migrations, m # call[n].mig
    PROVE  ~Sent(n, m)
<1>1. call[n].mig \in Open
  BY Busy DEF OwnerInv
<1>2. Sent(n, m) => m \in Open
  BY Busy DEF OwnerInv, Sent, Terminal
<1> QED
  BY <1>1, <1>2 DEF OwnerInv, OrderInv

(* The source of an open migration that its destination began has no process. *)
LEMMA SourceIsQuiet ==
    ASSUME TypeOK, WriteAheadInv, CourseInv, OwnerInv, WorkInv, NEW m \in Open, ~Kept(m)
    PROVE  procs[plan[m].src] = {}
<1> DEFINE s == plan[m].src
           d == plan[m].dst
<1>1. m \in Begun /\ m \in Migrations /\ s \in Nodes /\ d \in Nodes /\ s # d
  BY Plans
<1>2. journal[d][m] # "none"
  BY DEF Kept
<1>3. journal[s][m] \in {"activating", "uncertain"}
  <2>1. journal[s][m] \notin {"none", "preparing", "transferring"}
    BY <1>1, <1>2 DEF WriteAheadInv, WriteAhead, Begun
  <2>2. journal[s][m] \notin Terminal /\ journal[s][m] \in JournalStatus
    BY <1>1 DEF Open, TypeOK
  <2> QED
    BY <2>1, <2>2 DEF Terminal, JournalStatus
<1>4. Works(s)
  BY <1>1 DEF WorkInv
<1>5. CASE call[s].at \in {"idle", "cancel", "refuse"}
  BY <1>1, <1>3, <1>4, <1>5 DEF Works, Sent
<1>6. CASE call[s].at \notin {"idle", "cancel", "refuse"}
  <2>1. call[s].mig = m
    BY <1>1, <1>6, Busy DEF OwnerInv, OrderInv
  <2>2. Role(call[s].kind, call[s].at, s, m)
    BY <1>1, <2>1, RoleAt
  <2>3. call[s].kind # "destination" /\ call[s].at \notin {"abort", "journalAbort"}
    BY <1>1, <1>6, <2>2 DEF Role, DestinationPlace, RevertPlace, SourcePlace, ResolvePlace
  <2>4. call[s].kind = "source" => call[s].at \notin Early
    BY <1>1, <1>2, <2>1 DEF WriteAheadInv, EarlyInv
  <2>5. call[s].at \notin TakeBack
    BY <1>1, <2>1, <2>3 DEF OwnerInv, StandInv, Stands
  <2>6. call[s].at \in QuietPlace
    BY <1>1, <1>6, <2>2, <2>3, <2>4, <2>5
    DEF Role, SourcePlace, ResolvePlace, RevertPlace, Early, TakeBack, QuietPlace
  <2> QED
    BY <1>4, <2>6 DEF Works
<1> QED
  BY <1>5, <1>6

-------------------------------------------------------------------------------
(* The entries that are written. *)

LEMMA SettledEntries ==
    ASSUME NEW n \in Nodes, NEW e \in Entry, Settled(e, n)
    PROVE  /\ Settled(MarkFailed(e), n)
           /\ Settled(MarkExhausted(e), n)
           /\ Settled(MarkStopped(e), n)
           /\ e.status = "failed" => Settled(BeginRecovery(e), n)
           /\ e.owner = n => \A p : Settled(MarkRunning(e, p), n)
           /\ e.owner = n => \A m : Settled(MarkMigrating(e, m), n)
           /\ \A g, m : Settled(ClaimLocal(n, e, g, m), n)
           /\ \A g : Settled(RestoreLocal(n, e, g), n)
           /\ \A o, g, m : Settled(MarkRemote(e, o, g, m), n)
<1> USE DEF Entry, Settled
<1>1. Settled(MarkFailed(e), n) /\ Settled(MarkExhausted(e), n) /\ Settled(MarkStopped(e), n)
  BY DEF MarkFailed, MarkExhausted, MarkStopped
<1>2. e.status = "failed" => Settled(BeginRecovery(e), n)
  BY DEF BeginRecovery
<1>3. e.owner = n => \A p : Settled(MarkRunning(e, p), n)
  BY DEF MarkRunning
<1>4. e.owner = n => \A m : Settled(MarkMigrating(e, m), n)
  BY DEF MarkMigrating
<1>5. \A g, m : Settled(ClaimLocal(n, e, g, m), n)
  BY DEF ClaimLocal
<1>6. \A g : Settled(RestoreLocal(n, e, g), n)
  BY DEF RestoreLocal
<1>7. \A o, g, m : Settled(MarkRemote(e, o, g, m), n)
  BY DEF MarkRemote
<1> HIDE DEF Entry, Settled
<1> QED
  BY <1>1, <1>2, <1>3, <1>4, <1>5, <1>6, <1>7

(* What anti-entropy makes of an entry while no completion is told: an owner
   that stays the owner keeps its process and status. *)
LEMMA AppliedEntry ==
    ASSUME NEW n \in Nodes, NEW e \in Entry, NEW u \in Entry, Settled(e, n), u.status # "completed"
    PROVE  LET f == ApplyOwnership(n, e, Claim(u))
           IN  /\ f.owner = u.owner
               /\ u.owner = n => f.status = e.status /\ f.pid = e.pid
               /\ u.owner # n => f.status = "remote" /\ f.pid = NoPid
<1> DEFINE l == IF u.last = NoMigration THEN e.last ELSE u.last
           k == [e EXCEPT !.owner = u.owner, !.gen = u.gen, !.last = l]
           r == [k EXCEPT !.status = "remote", !.pid = NoPid]
<1>1. ApplyOwnership(n, e, Claim(u)) = IF u.owner # n THEN r ELSE k
  BY DEF ApplyOwnership, Claim
<1> HIDE DEF l
<1>2. k.owner = u.owner /\ k.status = e.status /\ k.pid = e.pid
  BY DEF Entry
<1>3. r.owner = u.owner /\ r.status = "remote" /\ r.pid = NoPid
  BY DEF Entry
<1> HIDE DEF k, r
<1> QED
  BY <1>1, <1>2, <1>3

(* Anti-entropy does not take the task from a node that has a process or is
   starting one. *)
LEMMA OwnerIsNotTold ==
    ASSUME TypeOK, WriteAheadInv, CourseInv, OwnerInv, WorkInv, NEW n \in Nodes,
           NEW u \in Entry, Proper(u), Accepts(reg[n], Claim(u)), reg[n].owner = n, u.owner # n
    PROVE  procs[n] = {} /\ Unfinished(n) /\ call[n].at # "running"
<1> DEFINE e == reg[n]
<1>0. /\ Fits(e, n) /\ e \in Entry /\ e.gen \in Nat /\ u.gen \in Nat /\ u.gen >= e.gen
      /\ u.gen = e.gen => u.owner = e.owner
  BY DEF OwnerInv, FitInv, TypeOK, Entry, Accepts, Claim
<1>1. u.gen > e.gen
  BY <1>0
<1>2. PICK i \in Landed : plan[i].dst = u.owner /\ plan[i].gen = u.gen
  BY <1>0, <1>1 DEF Proper, Held
<1>3. i \in Begun /\ i \in Migrations /\ plan[i].gen \in Nat
  BY <1>2, Plans
<1>4. i \in Open /\ n = plan[i].src
  BY <1>0, <1>1, <1>2, <1>3 DEF Fits
<1>5. ~Kept(i)
  BY <1>2 DEF Kept, Landed
<1>6. journal[n][i] \notin Terminal \cup {"none"}
  <2>1. journal[n][i] # "none"
    BY <1>3, <1>4, <1>5 DEF WriteAheadInv, WriteAhead, Begun, Kept
  <2> QED
    BY <1>4, <2>1 DEF Open
<1>7. Unfinished(n)
  BY <1>3, <1>6 DEF Unfinished
<1>8. ASSUME call[n].at = "running" PROVE FALSE
  <2>1. call[n].mig = i
    BY <1>4, <1>8, Busy DEF OwnerInv, OrderInv
  <2>2. call[n].kind # "destination"
    BY <1>3, <1>4, <2>1, Plans DEF CourseInv, RoleInv, Role
  <2> QED
    BY <1>5, <1>8, <2>1, <2>2 DEF OwnerInv, StandInv, Stands, TakeBack
<1> QED
  BY <1>4, <1>5, <1>7, <1>8, SourceIsQuiet

-------------------------------------------------------------------------------
(* Entries stay settled. *)

(* What a step of node i may do to entries, as far as it matters here. *)
SettledAt(i) ==
    /\ \/ UNCHANGED reg
       \/ \E f \in Entry : Settled(f, i) /\ Write(i, f)
    /\ \/ UNCHANGED original
       \/ \E m \in Migrations : original' = [original EXCEPT ![i][m] = reg[i]]
    /\ \/ \A n \in Nodes : call'[n].saved = call[n].saved
       \/ /\ \A n \in Nodes : n # i => call'[n].saved = call[n].saved
          /\ call'[i].saved \in {InitialEntry(i, Home), reg[i]}
                                   \cup {original[i][m] : m \in Migrations}

LEMMA SettledKept ==
    ASSUME TypeOK, SettledInv, NEW i \in Nodes, SettledAt(i)
    PROVE  SettledInv'
<1>1. ASSUME NEW n \in Nodes
      PROVE  Settled(reg'[n], n)
  BY DEF SettledInv, SettledAt, Write, TypeOK
<1>2. ASSUME NEW n \in Nodes, NEW m \in Migrations
      PROVE  Settled(original'[n][m], n)
  <2>1. CASE UNCHANGED original
    BY <2>1 DEF SettledInv
  <2>2. ASSUME NEW k \in Migrations, original' = [original EXCEPT ![i][k] = reg[i]]
        PROVE  Settled(original'[n][m], n)
    <3>1. original'[n][m] = IF n = i /\ m = k THEN reg[i] ELSE original[n][m]
      BY <2>2 DEF TypeOK
    <3> QED
      BY <3>1 DEF SettledInv
  <2> QED
    BY <2>1, <2>2 DEF SettledAt
<1>3. ASSUME NEW n \in Nodes
      PROVE  Settled(call'[n].saved, n)
  <2>1. Settled(InitialEntry(i, Home), i)
    BY DEF Settled, InitialEntry, NoPid
  <2>2. CASE call'[n].saved = call[n].saved
    BY <2>2 DEF SettledInv
  <2>3. CASE n = i /\ call'[i].saved \in {InitialEntry(i, Home), reg[i]}
                                   \cup {original[i][m] : m \in Migrations}
    BY <2>1, <2>3 DEF SettledInv
  <2> QED
    BY <2>2, <2>3 DEF SettledAt
<1> QED
  BY <1>1, <1>2, <1>3 DEF SettledInv

LEMMA SavedStays ==
    ASSUME TypeOK, NEW i \in Nodes
    PROVE  /\ \A p : Go(i, p) => \A n \in Nodes : call'[n].saved = call[n].saved
           /\ Release(i) => /\ \A n \in Nodes : n # i => call'[n].saved = call[n].saved
                            /\ call'[i].saved = InitialEntry(i, Home)
           /\ \A p : Moves(i, p) => \A n \in Nodes : call'[n].saved = call[n].saved
<1>1. ASSUME NEW p, Go(i, p)
      PROVE  \A n \in Nodes : call'[n].saved = call[n].saved
  BY <1>1, GoMoves DEF Moves, Elsewhere
<1>2. NoCall(i).saved = InitialEntry(i, Home)
  BY DEF NoCall
<1>3. Release(i) => /\ \A n \in Nodes : n # i => call'[n].saved = call[n].saved
                    /\ call'[i].saved = InitialEntry(i, Home)
  <2> SUFFICES ASSUME Release(i)
               PROVE  /\ \A n \in Nodes : n # i => call'[n].saved = call[n].saved
                      /\ call'[i].saved = InitialEntry(i, Home)
    OBVIOUS
  <2>1. call' = [call EXCEPT ![i] = NoCall(i)]
    BY DEF Release
  <2> QED
    BY <1>2, <2>1 DEF TypeOK
<1>4. \A p : Moves(i, p) => \A n \in Nodes : call'[n].saved = call[n].saved
  BY DEF Moves, Elsewhere
<1> QED
  BY <1>1, <1>3, <1>4

(* The writes of the registry keep it so. *)
LEMMA WriteSettles ==
    ASSUME TypeOK, SettledInv, NEW i \in Nodes,
           \/ UNCHANGED reg
           \/ Write(i, reg[i]) \/ Write(i, MarkFailed(reg[i])) \/ Write(i, MarkStopped(reg[i]))
           \/ Write(i, MarkExhausted(reg[i])) \/ Write(i, MarkFailed(MarkFailed(reg[i])))
           \/ reg[i].status = "failed" /\ Write(i, BeginRecovery(reg[i]))
           \/ reg[i].owner = i /\ \E p \in Pids : Write(i, MarkRunning(reg[i], p))
           \/ reg[i].owner = i /\ \E m \in Migrations : Write(i, MarkMigrating(reg[i], m))
           \/ \E g \in Nat, m \in Migrations : Write(i, ClaimLocal(i, reg[i], g, m))
           \/ \E g \in Nat, m \in Migrations : Write(i, RestoreLocal(i, original[i][m], g))
           \/ \E g \in Nat : Write(i, RestoreLocal(i, reg[i], g))
           \/ \E o \in Nodes, g \in Nat, m \in Migrations : Write(i, MarkRemote(reg[i], o, g, m))
           \/ Write(i, call[i].saved)
    PROVE  \/ UNCHANGED reg
           \/ \E f \in Entry : Settled(f, i) /\ Write(i, f)
<1>1. /\ reg[i] \in Entry /\ Settled(reg[i], i)
      /\ call[i].saved \in Entry /\ Settled(call[i].saved, i)
      /\ \A m \in Migrations : original[i][m] \in Entry /\ Settled(original[i][m], i)
  BY DEF TypeOK, SettledInv, Call
<1>2. MarkFailed(reg[i]) \in Entry /\ Settled(MarkFailed(reg[i]), i)
  BY <1>1, EntryTransitions, SettledEntries
<1>3. MarkFailed(MarkFailed(reg[i])) \in Entry /\ Settled(MarkFailed(MarkFailed(reg[i])), i)
  BY <1>2, EntryTransitions, SettledEntries
<1> QED
  BY <1>1, <1>2, <1>3, EntryTransitions, SettledEntries

LEMMA SourceSettles ==
    ASSUME TypeOK, SettledInv, NEW i \in Nodes, SourceNext(i)
    PROVE  SettledInv'
<1>0. /\ call[i] \in Call /\ (call[i].at # "idle" => call[i].mig \in Migrations)
      /\ \A m \in Migrations : plan[m].dst \in Nodes /\ plan[m].gen \in Nat
  BY DEF TypeOK, Plan
<1>1. ASSUME \/ \E p : Go(i, p) \/ Moves(i, p)
             \/ Release(i),
             UNCHANGED original,
             \/ UNCHANGED reg
             \/ \E f \in Entry : Settled(f, i) /\ Write(i, f)
      PROVE  SettledInv'
  BY <1>1, SavedStays, SettledKept DEF SettledAt
<1>2. CASE RequestActivation(i) \/ AttemptFails(i)
  <2>1. UNCHANGED <<original, reg>>
    BY <1>2 DEF RequestActivation, AttemptFails
  <2>2. \E k, p : call' = [call EXCEPT ![i] = [@ EXCEPT !.at = p, !.attempt = k]]
                  \/ call' = [call EXCEPT ![i] = [@ EXCEPT !.attempt = k]]
                  \/ Go(i, p)
    BY <1>2 DEF RequestActivation, AttemptFails
  <2>3. \A k, p : /\ [call[i] EXCEPT !.at = p, !.attempt = k].saved = call[i].saved
                  /\ [call[i] EXCEPT !.attempt = k].saved = call[i].saved
    BY <1>0 DEF Call
  <2>4. \A c : call' = [call EXCEPT ![i] = c] /\ c.saved = call[i].saved
                  => \A n \in Nodes : call'[n].saved = call[n].saved
    BY DEF TypeOK
  <2>5. \A n \in Nodes : call'[n].saved = call[n].saved
    BY <2>2, <2>3, <2>4, SavedStays
  <2> QED
    BY <2>1, <2>5, SettledKept DEF SettledAt
<1>3. CASE QueryAnswered(i) \/ QueryFails(i)
  <2> DEFINE w == journal[plan[call[i].mig].dst][call[i].mig]
  <2>1. call[i].at = "query" /\ UNCHANGED <<original, reg>>
    BY <1>3 DEF QueryAnswered, QueryFails, records
  <2>2. w \in JournalStatus /\ "none" \in JournalStatus
    BY <1>0, <2>1 DEF TypeOK, JournalStatus
  <2> DEFINE c == [call[i] EXCEPT !.at = "decide", !.reached = TRUE, !.answer = w]
             d == [call[i] EXCEPT !.at = "decide", !.answer = "none"]
  <2>3. call' = [call EXCEPT ![i] = c] \/ call' = [call EXCEPT ![i] = d]
    BY <1>3 DEF QueryAnswered, QueryFails
  <2> HIDE DEF w
  <2>4. CASE call' = [call EXCEPT ![i] = c]
    <3>1. Moves(i, "decide")
      BY <2>2, <2>4, EditMoves
    <3> QED
      BY <1>1, <2>1, <3>1
  <2>5. CASE call' = [call EXCEPT ![i] = d]
    <3>1. Moves(i, "decide")
      BY <2>2, <2>5, EditMoves
    <3> QED
      BY <1>1, <2>1, <3>1
  <2> QED
    BY <2>3, <2>4, <2>5
<1>4. CASE MarkSource(i)
  <2>1. \/ UNCHANGED reg
        \/ reg[i].owner = i /\ \E m \in Migrations : Write(i, MarkMigrating(reg[i], m))
    BY <1>0, <1>4 DEF MarkSource, At, CanMigrate
  <2> QED
    BY <1>1, <1>4, <2>1, WriteSettles DEF MarkSource, records
<1>5. CASE ResolveUnknown(i)
  BY <1>1, <1>5, WriteSettles DEF ResolveUnknown
<1>6. CASE GiveAway(i)
  <2>1. \E o \in Nodes, g \in Nat, m \in Migrations : Write(i, MarkRemote(reg[i], o, g, m))
    BY <1>0, <1>6 DEF GiveAway
  <2> QED
    BY <1>1, <1>6, <2>1, WriteSettles DEF GiveAway, records
<1>7. CASE UndoSource(i)
  <2>1. call[i].mig \in Migrations /\ Previous(plan[call[i].mig].gen) \in Nat
    <3>1. \A g \in Nat : Previous(g) \in Nat
      BY DEF Previous
    <3> QED
      BY <1>0, <1>7, <3>1 DEF UndoSource
  <2>2. \E g \in Nat, m \in Migrations : Write(i, RestoreLocal(i, original[i][m], g))
    BY <1>7, <2>1 DEF UndoSource
  <2> QED
    BY <1>1, <1>7, <2>2, WriteSettles DEF UndoSource, records
<1>8. CASE RestoreSource(i)
  <2>1. \E g \in Nat : Write(i, RestoreLocal(i, reg[i], g))
    BY <1>0, <1>8 DEF RestoreSource, At, TypeOK, Entry
  <2> QED
    BY <1>1, <1>8, <2>1, WriteSettles DEF RestoreSource, records
<1>9. CASE PrefetchDone(i) \/ PrefetchFailed(i) \/ JournalTransfer(i) \/ TransferDone(i)
           \/ TransferFailed(i) \/ PollAgain(i) \/ ResolveActivated(i) \/ ResolveNotCommitted(i)
           \/ CommitSource(i) \/ JournalUndo(i) \/ CancelReservation(i)
  BY <1>1, <1>9
  DEF PrefetchDone, PrefetchFailed, JournalTransfer, TransferDone, TransferFailed, PollAgain,
      ResolveActivated, ResolveNotCommitted, CommitSource, JournalUndo, CancelReservation, records
<1>10. CASE ReceiveResponse(i)
  <2>1. Go(i, "remote") \/ Go(i, "restore")
    BY <1>10 DEF ReceiveResponse
  <2> QED
    BY <1>1, <1>10, <2>1 DEF ReceiveResponse, records
<1> QED
  BY <1>2, <1>3, <1>4, <1>5, <1>6, <1>7, <1>8, <1>9, <1>10 DEF SourceNext

LEMMA ProcessSettles ==
    ASSUME TypeOK, SettledInv, NEW i \in Nodes, ProcessNext(i)
    PROVE  SettledInv'
<1>0. call[i].pid \in Pids \cup {NoPid} /\ UNCHANGED original
  BY DEF TypeOK, Call, ProcessNext, StopProcess, Spawn, SpawnNotNeeded, SpawnRefused,
         SpawnNotReady, MarkRunningAfterSpawn, records
<1>1. ASSUME \E p : Go(i, p) \/ Moves(i, p),
             \/ UNCHANGED reg
             \/ \E f \in Entry : Settled(f, i) /\ Write(i, f)
      PROVE  SettledInv'
  BY <1>0, <1>1, SavedStays, SettledKept DEF SettledAt
<1>2. CASE StopProcess(i)
  <2>1. \E p : Moves(i, p)
    <3>1. CASE call[i].kind = "source"
      <4>1. call' = [call EXCEPT ![i] = [call[i] EXCEPT !.at = "transfer", !.stopped = TRUE]]
        BY <1>2, <3>1 DEF StopProcess
      <4>2. Moves(i, "transfer")
        BY <4>1, EditMoves
      <4> QED
        BY <4>2
    <3>2. CASE call[i].kind # "source"
      <4>1. Go(i, "abort")
        BY <1>2, <3>2 DEF StopProcess, Go
      <4> QED
        BY <4>1, GoMoves
    <3> QED
      BY <3>1, <3>2
  <2> QED
    BY <1>1, <1>2, <2>1, WriteSettles DEF StopProcess
<1>3. CASE Spawn(i)
  <2>1. PICK p \in Pids : call' = [call EXCEPT ![i] = [call[i] EXCEPT !.at = "running", !.pid = p]]
    BY <1>3 DEF Spawn
  <2>2. Moves(i, "running")
    BY <2>1, EditMoves
  <2> QED
    BY <1>1, <1>3, <2>2 DEF Spawn
<1>4. CASE SpawnNotNeeded(i)
  BY <1>1, <1>4 DEF SpawnNotNeeded
<1>5. CASE SpawnRefused(i)
  <2>1. \E p : Go(i, p)
    BY <1>5 DEF SpawnRefused, StartRaised
  <2>2. Write(i, reg[i]) \/ Write(i, MarkFailed(reg[i]))
    BY <1>5 DEF SpawnRefused, StartRaised
  <2> QED
    BY <1>1, <2>1, <2>2, WriteSettles
<1>6. CASE SpawnNotReady(i)
  <2>1. \E p : Go(i, p)
    BY <1>6 DEF SpawnNotReady, StartRaised
  <2>2. Write(i, MarkFailed(reg[i])) \/ Write(i, MarkFailed(MarkFailed(reg[i])))
    BY <1>6 DEF SpawnNotReady, StartRaised
  <2> QED
    BY <1>1, <2>1, <2>2, WriteSettles
<1>7. CASE MarkRunningAfterSpawn(i)
  <2>1. CASE CanRun(i, reg[i])
    <3>1. /\ call' = [call EXCEPT ![i] = [call[i] EXCEPT !.at = AfterStart(i), !.pid = NoPid]]
          /\ Write(i, MarkRunning(reg[i], call[i].pid))
          /\ reg[i].owner = i
      BY <1>7, <2>1 DEF MarkRunningAfterSpawn, CanRun
    <3>2. Moves(i, AfterStart(i))
      BY <3>1, EditMoves
    <3>3. reg[i] \in Entry /\ MarkRunning(reg[i], call[i].pid) \in Entry
          /\ Settled(MarkRunning(reg[i], call[i].pid), i)
      <4>1. reg[i] \in Entry /\ Settled(reg[i], i)
        BY DEF TypeOK, SettledInv
      <4>2. MarkRunning(reg[i], call[i].pid) \in Entry
        BY <1>0, <4>1 DEF MarkRunning, Entry, Status
      <4> QED
        BY <3>1, <4>1, <4>2, SettledEntries
    <3> QED
      BY <1>1, <3>1, <3>2, <3>3
  <2>2. CASE ~CanRun(i, reg[i])
    <3>1. \E p : Go(i, p)
      BY <1>7, <2>2 DEF MarkRunningAfterSpawn, StartRaised
    <3>2. Write(i, reg[i]) \/ Write(i, MarkFailed(reg[i]))
      BY <1>7, <2>2 DEF MarkRunningAfterSpawn, StartRaised
    <3> QED
      BY <1>1, <3>1, <3>2, WriteSettles
  <2> QED
    BY <2>1, <2>2
<1> QED
  BY <1>2, <1>3, <1>4, <1>5, <1>6, <1>7 DEF ProcessNext

LEMMA DestinationSettles ==
    ASSUME TypeOK, SettledInv, NEW i \in Nodes, DestinationNext(i)
    PROVE  SettledInv'
<1>0. /\ call[i].at # "idle" => call[i].mig \in Migrations
      /\ \A m \in Migrations : plan[m].gen \in Nat
  BY DEF TypeOK, Plan
<1>1. ASSUME UNCHANGED call \/ Release(i) \/ \E p : Go(i, p),
             UNCHANGED original,
             \/ UNCHANGED reg
             \/ \E f \in Entry : Settled(f, i) /\ Write(i, f)
      PROVE  SettledInv'
  BY <1>1, SavedStays, SettledKept DEF SettledAt
<1>2. ASSUME NEW m \in Migrations, NEW k \in Attempts, AnswerClaimed(i, m, k) \/ AnswerRolledBack(i, m, k)
      PROVE  SettledInv'
  BY <1>1, <1>2 DEF AnswerClaimed, AnswerRolledBack, records
<1>3. ASSUME NEW m \in Migrations, NEW k \in Attempts, StartActivation(i, m, k)
      PROVE  SettledInv'
  <2> DEFINE c == [NoCall(i) EXCEPT !.kind = "destination", !.at = "begin", !.mig = m,
                                    !.attempt = k, !.saved = reg[i]]
  <2>1. /\ call' = [call EXCEPT ![i] = c] /\ UNCHANGED reg
        /\ UNCHANGED original \/ original' = [original EXCEPT ![i][m] = reg[i]]
    BY <1>3 DEF StartActivation
  <2>2. c.saved = reg[i]
    BY DEF NoCall
  <2> HIDE DEF c
  <2>3. call'[i].saved = reg[i] /\ \A n \in Nodes : n # i => call'[n].saved = call[n].saved
    BY <2>1, <2>2 DEF TypeOK
  <2> QED
    BY <2>1, <2>3, SettledKept DEF SettledAt
<1>4. CASE ClaimTask(i)
  <2>1. \/ UNCHANGED reg
        \/ \E g \in Nat, m \in Migrations : Write(i, ClaimLocal(i, reg[i], g, m))
    BY <1>0, <1>4 DEF ClaimTask, At
  <2> QED
    BY <1>1, <1>4, <2>1, WriteSettles DEF ClaimTask, records
<1>5. CASE AbortActivation(i)
  BY <1>1, <1>5, WriteSettles DEF AbortActivation, records
<1>6. CASE BeginActivation(i) \/ CheckpointInvalid(i) \/ ConsumeReservation(i)
           \/ ConfirmActivation(i) \/ JournalAbort(i) \/ RefuseActivation(i)
  BY <1>1, <1>6
  DEF BeginActivation, CheckpointInvalid, ConsumeReservation, ConfirmActivation, JournalAbort,
      RefuseActivation, records
<1> QED
  BY <1>2, <1>3, <1>4, <1>5, <1>6 DEF DestinationNext

LEMMA OtherSettles ==
    ASSUME Sober, TypeOK, WriteAheadInv, OwnerInv, SettledInv, NEW i \in Nodes,
           SchedulerNext(i) \/ ReconcileNext(i) \/ ServiceNext(i) \/ EnvironmentNext(i)
    PROVE  SettledInv'
<1>1. ASSUME UNCHANGED call \/ Release(i), UNCHANGED original,
             \/ UNCHANGED reg
             \/ \E f \in Entry : Settled(f, i) /\ Write(i, f)
      PROVE  SettledInv'
  BY <1>1, SavedStays, SettledKept DEF SettledAt
<1>2. CASE SchedulerNext(i)
  <2>1. PICK m \in Migrations :
           /\ call' = [call EXCEPT ![i] = [NoCall(i) EXCEPT !.kind = "source",
                                                            !.at = "prefetch", !.mig = m]]
           /\ original' = [original EXCEPT ![i][m] = reg[i]]
           /\ UNCHANGED reg
    BY <1>2 DEF SchedulerNext, StartMigration
  <2> DEFINE c == [NoCall(i) EXCEPT !.kind = "source", !.at = "prefetch", !.mig = m]
  <2>2. c.saved = InitialEntry(i, Home)
    BY DEF NoCall
  <2>3. call' = [call EXCEPT ![i] = c]
    BY <2>1
  <2> HIDE DEF c
  <2>4. call'[i].saved = InitialEntry(i, Home) /\ \A n \in Nodes : n # i => call'[n].saved = call[n].saved
    BY <2>2, <2>3 DEF TypeOK
  <2> QED
    BY <2>1, <2>4, SettledKept DEF SettledAt
<1>3. CASE ReconcileNext(i)
  <2>1. ASSUME NEW m \in Migrations, NEW p, TakeUp(i, m, p), UNCHANGED <<reg, original>>
        PROVE  SettledInv'
    <3> DEFINE c == [NoCall(i) EXCEPT !.kind = "reconcile", !.at = p, !.mig = m,
                                      !.saved = original[i][m]]
    <3>1. call' = [call EXCEPT ![i] = c]
      BY <2>1 DEF TakeUp
    <3>2. c.saved = original[i][m]
      BY DEF NoCall
    <3> HIDE DEF c
    <3>3. call'[i].saved = original[i][m] /\ \A n \in Nodes : n # i => call'[n].saved = call[n].saved
      BY <3>1, <3>2 DEF TypeOK
    <3> QED
      BY <2>1, <3>3, SettledKept DEF SettledAt
  <2>2. ASSUME NEW m \in Migrations, ReconcileIncomplete(i, m) \/ ReconcileSource(i, m)
        PROVE  SettledInv'
    BY <2>1, <2>2 DEF ReconcileIncomplete, ReconcileSource, records
  <2> QED
    BY <1>1, <1>3, <2>2 DEF ReconcileNext, ListRecords, ReconcileCommitted, ReconcileSettled, records
<1>4. CASE ServiceNext(i)
  <2>1. ASSUME NEW j \in Nodes, Gossip(i, j)
        PROVE  SettledInv'
    <3> DEFINE f == ApplyOwnership(i, reg[i], Claim(reg[j]))
    <3>1. /\ Proper(reg[j]) /\ reg[j] \in Entry /\ reg[j].status # "completed"
          /\ reg[i] \in Entry /\ Settled(reg[i], i)
      BY <2>1, ToldIsProper DEF Gossip, Sober, Orderly, TypeOK, SettledInv, Settled
    <3>2. Accepts(reg[i], Claim(reg[j])) /\ Write(i, f) /\ UNCHANGED <<call, original>>
      BY <2>1 DEF Gossip, records
    <3>3. f.owner = i => reg[i].owner = i
      BY <3>1, <3>2, GossipFits
    <3>4. f \in Entry
      BY <3>1, OwnershipType
    <3>5. Settled(f, i)
      <4> HIDE DEF f
      <4>1. /\ f.owner = reg[j].owner
            /\ reg[j].owner = i => f.status = reg[i].status /\ f.pid = reg[i].pid
            /\ reg[j].owner # i => f.status = "remote" /\ f.pid = NoPid
        BY <3>1, AppliedEntry DEF f
      <4> QED
        BY <3>1, <3>3, <4>1 DEF Settled
    <3> HIDE DEF f
    <3> QED
      BY <1>1, <3>2, <3>4, <3>5
  <2>2. CASE ReconcileRuntime(i)
    BY <1>1, <2>2, WriteSettles DEF ReconcileRuntime, records, Sober
  <2>3. CASE Recover(i)
    BY <1>1, <2>3, WriteSettles DEF Recover, CanRecover, records
  <2>4. CASE StarterSpawn(i)
    BY <1>1, <2>4 DEF StarterSpawn, records
  <2>5. CASE StarterRunning(i)
    <3>1. CASE CanRun(i, reg[i])
      <4>1. Write(i, MarkRunning(reg[i], starter[i].pid)) /\ reg[i].owner = i
        BY <2>5, <3>1 DEF StarterRunning, CanRun
      <4>2. reg[i] \in Entry /\ Settled(reg[i], i) /\ starter[i].pid \in Pids \cup {NoPid}
        BY DEF TypeOK, SettledInv
      <4>3. MarkRunning(reg[i], starter[i].pid) \in Entry
        BY <4>2 DEF MarkRunning, Entry, Status
      <4> QED
        BY <1>1, <2>5, <4>1, <4>2, <4>3, SettledEntries DEF StarterRunning, records
    <3>2. CASE ~CanRun(i, reg[i])
      BY <1>1, <2>5, <3>2 DEF StarterRunning, records
    <3> QED
      BY <3>1, <3>2
  <2>6. CASE StarterNotReady(i)
    BY <1>1, <2>6, WriteSettles DEF StarterNotReady, records
  <2> QED
    BY <1>4, <2>1, <2>2, <2>3, <2>4, <2>5, <2>6 DEF ServiceNext
<1>5. CASE EnvironmentNext(i)
  BY <1>1, <1>5
  DEF EnvironmentNext, ProcessExits, OperatorStart, Crash, ServiceCrash, Forget, records
<1> QED
  BY <1>2, <1>3, <1>4, <1>5

LEMMA SettledStep ==
    ASSUME Sober, TypeOK, WriteAheadInv, OwnerInv, SettledInv, [Next]_vars
    PROVE  SettledInv'
<1>1. CASE UNCHANGED <<reg, call, original>>
  BY <1>1 DEF SettledInv
<1>2. ASSUME NEW i \in Nodes,
             \/ SchedulerNext(i) \/ SourceNext(i)  \/ ProcessNext(i) \/ DestinationNext(i)
             \/ ReconcileNext(i) \/ ServiceNext(i) \/ EnvironmentNext(i)
      PROVE  SettledInv'
  BY <1>2, SourceSettles, ProcessSettles, DestinationSettles, OtherSettles
<1> QED
  BY <1>1, <1>2 DEF Next, vars, ExpireReservation, records

-------------------------------------------------------------------------------
(* Steps of one node leave the work of the others alone. *)

LEMMA OthersStay ==
    ASSUME TypeOK, NEW i \in Nodes,
           \/ SchedulerNext(i) \/ SourceNext(i)  \/ ProcessNext(i) \/ DestinationNext(i)
           \/ ReconcileNext(i) \/ ServiceNext(i) \/ EnvironmentNext(i),
           NEW j \in Nodes, j # i
    PROVE  UNCHANGED <<procs[j], starter[j], journal[j]>>
<1> DEFINE P == UNCHANGED procs \/ \E x : procs' = [procs EXCEPT ![i] = x]
           S == UNCHANGED starter \/ \E x : starter' = [starter EXCEPT ![i] = x]
           J == UNCHANGED journal \/ \E m \in Migrations : \E w : Record(i, m, w)
<1>0. P /\ S /\ J => UNCHANGED <<procs[j], starter[j], journal[j]>>
  <2> SUFFICES ASSUME P, S, J PROVE UNCHANGED <<procs[j], starter[j], journal[j]>>
    OBVIOUS
  <2>1. UNCHANGED procs[j] /\ UNCHANGED starter[j]
    BY DEF TypeOK
  <2>2. UNCHANGED journal[j]
    BY DEF TypeOK, Record
  <2> QED
    BY <2>1, <2>2
<1>1. /\ UNCHANGED procs => P
      /\ \A x : procs' = [procs EXCEPT ![i] = x] => P
      /\ UNCHANGED starter => S
      /\ \A x : starter' = [starter EXCEPT ![i] = x] => S
      /\ UNCHANGED journal => J
      /\ \A m \in Migrations : \A w : Record(i, m, w) => J
  OBVIOUS
<1>2. call[i].at # "idle" => call[i].mig \in Migrations
  BY DEF TypeOK
<1> HIDE DEF P, S, J
<1>3. CASE SchedulerNext(i)
  BY <1>0, <1>1, <1>3 DEF SchedulerNext, StartMigration
<1>4. CASE SourceNext(i)
  <2>1. UNCHANGED <<procs, starter>>
    BY <1>4
    DEF SourceNext, PrefetchDone, PrefetchFailed, MarkSource, JournalTransfer, TransferDone,
        TransferFailed, RequestActivation, ReceiveResponse, AttemptFails, QueryAnswered,
        QueryFails, PollAgain, ResolveActivated, ResolveNotCommitted, ResolveUnknown, GiveAway,
        CommitSource, UndoSource, RestoreSource, JournalUndo, CancelReservation
  <2>2. J
    <3>1. CASE AttemptFails(i)
      BY <1>1, <1>2, <3>1 DEF AttemptFails, At
    <3>2. CASE PrefetchFailed(i) \/ JournalTransfer(i) \/ RequestActivation(i)
      BY <1>1, <1>2, <3>2 DEF PrefetchFailed, JournalTransfer, RequestActivation, At
    <3>3. CASE ResolveUnknown(i) \/ CommitSource(i) \/ JournalUndo(i)
      BY <1>1, <1>2, <3>3 DEF ResolveUnknown, CommitSource, JournalUndo
    <3> QED
      BY <1>1, <1>4, <3>1, <3>2, <3>3
      DEF SourceNext, PrefetchDone, MarkSource, TransferDone, TransferFailed, ReceiveResponse,
          QueryAnswered, QueryFails, PollAgain, ResolveActivated, ResolveNotCommitted, GiveAway,
          UndoSource, RestoreSource, CancelReservation, records
  <2> QED
    BY <1>0, <1>1, <2>1, <2>2
<1>5. CASE ProcessNext(i)
  <2>1. UNCHANGED <<starter, journal>>
    BY <1>5 DEF ProcessNext, StopProcess, Spawn, SpawnNotNeeded, SpawnRefused, SpawnNotReady,
                MarkRunningAfterSpawn, records
  <2>2. P
    <3>1. CASE StopProcess(i)
      BY <1>1, <3>1 DEF StopProcess
    <3>2. CASE Spawn(i)
      BY <1>1, <3>2 DEF Spawn
    <3> QED
      BY <1>1, <1>5, <3>1, <3>2
      DEF ProcessNext, SpawnNotNeeded, SpawnRefused, SpawnNotReady, MarkRunningAfterSpawn
  <2> QED
    BY <1>0, <1>1, <2>1, <2>2
<1>6. CASE DestinationNext(i)
  <2>1. UNCHANGED <<procs, starter>>
    BY <1>6
    DEF DestinationNext, AnswerClaimed, AnswerRolledBack, StartActivation, BeginActivation,
        ClaimTask, CheckpointInvalid, ConsumeReservation, ConfirmActivation, AbortActivation,
        JournalAbort, RefuseActivation
  <2>2. J
    <3>1. ASSUME NEW m \in Migrations, NEW k \in Attempts,
                 AnswerClaimed(i, m, k) \/ AnswerRolledBack(i, m, k) \/ StartActivation(i, m, k)
          PROVE  J
      BY <1>1, <3>1 DEF AnswerClaimed, AnswerRolledBack, StartActivation, records
    <3>2. CASE ConfirmActivation(i) \/ JournalAbort(i)
      BY <1>1, <1>2, <3>2 DEF ConfirmActivation, JournalAbort, At
    <3> QED
      BY <1>1, <1>6, <3>1, <3>2
      DEF DestinationNext, BeginActivation, ClaimTask, CheckpointInvalid, ConsumeReservation,
          AbortActivation, RefuseActivation, records
  <2> QED
    BY <1>0, <1>1, <2>1, <2>2
<1>7. CASE ReconcileNext(i)
  BY <1>0, <1>1, <1>7
  DEF ReconcileNext, ListRecords, ReconcileCommitted, ReconcileIncomplete, ReconcileSettled,
      ReconcileSource, records
<1>8. CASE ServiceNext(i)
  <2>1. UNCHANGED journal
    BY <1>8 DEF ServiceNext, Gossip, ReconcileRuntime, Recover, StarterSpawn, StarterRunning,
                StarterNotReady, records
  <2>2. CASE StarterSpawn(i)
    BY <1>0, <1>1, <2>1, <2>2 DEF StarterSpawn
  <2>3. CASE Recover(i)
    BY <1>0, <1>1, <2>1, <2>3 DEF Recover
  <2> QED
    BY <1>0, <1>1, <1>8, <2>1, <2>2, <2>3
    DEF ServiceNext, Gossip, ReconcileRuntime, StarterRunning, StarterNotReady
<1>9. CASE EnvironmentNext(i)
  <2>1. UNCHANGED journal
    BY <1>9 DEF EnvironmentNext, ProcessExits, OperatorStart, Crash, ServiceCrash, records
  <2>2. S
    BY <1>1, <1>9 DEF EnvironmentNext, ProcessExits, OperatorStart, Crash, ServiceCrash, Forget
  <2>3. P
    BY <1>1, <1>9 DEF EnvironmentNext, ProcessExits, OperatorStart, Crash, ServiceCrash
  <2> QED
    BY <1>0, <1>1, <2>1, <2>2, <2>3
<1> QED
  BY <1>3, <1>4, <1>5, <1>6, <1>7, <1>8, <1>9

LEMMA OthersWork ==
    ASSUME TypeOK, WriteAheadInv, [Next]_vars, NEW j \in Nodes, Works(j),
           UNCHANGED <<reg[j], call[j], procs[j], starter[j], journal[j]>>
    PROVE  Works(j)'
<1>1. \A m \in Migrations : journal[j][m] # "none" => plan'[m] = plan[m]
  BY PlansStay DEF WriteAheadInv, PlanInv, Begun
<1>2. \A m \in Migrations : Sent(j, m)' => Sent(j, m)
  BY <1>1 DEF Sent
<1>3. Unfinished(j)' <=> Unfinished(j)
  BY DEF Unfinished
<1> QED
  BY <1>2, <1>3 DEF Works

-------------------------------------------------------------------------------
(* The work of the node that acts. *)

(* A call at a place other than "running", and no recovery. *)
LEMMA WorkMoves ==
    ASSUME NEW n \in Nodes, Works(n), starter[n].at = "idle", UNCHANGED starter[n],
           NEW p, p # "running", call'[n].at = p, call'[n].pid = NoPid,
           \/ procs'[n] = {}
           \/ reg'[n].owner = n /\ procs'[n] \subseteq {reg'[n].pid},
           p \in QuietPlace => procs'[n] = {},
           p = "spawn" => reg'[n].status \in {"stopped", "remote"},
           p \in {"prefetch", "mark"} => journal'[n][call'[n].mig] = "preparing",
           reg'[n].status = "migrating" => procs'[n] = {} \/ p \in {"journalTransfer", "kill"},
           p \in {"idle", "cancel", "refuse"} =>
              procs'[n] = {} \/ \A m \in Migrations : ~Sent(n, m)'
    PROVE  Works(n)'
  BY DEF Works

(* A node that is left without a process. *)
LEMMA QuietWorks ==
    ASSUME NEW n \in Nodes, Works(n), starter[n].at = "idle", UNCHANGED starter[n],
           call'[n].at \notin {"running", "spawn", "prefetch", "mark"}, call'[n].pid = NoPid,
           procs'[n] = {}
    PROVE  Works(n)'
  BY DEF Works

(* What is known of a node in a call. *)
LEMMA CallWorks ==
    ASSUME TypeOK, CourseInv, WorkInv, NEW n \in Nodes,
           call[n].at \notin {"idle", "cancel", "refuse"}
    PROVE  /\ Works(n)
           /\ starter[n].at = "idle"
           /\ call[n].mig \in Migrations
           /\ procs[n] # {} => reg[n].owner = n
           /\ call[n].at # "running" => procs[n] \subseteq {reg[n].pid} /\ call[n].pid = NoPid
           /\ call[n].at \in QuietPlace => procs[n] = {}
           /\ reg[n].status = "migrating" =>
                 procs[n] = {} \/ call[n].at \in {"journalTransfer", "kill"}
           /\ Settled(reg[n], n)
<1>1. Unfinished(n) /\ call[n].mig \in Migrations
  BY CallIsUnfinished
<1>2. NoPid \notin procs[n]
  BY NoPidRuns
<1>3. starter[n].at = "idle" /\ procs[n] \subseteq {reg[n].pid, call[n].pid}
  BY <1>1, NoStarter
<1> QED
  BY <1>1, <1>2, <1>3 DEF WorkInv, SettledInv, Works

(* A call that closes its record leaves nothing to resolve at its node. *)
LEMMA ClosedRecords ==
    ASSUME TypeOK, WriteAheadInv, CourseInv, OwnerInv, NEW n \in Nodes,
           call[n].at \notin {"idle", "cancel", "refuse"}, UNCHANGED plan,
           NEW w \in Terminal, Record(n, call[n].mig, w)
    PROVE  \A m \in Migrations : ~Sent(n, m)'
<1>1. call[n].mig \in Migrations
  BY DEF TypeOK
<1>2. Writes(n, call[n].mig, w)
  BY <1>1, RecordWrites
<1>3. ASSUME NEW m \in Migrations
      PROVE  ~Sent(n, m)'
  <2>1. CASE m = call[n].mig
    BY <1>2, <2>1 DEF Writes, Sent, Terminal
  <2>2. CASE m # call[n].mig
    BY <1>2, <2>2, OthersDecided DEF Writes, Sent
  <2> QED
    BY <2>1, <2>2
<1> QED
  BY <1>3

(* The pid of a call that is edited or ends. *)
LEMMA CallPid ==
    ASSUME TypeOK, NEW n \in Nodes
    PROVE  /\ \A p : Go(n, p) => /\ call'[n].at = p
                                 /\ call'[n].pid = call[n].pid
                                 /\ call'[n].mig = call[n].mig
           /\ Release(n) => call'[n].at = "idle" /\ call'[n].pid = NoPid
           /\ \A m, p : TakeUp(n, m, p) => call'[n].at = p /\ call'[n].pid = NoPid
<1>1. call[n] \in Call
  BY DEF TypeOK
<1>2. ASSUME NEW p, Go(n, p)
      PROVE  call'[n].at = p /\ call'[n].pid = call[n].pid /\ call'[n].mig = call[n].mig
  <2> DEFINE c == [call[n] EXCEPT !.at = p]
  <2>1. c.at = p /\ c.pid = call[n].pid /\ c.mig = call[n].mig
    BY <1>1 DEF Call
  <2>2. call' = [call EXCEPT ![n] = c]
    BY <1>2 DEF Go
  <2> HIDE DEF c
  <2> QED
    BY <2>1, <2>2 DEF TypeOK
<1>3. Release(n) => call'[n].at = "idle" /\ call'[n].pid = NoPid
  <2>1. NoCall(n).at = "idle" /\ NoCall(n).pid = NoPid
    BY DEF NoCall
  <2> HIDE DEF NoCall
  <2> QED
    BY <2>1 DEF Release, TypeOK
<1>4. ASSUME NEW m, NEW p, TakeUp(n, m, p)
      PROVE  call'[n].at = p /\ call'[n].pid = NoPid
  <2> DEFINE c == [NoCall(n) EXCEPT !.kind = "reconcile", !.at = p, !.mig = m,
                                    !.saved = original[n][m]]
  <2>1. c.at = p /\ c.pid = NoPid
    BY DEF NoCall
  <2>2. call' = [call EXCEPT ![n] = c]
    BY <1>4 DEF TakeUp
  <2> HIDE DEF c
  <2> QED
    BY <2>1, <2>2 DEF TypeOK
<1> QED
  BY <1>2, <1>3, <1>4

LEMMA SourceWorks ==
    ASSUME TypeOK, WriteAheadInv, CourseInv, OwnerInv, WorkInv, NEW i \in Nodes, SourceNext(i)
    PROVE  Works(i)'
<1>0. UNCHANGED <<procs, starter>>
  BY DEF SourceNext, PrefetchDone, PrefetchFailed, MarkSource, JournalTransfer, TransferDone,
         TransferFailed, RequestActivation, ReceiveResponse, AttemptFails, QueryAnswered,
         QueryFails, PollAgain, ResolveActivated, ResolveNotCommitted, ResolveUnknown, GiveAway,
         CommitSource, UndoSource, RestoreSource, JournalUndo, CancelReservation
(* From a place without a process to a place without a process. *)
<1>1. ASSUME call[i].at \in QuietPlace,
             call'[i].at \notin {"running", "spawn", "prefetch", "mark"},
             call'[i].pid \in {NoPid, call[i].pid}
      PROVE  Works(i)'
  <2>1. call[i].at \notin {"idle", "cancel", "refuse", "running"}
    BY <1>1 DEF QuietPlace
  <2> QED
    BY <1>0, <1>1, <2>1, CallWorks, QuietWorks
<1>2. ASSUME NEW p, Go(i, p), call[i].at \in QuietPlace,
             p \notin {"running", "spawn", "prefetch", "mark"}
      PROVE  Works(i)'
  BY <1>1, <1>2, CallPid
<1>3. CASE PrefetchDone(i)
  <2>1. call[i].at = "prefetch" /\ Go(i, "mark") /\ UNCHANGED <<reg, journal>>
    BY <1>3 DEF PrefetchDone, At, records
  <2>2. journal[i][call[i].mig] = "preparing"
    BY <2>1 DEF WorkInv, Works
  <2>3. call'[i].at = "mark" /\ call'[i].pid = NoPid /\ call'[i].mig = call[i].mig
    BY <2>1, CallPid, CallWorks
  <2> QED
    BY <1>0, <2>1, <2>2, <2>3, CallWorks, WorkMoves DEF QuietPlace
<1>4. CASE PrefetchFailed(i)
  <2>1. /\ call[i].at = "prefetch" /\ Go(i, "cancel") /\ UNCHANGED <<reg, plan>>
        /\ Record(i, call[i].mig, "rolled_back")
    BY <1>4 DEF PrefetchFailed, At
  <2>2. call'[i].at = "cancel" /\ call'[i].pid = NoPid
    BY <2>1, CallPid, CallWorks
  <2>3. \A m \in Migrations : ~Sent(i, m)'
    BY <2>1, ClosedRecords DEF Terminal
  <2> QED
    BY <1>0, <2>1, <2>2, <2>3, CallWorks, WorkMoves DEF QuietPlace
<1>5. CASE MarkSource(i)
  <2>1. call[i].at = "mark"
    BY <1>5 DEF MarkSource, At
  <2>2. CASE CanMigrate(i, reg[i])
    <3>1. Go(i, "journalTransfer") /\ Write(i, MarkMigrating(reg[i], call[i].mig)) /\ reg[i].owner = i
      BY <1>5, <2>2 DEF MarkSource, CanMigrate
    <3>2. call'[i].at = "journalTransfer" /\ call'[i].pid = NoPid
      BY <2>1, <3>1, CallPid, CallWorks
    <3>3. reg'[i].owner = i /\ reg'[i].pid = reg[i].pid
      BY <3>1 DEF Write, MarkMigrating, TypeOK, Entry
    <3> QED
      BY <1>0, <2>1, <3>2, <3>3, CallWorks, WorkMoves DEF QuietPlace
  <2>3. CASE ~CanMigrate(i, reg[i])
    <3>1. Go(i, "restore")
      BY <1>5, <2>3 DEF MarkSource
    <3>2. procs[i] = {}
      BY <2>1, <2>3, CallWorks DEF CanMigrate, Settled
    <3>3. call'[i].at = "restore" /\ call'[i].pid = NoPid
      BY <2>1, <3>1, CallPid, CallWorks
    <3> QED
      BY <1>0, <2>1, <3>2, <3>3, CallWorks, QuietWorks
  <2> QED
    BY <2>2, <2>3
<1>6. CASE JournalTransfer(i)
  <2>1. call[i].at = "journalTransfer" /\ Go(i, "kill") /\ UNCHANGED reg
    BY <1>6 DEF JournalTransfer, At
  <2>2. call'[i].at = "kill" /\ call'[i].pid = NoPid
    BY <2>1, CallPid, CallWorks
  <2> QED
    BY <1>0, <2>1, <2>2, CallWorks, WorkMoves DEF QuietPlace
<1>7. CASE TransferDone(i) \/ TransferFailed(i) \/ PollAgain(i) \/ ResolveActivated(i)
           \/ ResolveNotCommitted(i) \/ GiveAway(i)
  BY <1>2, <1>7
  DEF TransferDone, TransferFailed, PollAgain, ResolveActivated, ResolveNotCommitted, GiveAway,
      QuietPlace, At
<1>8. CASE ReceiveResponse(i)
  <2>1. call[i].at = "await" /\ \E p \in {"remote", "restore"} : Go(i, p)
    BY <1>8 DEF ReceiveResponse, At
  <2> QED
    BY <1>2, <2>1 DEF QuietPlace
<1>9. CASE RequestActivation(i) \/ AttemptFails(i)
  <2>1. call[i].at \in {"request", "await"}
    BY <1>9 DEF RequestActivation, AttemptFails, At
  <2>2. \/ Go(i, "query")
        \/ \E k : call' = [call EXCEPT ![i] = [@ EXCEPT !.at = "await", !.attempt = k]]
        \/ \E k : call' = [call EXCEPT ![i] = [@ EXCEPT !.attempt = k]]
    <3>1. CASE RequestActivation(i)
      BY <3>1 DEF RequestActivation
    <3>2. CASE AttemptFails(i)
      BY <3>2 DEF AttemptFails
    <3> QED
      BY <1>9, <3>1, <3>2
  <2>3. call[i] \in Call
    BY DEF TypeOK
  <2>4. ASSUME NEW c, call' = [call EXCEPT ![i] = c], c.at \in {call[i].at, "await"},
               c.pid = call[i].pid
        PROVE  Works(i)'
    <3>1. call'[i] = c
      BY <2>4 DEF TypeOK
    <3> QED
      BY <1>1, <2>1, <2>4, <3>1 DEF QuietPlace
  <2>5. ASSUME NEW k, call' = [call EXCEPT ![i] = [@ EXCEPT !.at = "await", !.attempt = k]]
        PROVE  Works(i)'
    <3> DEFINE c == [call[i] EXCEPT !.at = "await", !.attempt = k]
    <3>1. c.at = "await" /\ c.pid = call[i].pid
      BY <2>3 DEF Call
    <3>2. call' = [call EXCEPT ![i] = c]
      BY <2>5
    <3> HIDE DEF c
    <3> QED
      BY <2>4, <3>1, <3>2
  <2>6. ASSUME NEW k, call' = [call EXCEPT ![i] = [@ EXCEPT !.attempt = k]]
        PROVE  Works(i)'
    <3> DEFINE c == [call[i] EXCEPT !.attempt = k]
    <3>1. c.at = call[i].at /\ c.pid = call[i].pid
      BY <2>3 DEF Call
    <3>2. call' = [call EXCEPT ![i] = c]
      BY <2>6
    <3> HIDE DEF c
    <3> QED
      BY <2>4, <3>1, <3>2
  <2> QED
    BY <1>2, <2>1, <2>2, <2>5, <2>6 DEF QuietPlace
<1>10. CASE QueryAnswered(i) \/ QueryFails(i)
  <2>1. call[i].at = "query" /\ call[i] \in Call
    BY <1>10 DEF QueryAnswered, QueryFails, TypeOK
  <2>2. ASSUME NEW c, call' = [call EXCEPT ![i] = c], c.at = "decide", c.pid = call[i].pid
        PROVE  Works(i)'
    <3>1. call'[i] = c
      BY <2>2 DEF TypeOK
    <3> QED
      BY <1>1, <2>1, <2>2, <3>1 DEF QuietPlace
  <2>3. CASE QueryAnswered(i)
    <3> DEFINE w == journal[plan[call[i].mig].dst][call[i].mig]
               c == [call[i] EXCEPT !.at = "decide", !.reached = TRUE, !.answer = w]
    <3>1. call' = [call EXCEPT ![i] = c]
      BY <2>3 DEF QueryAnswered
    <3> HIDE DEF w
    <3>2. c.at = "decide" /\ c.pid = call[i].pid
      BY <2>1 DEF Call
    <3> HIDE DEF c
    <3> QED
      BY <2>2, <3>1, <3>2
  <2>4. CASE QueryFails(i)
    <3> DEFINE c == [call[i] EXCEPT !.at = "decide", !.answer = "none"]
    <3>1. call' = [call EXCEPT ![i] = c]
      BY <2>4 DEF QueryFails
    <3>2. c.at = "decide" /\ c.pid = call[i].pid
      BY <2>1 DEF Call
    <3> HIDE DEF c
    <3> QED
      BY <2>2, <3>1, <3>2
  <2> QED
    BY <1>10, <2>3, <2>4
<1>11. CASE ResolveUnknown(i) \/ CommitSource(i)
  <2>1. call[i].at \in QuietPlace /\ (Go(i, "cancel") \/ Release(i))
    BY <1>11 DEF ResolveUnknown, CommitSource, QuietPlace
  <2> QED
    BY <1>1, <1>2, <2>1, CallPid
<1>12. CASE UndoSource(i)
  <2> DEFINE e == original[i][call[i].mig]
             g == Previous(plan[call[i].mig].gen)
  <2>1. call[i].at = "undo" /\ Go(i, "spawn") /\ Write(i, RestoreLocal(i, e, g))
    BY <1>12 DEF UndoSource
  <2>2. e \in Entry
    BY <2>1 DEF TypeOK
  <2> HIDE DEF e, g
  <2>3. reg'[i].status = "stopped"
    BY <2>1, <2>2 DEF Write, RestoreLocal, TypeOK, Entry
  <2>4. call'[i].at = "spawn" /\ call'[i].pid = NoPid /\ procs[i] = {}
    BY <2>1, CallPid, CallWorks DEF QuietPlace
  <2> QED
    BY <1>0, <2>1, <2>3, <2>4, CallWorks, WorkMoves
<1>13. CASE RestoreSource(i)
  <2> DEFINE g == original[i][call[i].mig].gen
  <2>1. /\ call[i].at = "restore" /\ Write(i, RestoreLocal(i, reg[i], g))
        /\ Go(i, "spawn") \/ Go(i, "journalUndo")
    BY <1>13 DEF RestoreSource, At
  <2> HIDE DEF g
  <2>2. reg'[i].status = "stopped"
    BY <2>1 DEF Write, RestoreLocal, TypeOK, Entry
  <2>3. call'[i].at \in {"spawn", "journalUndo"} /\ call'[i].pid = NoPid /\ procs[i] = {}
    BY <2>1, CallPid, CallWorks DEF QuietPlace
  <2> QED
    BY <1>0, <2>1, <2>2, <2>3, CallWorks, WorkMoves
<1>14. CASE JournalUndo(i)
  <2>1. /\ call[i].at = "journalUndo" /\ UNCHANGED <<reg, plan>>
        /\ Record(i, call[i].mig, "rolled_back")
        /\ Go(i, "cancel") \/ Release(i)
    BY <1>14 DEF JournalUndo
  <2>2. call'[i].at \in {"idle", "cancel"} /\ call'[i].pid = NoPid
    BY <2>1, CallPid, CallWorks
  <2>3. \A m \in Migrations : ~Sent(i, m)'
    BY <2>1, ClosedRecords DEF Terminal
  <2> QED
    BY <1>0, <2>1, <2>2, <2>3, CallWorks, WorkMoves DEF QuietPlace
<1>15. CASE CancelReservation(i)
  <2>1. /\ call[i].at = "cancel" /\ Release(i)
        /\ UNCHANGED <<reg, journal, plan>>
    BY <1>15 DEF CancelReservation, At, records
  <2>2. call'[i].at = "idle" /\ call'[i].pid = NoPid
    BY <2>1, CallPid
  <2>3. Unfinished(i)' <=> Unfinished(i)
    BY <2>1 DEF Unfinished
  <2>4. \A m \in Migrations : Sent(i, m)' <=> Sent(i, m)
    BY <2>1 DEF Sent
  <2> QED
    BY <1>0, <2>1, <2>2, <2>3, <2>4 DEF WorkInv, Works, QuietPlace
<1> QED
  BY <1>3, <1>4, <1>5, <1>6, <1>7, <1>8, <1>9, <1>10, <1>11, <1>12, <1>13, <1>14, <1>15
  DEF SourceNext

LEMMA ProcessWorks ==
    ASSUME TypeOK, WriteAheadInv, CourseInv, OwnerInv, WorkInv, NEW i \in Nodes, ProcessNext(i)
    PROVE  Works(i)'
<1>0. UNCHANGED <<starter, plan>>
  BY DEF ProcessNext, StopProcess, Spawn, SpawnNotNeeded, SpawnRefused, SpawnNotReady,
         MarkRunningAfterSpawn
<1>1. CASE StopProcess(i)
  <2>1. call[i].at = "kill" /\ call[i] \in Call
    BY <1>1 DEF StopProcess, TypeOK
  <2>2. procs' = [procs EXCEPT ![i] = @ \ {reg[i].pid}]
    BY <1>1 DEF StopProcess, WorkInv, SettledInv, Settled
  <2>3. procs'[i] = {}
    BY <2>1, <2>2, CallWorks DEF TypeOK
  <2>4. ASSUME NEW c, call' = [call EXCEPT ![i] = c], c.at \in {"transfer", "abort"},
               c.pid = call[i].pid
        PROVE  Works(i)'
    <3>1. call'[i] = c
      BY <2>4 DEF TypeOK
    <3> QED
      BY <1>0, <2>1, <2>3, <2>4, <3>1, CallWorks, QuietWorks
  <2>5. CASE call[i].kind = "source"
    <3> DEFINE c == [call[i] EXCEPT !.at = "transfer", !.stopped = TRUE]
    <3>1. call' = [call EXCEPT ![i] = c]
      BY <1>1, <2>5 DEF StopProcess
    <3>2. c.at = "transfer" /\ c.pid = call[i].pid
      BY <2>1 DEF Call
    <3> HIDE DEF c
    <3> QED
      BY <2>4, <3>1, <3>2
  <2>6. CASE call[i].kind # "source"
    <3> DEFINE c == [call[i] EXCEPT !.at = "abort"]
    <3>1. call' = [call EXCEPT ![i] = c]
      BY <1>1, <2>6 DEF StopProcess
    <3>2. c.at = "abort" /\ c.pid = call[i].pid
      BY <2>1 DEF Call
    <3> HIDE DEF c
    <3> QED
      BY <2>4, <3>1, <3>2
  <2> QED
    BY <2>5, <2>6
<1>2. CASE Spawn(i)
  <2>1. PICK p \in Pids :
           /\ procs' = [procs EXCEPT ![i] = @ \cup {p}]
           /\ call' = [call EXCEPT ![i] = [@ EXCEPT !.at = "running", !.pid = p]]
    BY <1>2 DEF Spawn
  <2>2. call[i].at = "spawn" /\ UNCHANGED reg /\ reg[i].owner = i
    BY <1>2 DEF Spawn, CanRun
  <2>3. procs'[i] = {p}
    BY <2>1, <2>2, CallWorks DEF TypeOK, QuietPlace
  <2>4. call'[i].at = "running" /\ call'[i].pid = p
    <3> DEFINE c == [call[i] EXCEPT !.at = "running", !.pid = p]
    <3>1. call' = [call EXCEPT ![i] = c]
      BY <2>1
    <3>2. c.at = "running" /\ c.pid = p
      BY DEF TypeOK, Call
    <3> HIDE DEF c
    <3> QED
      BY <3>1, <3>2 DEF TypeOK
  <2>5. Works(i) /\ starter[i].at = "idle"
    BY <2>2, CallWorks
  <2> QED
    BY <1>0, <2>2, <2>3, <2>4, <2>5 DEF Works, QuietPlace
<1>3. CASE SpawnNotNeeded(i) \/ SpawnRefused(i) \/ SpawnNotReady(i)
  <2>1. call[i].at = "spawn" /\ UNCHANGED procs
    BY <1>3 DEF SpawnNotNeeded, SpawnRefused, SpawnNotReady
  <2>2. procs[i] = {}
    BY <2>1, CallWorks DEF QuietPlace
  <2>3. ~AlreadyRunning(i)
    BY <2>2 DEF AlreadyRunning, Alive
  <2>4. \E p \in {"abort", "journalUndo"} : Go(i, p)
    BY <1>3, <2>3 DEF SpawnNotNeeded, SpawnRefused, SpawnNotReady, StartRaised
  <2>5. call'[i].at \in {"abort", "journalUndo"} /\ call'[i].pid = NoPid
    BY <2>1, <2>4, CallPid, CallWorks
  <2> QED
    BY <1>0, <2>1, <2>2, <2>5, CallWorks, QuietWorks
<1>4. CASE MarkRunningAfterSpawn(i)
  <2>1. call[i].at = "running" /\ UNCHANGED procs /\ call[i] \in Call
    BY <1>4 DEF MarkRunningAfterSpawn, TypeOK
  <2>2. reg[i].owner = i
    <3>1. CASE call[i].kind = "destination"
      BY <2>1, <3>1 DEF OwnerInv, StandInv, Stands, Claiming
    <3>2. CASE call[i].kind # "destination"
      <4>1. call[i].mig \in Open /\ i = plan[call[i].mig].src
        BY <2>1, <3>2, AtSource DEF ResolvePlace
      <4>2. Kept(call[i].mig)
        BY <2>1, <3>2 DEF OwnerInv, StandInv, Stands, TakeBack
      <4>3. call[i].mig \notin Landed
        BY <4>2 DEF Kept, Landed
      <4> QED
        BY <4>1, <4>3 DEF OwnerInv, FitInv, Fits
    <3> QED
      BY <3>1, <3>2
  <2>3. CanRun(i, reg[i])
    BY <2>2 DEF CanRun, WorkInv, SettledInv, Settled
  <2> DEFINE c == [call[i] EXCEPT !.at = AfterStart(i), !.pid = NoPid]
  <2>4. call' = [call EXCEPT ![i] = c] /\ Write(i, MarkRunning(reg[i], call[i].pid))
    BY <1>4, <2>3 DEF MarkRunningAfterSpawn
  <2>5. c.at = AfterStart(i) /\ c.pid = NoPid
    BY <2>1 DEF Call
  <2>6. AfterStart(i) \in {"consume", "journalUndo"}
    BY DEF AfterStart
  <2> HIDE DEF c
  <2>7. call'[i].at \in {"consume", "journalUndo"} /\ call'[i].pid = NoPid
    BY <2>4, <2>5, <2>6 DEF TypeOK
  <2>8. reg'[i].owner = i /\ reg'[i].pid = call[i].pid /\ reg'[i].status = "running"
    BY <2>2, <2>4 DEF Write, MarkRunning, TypeOK, Entry
  <2>9. procs[i] \subseteq {call[i].pid} /\ Works(i) /\ starter[i].at = "idle"
    BY <2>1, CallWorks DEF Works
  <2> QED
    BY <1>0, <2>1, <2>7, <2>8, <2>9, WorkMoves DEF QuietPlace
<1> QED
  BY <1>1, <1>2, <1>3, <1>4 DEF ProcessNext

(* A node whose call rests or waits while one of its records is closed. *)
LEMMA RestWorks ==
    ASSUME TypeOK, WorkInv, NEW n \in Nodes,
           UNCHANGED <<reg, procs, starter, plan>>, call'[n].pid = NoPid,
           \/ UNCHANGED call /\ call[n].at = "idle"
           \/ call[n].at \in {"cancel", "refuse"} /\ call'[n].at = "idle",
           \/ UNCHANGED journal
           \/ \E m \in Migrations, w \in Terminal : Record(n, m, w)
    PROVE  Works(n)'
<1>1. \A m \in Migrations : \/ journal'[n][m] = journal[n][m]
                            \/ journal'[n][m] \in Terminal
  <2>1. ASSUME NEW j \in Migrations, NEW w \in Terminal, Record(n, j, w)
        PROVE  \A m \in Migrations : journal'[n][m] = journal[n][m] \/ journal'[n][m] \in Terminal
    BY <2>1, RecordWrites DEF Writes
  <2> QED
    BY <2>1
<1>2. Unfinished(n)' => Unfinished(n)
  BY <1>1 DEF Unfinished
<1>3. \A m \in Migrations : Sent(n, m)' => Sent(n, m)
  BY <1>1 DEF Sent, Terminal
<1>4. Works(n)
  BY DEF WorkInv
<1> QED
  BY <1>2, <1>3, <1>4 DEF Works, QuietPlace

LEMMA DestinationWorks ==
    ASSUME TypeOK, WriteAheadInv, CourseInv, OwnerInv, WorkInv, NEW i \in Nodes,
           DestinationNext(i)
    PROVE  Works(i)'
<1>0. UNCHANGED <<procs, starter, plan>>
  BY DEF DestinationNext, AnswerClaimed, AnswerRolledBack, StartActivation, BeginActivation,
         ClaimTask, CheckpointInvalid, ConsumeReservation, ConfirmActivation, AbortActivation,
         JournalAbort, RefuseActivation
<1>1. Works(i)
  BY DEF WorkInv
<1>2. ASSUME NEW m \in Migrations, NEW k \in Attempts, AnswerClaimed(i, m, k)
      PROVE  Works(i)'
  <2>1. /\ UNCHANGED <<reg, call>> /\ call[i].at = "idle"
        /\ Record(i, m, "activated")
    BY <1>2 DEF AnswerClaimed, Free
  <2>2. call'[i].pid = NoPid
    BY <1>1, <2>1 DEF Works
  <2> QED
    BY <1>0, <2>1, <2>2, RestWorks DEF Terminal
<1>3. ASSUME NEW m \in Migrations, NEW k \in Attempts, AnswerRolledBack(i, m, k)
      PROVE  Works(i)'
  <2>1. UNCHANGED <<reg, call, journal>> /\ call[i].at = "idle"
    BY <1>3 DEF AnswerRolledBack, Free, records
  <2>2. call'[i].pid = NoPid
    BY <1>1, <2>1 DEF Works
  <2> QED
    BY <1>0, <2>1, <2>2, RestWorks
<1>4. ASSUME NEW m \in Migrations, NEW k \in Attempts, StartActivation(i, m, k)
      PROVE  Works(i)'
  <2>1. /\ i = plan[m].dst /\ <<m, k>> \in requests /\ ~ClaimedFor(i, m)
        /\ UNCHANGED reg
    BY <1>4 DEF StartActivation
  <2>2. m \in Asked /\ m \in Open
    BY <2>1, Busy DEF Asked, OwnerInv
  <2>3. i # plan[m].src
    BY <2>1, <2>2, Plans
  <2>4. reg[i].owner # i
    <3>1. CASE m \in Landed
      BY <2>1, <2>2, <3>1 DEF OwnerInv, FitInv, Fits, Claiming, ClaimedFor
    <3>2. CASE m \notin Landed
      BY <2>1, <2>2, <2>3, <3>2, OwnerIsSource DEF Claiming, ClaimedFor
    <3> QED
      BY <3>1, <3>2
  <2>5. procs[i] = {} /\ starter[i].at = "idle"
    BY <1>1, <2>4 DEF Works
  <2> DEFINE c == [NoCall(i) EXCEPT !.kind = "destination", !.at = "begin",
                                    !.mig = m, !.attempt = k, !.saved = reg[i]]
  <2>6. call' = [call EXCEPT ![i] = c]
    BY <1>4 DEF StartActivation
  <2>7. c.at = "begin" /\ c.pid = NoPid
    BY DEF NoCall
  <2> HIDE DEF c
  <2>8. call'[i].at = "begin" /\ call'[i].pid = NoPid
    BY <2>6, <2>7 DEF TypeOK
  <2> QED
    BY <1>0, <1>1, <2>5, <2>8, QuietWorks
<1>5. CASE BeginActivation(i) \/ CheckpointInvalid(i) \/ AbortActivation(i)
  <2>1. /\ call[i].at \in {"begin", "claim", "abort"}
        /\ \E p \in {"claim", "abort", "journalAbort"} : Go(i, p)
    BY <1>5 DEF BeginActivation, CheckpointInvalid, AbortActivation, At
  <2>2. /\ procs[i] = {}
        /\ call'[i].at \in {"claim", "abort", "journalAbort"}
        /\ call'[i].pid = NoPid
    BY <2>1, CallPid, CallWorks DEF QuietPlace
  <2> QED
    BY <1>0, <2>1, <2>2, CallWorks, QuietWorks
<1>6. CASE ClaimTask(i)
  <2>1. call[i].at = "claim" /\ call[i].mig \in Migrations
    BY <1>6 DEF ClaimTask, At, TypeOK
  <2>2. procs[i] = {} /\ starter[i].at = "idle"
    BY <2>1, CallWorks DEF QuietPlace
  <2>3. CASE CanClaim(reg[i], plan[call[i].mig].gen)
    <3> DEFINE g == plan[call[i].mig].gen
    <3>1. Write(i, ClaimLocal(i, reg[i], g, call[i].mig)) /\ Go(i, "spawn")
      BY <1>6, <2>3 DEF ClaimTask
    <3> HIDE DEF g
    <3>2. reg'[i].status = "stopped"
      BY <3>1 DEF Write, ClaimLocal, TypeOK, Entry
    <3>3. call'[i].at = "spawn" /\ call'[i].pid = NoPid
      BY <2>1, <3>1, CallPid, CallWorks
    <3> QED
      BY <1>0, <1>1, <2>2, <3>2, <3>3, WorkMoves
  <2>4. CASE ~CanClaim(reg[i], plan[call[i].mig].gen)
    <3>1. Go(i, "abort")
      BY <1>6, <2>4 DEF ClaimTask
    <3>2. call'[i].at = "abort" /\ call'[i].pid = NoPid
      BY <2>1, <3>1, CallPid, CallWorks
    <3> QED
      BY <1>0, <1>1, <2>2, <3>2, QuietWorks
  <2> QED
    BY <2>3, <2>4
<1>7. CASE ConsumeReservation(i)
  <2>1. /\ call[i].at = "consume" /\ UNCHANGED reg
        /\ Go(i, "confirm") \/ Go(i, "kill")
    BY <1>7 DEF ConsumeReservation, At
  <2>2. call'[i].at \in {"confirm", "kill"} /\ call'[i].pid = NoPid
    BY <2>1, CallPid, CallWorks
  <2> QED
    BY <1>0, <2>1, <2>2, CallWorks, WorkMoves DEF QuietPlace
<1>8. CASE ConfirmActivation(i)
  <2>1. /\ call[i].at = "confirm" /\ UNCHANGED reg
        /\ Record(i, call[i].mig, "activated")
        /\ Release(i)
    BY <1>8 DEF ConfirmActivation, At
  <2>2. call'[i].at = "idle" /\ call'[i].pid = NoPid
    BY <2>1, CallPid
  <2>3. \A m \in Migrations : ~Sent(i, m)'
    BY <1>0, <2>1, ClosedRecords DEF Terminal
  <2> QED
    BY <1>0, <2>1, <2>2, <2>3, CallWorks, WorkMoves DEF QuietPlace
<1>9. CASE JournalAbort(i)
  <2>1. call[i].at = "journalAbort" /\ (Go(i, "refuse") \/ Release(i))
    BY <1>9 DEF JournalAbort
  <2>2. reg[i].owner # i
    BY <2>1 DEF OwnerInv, StandInv, Stands
  <2>3. procs[i] = {} /\ call'[i].at \in {"refuse", "idle"} /\ call'[i].pid = NoPid
    BY <2>1, <2>2, CallPid, CallWorks
  <2> QED
    BY <1>0, <2>1, <2>3, CallWorks, QuietWorks
<1>10. CASE RefuseActivation(i)
  <2>1. call[i].at = "refuse" /\ Release(i) /\ UNCHANGED <<reg, journal>>
    BY <1>10 DEF RefuseActivation, At, records
  <2>2. call'[i].at = "idle" /\ call'[i].pid = NoPid
    BY <2>1, CallPid
  <2> QED
    BY <1>0, <2>1, <2>2, RestWorks
<1> QED
  BY <1>2, <1>3, <1>4, <1>5, <1>6, <1>7, <1>8, <1>9, <1>10 DEF DestinationNext

LEMMA ReconcileWorks ==
    ASSUME TypeOK, WriteAheadInv, CourseInv, OwnerInv, WorkInv, NEW i \in Nodes,
           ReconcileNext(i)
    PROVE  Works(i)'
<1>0. UNCHANGED <<reg, procs, starter, plan>>
  BY DEF ReconcileNext, ListRecords, ReconcileCommitted, ReconcileIncomplete, ReconcileSettled,
         ReconcileSource
<1>1. Works(i)
  BY DEF WorkInv
<1>2. CASE ListRecords(i)
  <2>1. UNCHANGED <<call, journal>>
    BY <1>2 DEF ListRecords, records
  <2>2. Unfinished(i)' <=> Unfinished(i)
    BY <2>1 DEF Unfinished
  <2>3. \A m \in Migrations : Sent(i, m)' <=> Sent(i, m)
    BY <1>0, <2>1 DEF Sent
  <2> QED
    BY <1>0, <1>1, <2>1, <2>2, <2>3 DEF Works
<1>3. ASSUME NEW m \in Migrations, ReconcileCommitted(i, m) \/ ReconcileSettled(i, m)
      PROVE  Works(i)'
  <2>1. UNCHANGED call /\ call[i].at = "idle" /\ \E w \in Terminal : Record(i, m, w)
    BY <1>3 DEF ReconcileCommitted, ReconcileSettled, Turn, Free, Terminal
  <2>2. call'[i].pid = NoPid
    BY <1>1, <2>1 DEF Works
  <2> QED
    BY <1>0, <2>1, <2>2, RestWorks
(* A listed record is open. *)
<1>4. ASSUME NEW m \in Migrations, Turn(i, m)
      PROVE  /\ call[i].at = "idle"
             /\ listed[i][m] = journal[i][m]
             /\ journal[i][m] \notin Terminal \cup {"none"}
             /\ m \in Open /\ (i = plan[m].dst => journal[i][m] = "activating")
             /\ starter[i].at = "idle"
             /\ procs[i] \subseteq {reg[i].pid}
  <2>1. /\ call[i].at = "idle" /\ listed[i][m] = journal[i][m]
        /\ journal[i][m] \notin Terminal \cup {"none"}
    BY <1>4 DEF Turn, Free, CourseInv, ListedInv
  <2>2. Unfinished(i)
    BY <2>1 DEF Unfinished
  <2>3. NoPid \notin procs[i]
    BY NoPidRuns
  <2>4. starter[i].at = "idle" /\ procs[i] \subseteq {reg[i].pid, call[i].pid}
    BY <2>2, NoStarter
  <2>5. m \in Open /\ (i = plan[m].dst => journal[i][m] = "activating")
    BY <2>1, Busy DEF OwnerInv
  <2> QED
    BY <1>1, <2>1, <2>3, <2>4, <2>5 DEF Works
<1>5. ASSUME NEW m \in Migrations, ReconcileIncomplete(i, m)
      PROVE  Works(i)'
  <2>1. Turn(i, m) /\ i = plan[m].dst
    BY <1>5 DEF ReconcileIncomplete
  <2>2. CASE reg[i].last = m /\ reg[i].owner = i /\ reg[i].pid # NoPid
    <3>1. TakeUp(i, m, "kill")
      BY <1>5, <2>2 DEF ReconcileIncomplete
    <3>2. call'[i].at = "kill" /\ call'[i].pid = NoPid
      BY <3>1, CallPid
    <3> QED
      BY <1>0, <1>1, <1>4, <2>1, <2>2, <3>2, WorkMoves DEF QuietPlace
  <2>3. CASE ~(reg[i].last = m /\ reg[i].owner = i /\ reg[i].pid # NoPid)
    <3>1. TakeUp(i, m, "abort")
      BY <1>5, <2>3 DEF ReconcileIncomplete
    <3>2. call'[i].at = "abort" /\ call'[i].pid = NoPid
      BY <3>1, CallPid
    <3>3. procs[i] = {}
      <4>1. CASE reg[i].pid = NoPid
        BY <1>4, <2>1, <4>1, NoPidRuns
      <4>2. CASE reg[i].owner # i
        BY <1>1, <4>2 DEF Works
      <4>3. CASE reg[i].owner = i /\ reg[i].last # m
        <5>1. m \in Open \ Landed /\ i # plan[m].src
          BY <1>4, <2>1, Plans DEF Landed
        <5> QED
          BY <4>3, <5>1, OwnerIsSource DEF Claiming
      <4> QED
        BY <2>3, <4>1, <4>2, <4>3
    <3> QED
      BY <1>0, <1>1, <1>4, <2>1, <3>2, <3>3, QuietWorks
  <2> QED
    BY <2>2, <2>3
<1>6. ASSUME NEW m \in Migrations, ReconcileSource(i, m)
      PROVE  Works(i)'
  <2>1. Turn(i, m) /\ i = plan[m].src /\ ~NeverQuiesced(i, m) /\ TakeUp(i, m, "query")
    BY <1>6 DEF ReconcileSource
  <2>2. call'[i].at = "query" /\ call'[i].pid = NoPid
    BY <2>1, CallPid
  <2>3. procs[i] = {}
    <3>1. CASE journal[i][m] = "preparing"
      <4>1. reg[i].owner # i \/ reg[i].status = "migrating"
        BY <1>4, <2>1, <3>1 DEF NeverQuiesced
      <4> QED
        BY <1>1, <1>4, <2>1, <4>1 DEF Works
    <3>2. CASE journal[i][m] # "preparing"
      <4>1. journal[i][m] \in {"transferring", "activating", "uncertain"}
        BY <1>4, <2>1, <3>2 DEF TypeOK, JournalStatus, Terminal
      <4> QED
        BY <1>1, <1>4, <2>1, <4>1 DEF Works, Sent
    <3> QED
      BY <3>1, <3>2
  <2> QED
    BY <1>0, <1>1, <1>4, <2>1, <2>2, <2>3, QuietWorks
<1> QED
  BY <1>2, <1>3, <1>5, <1>6 DEF ReconcileNext

LEMMA SchedulerWorks ==
    ASSUME TypeOK, WorkInv, NEW i \in Nodes, SchedulerNext(i)
    PROVE  Works(i)'
<1>1. PICK m \in Migrations :
         /\ call' = [call EXCEPT ![i] = [NoCall(i) EXCEPT !.kind = "source",
                                                          !.at = "prefetch", !.mig = m]]
         /\ Record(i, m, "preparing")
         /\ call[i].at = "idle"
         /\ reg[i].owner = i
         /\ reg[i].status = "running"
         /\ UNCHANGED <<reg, procs, starter>>
  BY DEF SchedulerNext, StartMigration, Free
<1> DEFINE c == [NoCall(i) EXCEPT !.kind = "source", !.at = "prefetch", !.mig = m]
<1>2. c.at = "prefetch" /\ c.mig = m /\ c.pid = NoPid
  BY DEF NoCall
<1>3. call' = [call EXCEPT ![i] = c]
  BY <1>1
<1> HIDE DEF c
<1>4. call'[i].at = "prefetch" /\ call'[i].mig = m /\ call'[i].pid = NoPid
  BY <1>2, <1>3 DEF TypeOK
<1>5. journal'[i][m] = "preparing"
  BY <1>1, RecordWrites DEF Writes
<1>6. Works(i) /\ NoPid \notin procs[i]
  BY NoPidRuns DEF WorkInv
<1>7. starter[i].at = "idle" /\ procs[i] \subseteq {reg[i].pid}
  BY <1>1, <1>6 DEF Works
<1> QED
  BY <1>1, <1>4, <1>5, <1>6, <1>7, WorkMoves DEF QuietPlace

(* A node at which recovery is starting the task. *)
LEMMA StarterAlone ==
    ASSUME TypeOK, CourseInv, WorkInv, NEW n \in Nodes, ~Unfinished(n)
    PROVE  /\ call[n].at \in {"idle", "cancel", "refuse"}
           /\ call[n].pid = NoPid
           /\ \A m \in Migrations : ~Sent(n, m)
<1>1. call[n].at \in {"idle", "cancel", "refuse"}
  BY CallIsUnfinished
<1>2. \A m \in Migrations : ~Sent(n, m)
  BY DEF Sent, Unfinished, Terminal
<1> QED
  BY <1>1, <1>2 DEF WorkInv, Works

LEMMA ServiceWorks ==
    ASSUME Sober, TypeOK, WriteAheadInv, CourseInv, OwnerInv, WorkInv, NEW i \in Nodes,
           ServiceNext(i)
    PROVE  Works(i)'
<1>0. UNCHANGED <<call, journal, plan>>
  BY DEF ServiceNext, Gossip, ReconcileRuntime, Recover, StarterSpawn, StarterRunning,
         StarterNotReady, records
<1>1. Works(i) /\ NoPid \notin procs[i] /\ Settled(reg[i], i) /\ reg[i] \in Entry
  BY NoPidRuns DEF WorkInv, SettledInv, TypeOK
<1>2. (Unfinished(i)' <=> Unfinished(i)) /\ \A m \in Migrations : Sent(i, m)' <=> Sent(i, m)
  BY <1>0 DEF Unfinished, Sent
<1>3. ASSUME NEW j \in Nodes, Gossip(i, j)
      PROVE  Works(i)'
  <2> DEFINE u == reg[j]
             f == ApplyOwnership(i, reg[i], Claim(u))
  <2>1. /\ Proper(u) /\ u \in Entry /\ u.status # "completed"
        /\ Accepts(reg[i], Claim(u)) /\ Write(i, f) /\ UNCHANGED <<procs, starter>>
    BY <1>3, ToldIsProper DEF Gossip, Sober, Orderly, TypeOK, WorkInv, SettledInv, Settled
  <2>2. f.owner = i => reg[i].owner = i
    BY <2>1, GossipFits
  <2>3. /\ f.owner = u.owner
        /\ u.owner = i => f.status = reg[i].status /\ f.pid = reg[i].pid
        /\ u.owner # i => f.status = "remote" /\ f.pid = NoPid
    BY <1>1, <2>1, AppliedEntry
  <2>4. u.owner # i /\ reg[i].owner = i
           => procs[i] = {} /\ Unfinished(i) /\ call[i].at # "running"
    BY <2>1, OwnerIsNotTold
  <2> HIDE DEF f, u
  <2>5. reg'[i] = f
    BY <2>1 DEF Write, TypeOK
  <2>6. CASE u.owner = i
    BY <1>0, <1>1, <1>2, <2>1, <2>2, <2>3, <2>5, <2>6 DEF Works
  <2>7. CASE u.owner # i
    <3>1. procs[i] = {} /\ starter[i].at = "idle"
      BY <1>1, <2>4, <2>7 DEF Works
    <3> QED
      BY <1>0, <1>1, <1>2, <2>1, <2>3, <2>5, <2>7, <3>1 DEF Works
  <2> QED
    BY <2>6, <2>7
<1>4. CASE ReconcileRuntime(i)
  <2>1. /\ reg[i].owner = i /\ reg[i].status \in {"running", "paused"}
        /\ ~Alive(i, reg[i].pid)
        /\ Write(i, MarkFailed(reg[i])) /\ UNCHANGED <<procs, starter>>
    BY <1>4 DEF ReconcileRuntime, Sober
  <2>2. starter[i].at = "idle" /\ call[i].at \notin {"spawn", "running"}
    BY <1>1, <2>1 DEF Works
  <2>3. procs[i] = {}
    BY <1>1, <2>1, <2>2 DEF Works, Alive
  <2>4. reg'[i].status = "failed"
    BY <1>1, <2>1 DEF Write, MarkFailed, TypeOK, Entry
  <2> QED
    BY <1>0, <1>1, <1>2, <2>1, <2>2, <2>3, <2>4 DEF Works
<1>5. CASE Recover(i)
  <2>1. /\ starter[i].at = "idle" /\ reg[i].status = "failed" /\ reg[i].owner = i
        /\ ~Unfinished(i)
        /\ Write(i, BeginRecovery(reg[i])) /\ UNCHANGED procs
        /\ starter' = [starter EXCEPT ![i].at = "spawn"]
    BY <1>5 DEF Recover, CanRecover, Sober
  <2>2. reg'[i].status = "recovering" /\ reg'[i].owner = i /\ reg'[i].pid = reg[i].pid
    BY <1>1, <2>1 DEF Write, BeginRecovery, TypeOK, Entry
  <2>3. starter'[i].at = "spawn" /\ starter'[i].pid = starter[i].pid
    BY <2>1 DEF TypeOK
  <2>4. call[i].at \in {"idle", "cancel", "refuse"}
    BY <2>1, StarterAlone
  <2> QED
    BY <1>0, <1>1, <1>2, <2>1, <2>2, <2>3, <2>4 DEF Works
<1>6. CASE StarterSpawn(i)
  <2>1. starter[i].at = "spawn" /\ UNCHANGED reg
    BY <1>6 DEF StarterSpawn
  <2>2. /\ reg[i].owner = i /\ reg[i].status = "recovering" /\ ~Unfinished(i)
        /\ starter[i].pid = NoPid
    BY <1>1, <2>1 DEF Works
  <2>3. /\ call[i].at \in {"idle", "cancel", "refuse"}
        /\ \A m \in Migrations : ~Sent(i, m)
    BY <2>2, StarterAlone
  <2>4. ASSUME NEW p \in Pids, procs' = [procs EXCEPT ![i] = @ \cup {p}],
               starter' = [starter EXCEPT ![i] = [at |-> "running", pid |-> p]]
        PROVE  Works(i)'
    <3>1. procs'[i] = procs[i] \cup {p} /\ starter'[i].at = "running" /\ starter'[i].pid = p
      BY <2>4 DEF TypeOK
    <3> QED
      BY <1>0, <1>1, <1>2, <2>1, <2>2, <2>3, <3>1 DEF Works, QuietPlace
  <2>5. ASSUME UNCHANGED procs, starter' = [starter EXCEPT ![i] = NoStart]
        PROVE  Works(i)'
    <3>1. starter'[i].at = "idle" /\ starter'[i].pid = NoPid
      BY <2>5 DEF TypeOK, NoStart
    <3> QED
      BY <1>0, <1>1, <1>2, <2>1, <2>2, <2>3, <2>5, <3>1 DEF Works, QuietPlace
  <2> QED
    BY <1>6, <2>4, <2>5 DEF StarterSpawn
<1>7. CASE StarterRunning(i) \/ StarterNotReady(i)
  <2>1. /\ starter[i].at # "idle" /\ starter' = [starter EXCEPT ![i] = NoStart]
        /\ UNCHANGED procs
    BY <1>7 DEF StarterRunning, StarterNotReady
  <2>2. starter'[i].at = "idle" /\ starter'[i].pid = NoPid
    BY <2>1 DEF TypeOK, NoStart
  <2>3. /\ reg[i].owner = i /\ reg[i].status = "recovering" /\ ~Unfinished(i)
        /\ reg[i].pid = NoPid
    BY <1>1, <2>1 DEF Works, Settled
  <2>4. /\ call[i].at \in {"idle", "cancel", "refuse"} /\ call[i].pid = NoPid
        /\ \A m \in Migrations : ~Sent(i, m)
    BY <2>3, StarterAlone
  <2>5. procs[i] \subseteq {starter[i].pid}
    BY <1>1, <2>3, <2>4 DEF Works
  <2>6. CASE StarterRunning(i)
    <3>1. Write(i, MarkRunning(reg[i], starter[i].pid))
      BY <2>3, <2>6 DEF StarterRunning, CanRun
    <3>2. reg'[i].pid = starter[i].pid /\ reg'[i].owner = i /\ reg'[i].status = "running"
      BY <1>1, <2>3, <3>1 DEF Write, MarkRunning, TypeOK, Entry
    <3> QED
      BY <1>0, <1>1, <1>2, <2>1, <2>2, <2>4, <2>5, <3>2 DEF Works, QuietPlace
  <2>7. CASE StarterNotReady(i)
    <3>1. Write(i, MarkFailed(reg[i])) /\ starter[i].at = "spawn"
      BY <2>7 DEF StarterNotReady
    <3>2. reg'[i].status = "failed"
      BY <1>1, <3>1 DEF Write, MarkFailed, TypeOK, Entry
    <3>3. procs[i] = {}
      BY <1>1, <2>5, <3>1 DEF Works
    <3> QED
      BY <1>0, <1>1, <1>2, <2>1, <2>2, <2>4, <3>2, <3>3 DEF Works
  <2> QED
    BY <1>7, <2>6, <2>7
<1> QED
  BY <1>3, <1>4, <1>5, <1>6, <1>7 DEF ServiceNext

LEMMA EnvironmentWorks ==
    ASSUME Sober, TypeOK, WriteAheadInv, CourseInv, OwnerInv, WorkInv, NEW i \in Nodes,
           EnvironmentNext(i)
    PROVE  Works(i)'
<1>0. UNCHANGED <<reg, journal, plan>>
  BY DEF EnvironmentNext, ProcessExits, OperatorStart, Crash, ServiceCrash, records
<1>1. Works(i) /\ NoPid \notin procs[i]
  BY NoPidRuns DEF WorkInv
<1>2. (Unfinished(i)' <=> Unfinished(i)) /\ \A m \in Migrations : Sent(i, m)' <=> Sent(i, m)
  BY <1>0 DEF Unfinished, Sent
<1>3. CASE ProcessExits(i)
  <2>1. UNCHANGED <<call, starter>> /\ \E p : procs' = [procs EXCEPT ![i] = @ \ {p}]
    BY <1>3 DEF ProcessExits
  <2>2. procs'[i] \subseteq procs[i]
    BY <2>1 DEF TypeOK
  <2> QED
    BY <1>0, <1>1, <1>2, <2>1, <2>2 DEF Works
<1>4. ASSUME Forget(i)
      PROVE  /\ call'[i].at = "idle" /\ call'[i].pid = NoPid
             /\ starter'[i].at = "idle" /\ starter'[i].pid = NoPid
  BY <1>4, CallPid DEF Forget, TypeOK, NoStart
<1>5. CASE Crash(i)
  <2>1. /\ Forget(i) /\ UNCHANGED procs
        /\ starter[i].at = "idle"
        /\ call[i].at \notin {"journalTransfer", "kill", "running", "journalUndo"}
    BY <1>5 DEF Crash, Moving, Sober
  <2>2. procs[i] \subseteq {reg[i].pid} /\ (procs[i] # {} => reg[i].owner = i)
    BY <1>1, <2>1 DEF Works
  <2>3. \/ procs[i] = {}
        \/ \A m \in Migrations : Sent(i, m) => procs[i] = {}
    <3>1. CASE call[i].at \in {"idle", "cancel", "refuse"}
      BY <1>1, <3>1 DEF Works
    <3>2. CASE call[i].at \notin {"idle", "cancel", "refuse"}
      <4>1. CASE call[i].at \in QuietPlace
        BY <1>1, <4>1 DEF Works
      <4>2. CASE call[i].at \in {"prefetch", "mark"}
        <5>1. ~Sent(i, call[i].mig)
          BY <1>1, <4>2 DEF Works, Sent
        <5> QED
          BY <3>2, <5>1, OthersDecided
      <4>3. CASE call[i].at = "journalAbort"
        BY <1>1, <4>3 DEF Works, OwnerInv, StandInv, Stands
      <4>4. CASE call[i].at \in {"consume", "confirm"}
        <5>1. i = plan[call[i].mig].dst /\ call[i].mig \in Open
          BY <3>2, <4>4, RoleAt, Busy
          DEF Role, SourcePlace, ResolvePlace, RevertPlace, OwnerInv
        <5>2. ~Sent(i, call[i].mig)
          BY <5>1, Plans DEF Sent
        <5> QED
          BY <3>2, <5>2, OthersDecided
      <4>5. call[i].at \in Place
        BY DEF TypeOK, Call
      <4> QED
        BY <2>1, <3>2, <4>1, <4>2, <4>3, <4>4, <4>5 DEF Place, QuietPlace
    <3> QED
      BY <3>1, <3>2
  <2> QED
    BY <1>0, <1>1, <1>2, <1>4, <2>1, <2>2, <2>3 DEF Works, QuietPlace
<1>6. CASE ServiceCrash(i)
  <2>1. Forget(i) /\ procs' = [procs EXCEPT ![i] = {}]
    BY <1>6 DEF ServiceCrash
  <2>2. procs'[i] = {}
    BY <2>1 DEF TypeOK
  <2> QED
    BY <1>0, <1>1, <1>2, <1>4, <2>1, <2>2 DEF Works
<1> QED
  BY <1>3, <1>5, <1>6 DEF EnvironmentNext, OperatorStart, Fault, Sober

LEMMA WorkStep ==
    ASSUME Sober, TypeOK, WriteAheadInv, CourseInv, OwnerInv, WorkInv, [Next]_vars
    PROVE  WorkInv'
<1>1. SettledInv'
  BY SettledStep DEF WorkInv
<1>2. ASSUME NEW i \in Nodes,
             \/ SchedulerNext(i) \/ SourceNext(i)  \/ ProcessNext(i) \/ DestinationNext(i)
             \/ ReconcileNext(i) \/ ServiceNext(i) \/ EnvironmentNext(i)
      PROVE  \A n \in Nodes : Works(n)'
  <2>1. Works(i)'
    BY <1>2, SchedulerWorks, SourceWorks, ProcessWorks, DestinationWorks, ReconcileWorks,
       ServiceWorks, EnvironmentWorks
  <2>2. ASSUME NEW j \in Nodes, j # i
        PROVE  Works(j)'
    <3>1. UNCHANGED <<procs[j], starter[j], journal[j]>>
      BY <1>2, <2>2, OthersStay
    <3>2. UNCHANGED <<reg[j], call[j]>>
      BY <1>2, <2>2, OneActs DEF Elsewhere
    <3> QED
      BY <3>1, <3>2, OthersWork DEF WorkInv
  <2> QED
    BY <2>1, <2>2
<1>3. ASSUME UNCHANGED <<reg, call, procs, starter, journal>>
      PROVE  \A n \in Nodes : Works(n)'
  <2>1. ASSUME NEW j \in Nodes
        PROVE  Works(j)'
    <3>1. UNCHANGED <<reg[j], call[j], procs[j], starter[j], journal[j]>> /\ Works(j)
      BY <1>3 DEF WorkInv
    <3> QED
      BY <3>1, OthersWork
  <2> QED
    BY <2>1
<1>4. \A n \in Nodes : Works(n)'
  <2>1. ASSUME UNCHANGED vars
        PROVE  \A n \in Nodes : Works(n)'
    BY <1>3, <2>1 DEF vars
  <2>2. ASSUME NEW m \in Migrations, ExpireReservation(m)
        PROVE  \A n \in Nodes : Works(n)'
    BY <1>3, <2>2 DEF ExpireReservation, records
  <2> HIDE DEF Works
  <2> QED
    BY <1>2, <2>1, <2>2 DEF Next
<1> QED
  BY <1>1, <1>4 DEF WorkInv

LEMMA WorkInit == Init => WorkInv
<1> SUFFICES ASSUME Init PROVE WorkInv
  OBVIOUS
<1>1. PICK p \in Pids :
         /\ reg = [n \in Nodes |-> IF n = Home THEN MarkRunning(InitialEntry(n, Home), p)
                                               ELSE InitialEntry(n, Home)]
         /\ procs = [n \in Nodes |-> IF n = Home THEN {p} ELSE {}]
         /\ journal = [n \in Nodes |-> [m \in Migrations |-> "none"]]
         /\ original = [n \in Nodes |-> [m \in Migrations |-> InitialEntry(n, Home)]]
         /\ call = [n \in Nodes |-> NoCall(n)]
         /\ starter = [n \in Nodes |-> NoStart]
  BY DEF Init
<1>2. ASSUME NEW n \in Nodes
      PROVE  Settled(InitialEntry(n, Home), n) /\ Settled(NoCall(n).saved, n)
  BY DEF Settled, InitialEntry, NoCall, NoPid
<1>3. ASSUME NEW n \in Nodes
      PROVE  /\ n = Home => reg[n].owner = n /\ reg[n].status = "running" /\ reg[n].pid = p
             /\ n # Home => reg[n] = InitialEntry(n, Home)
  BY <1>1 DEF MarkRunning, InitialEntry
<1>4. SettledInv
  <2>1. ASSUME NEW n \in Nodes
        PROVE  Settled(reg[n], n)
    BY <1>2, <1>3 DEF Settled
  <2>2. \A n \in Nodes : /\ call[n].saved = NoCall(n).saved
                         /\ \A m \in Migrations : original[n][m] = InitialEntry(n, Home)
    BY <1>1
  <2> QED
    BY <1>2, <2>1, <2>2 DEF SettledInv
<1>5. ASSUME NEW n \in Nodes
      PROVE  Works(n)
  <2>1. call[n].at = "idle" /\ call[n].pid = NoPid
    BY <1>1 DEF NoCall
  <2>2. starter[n].at = "idle" /\ starter[n].pid = NoPid
    BY <1>1 DEF NoStart
  <2>3. \A m \in Migrations : ~Sent(n, m)
    BY <1>1 DEF Sent
  <2>4. reg[n].status # "migrating"
    BY <1>3, InitialEntry(n, Home).status # "migrating" DEF InitialEntry
  <2>5. procs[n] \subseteq {reg[n].pid} /\ (procs[n] # {} => reg[n].owner = n)
    BY <1>1, <1>3
  <2> QED
    BY <2>1, <2>2, <2>3, <2>4, <2>5 DEF Works, QuietPlace
<1> QED
  BY <1>4, <1>5 DEF WorkInv

LEMMA WorkKept ==
    ASSUME Sober
    PROVE  Spec => []WorkInv
<1>1. Init => WorkInv
  BY WorkInit
<1>2. TypeOK /\ WriteAheadInv /\ CourseInv /\ OwnerInv /\ WorkInv /\ [Next]_vars => WorkInv'
  BY WorkStep
<1>3. Spec => []CourseInv /\ []OwnerInv
  BY CourseKept, OwnerKept DEF Sober
<1> QED
  BY <1>1, <1>2, <1>3, TypeCorrect, WriteAheadKept, PTL DEF Spec

-------------------------------------------------------------------------------
(* What follows from it. *)

(* A process that nobody could stop or pause (LocalProcessRuntime finds it by
   the recorded pid) never exists: a live process is the one its node's registry
   names, or is being started by a call or by recovery that will write it there. *)
THEOREM ProcessesAreNamed ==
    ASSUME Sober
    PROVE  Spec => []NoOrphanProcess
<1>1. WorkInv => NoOrphanProcess
  BY DEF WorkInv, Works, NoOrphanProcess
<1> QED
  BY <1>1, WorkKept, PTL

(* The source's restart (migrate, _rollback_source_record), the destination's
   start (activate_incoming) and recovery never overlap: the task has at most one
   process in the whole cluster. *)
THEOREM ExecutedOnce ==
    ASSUME Sober
    PROVE  Spec => []NoDuplicateExecution
<1>1. TypeOK /\ WriteAheadInv /\ CourseInv /\ OwnerInv /\ WorkInv => NoDuplicateExecution
  <2> SUFFICES ASSUME TypeOK, WriteAheadInv, CourseInv, OwnerInv, WorkInv,
                      NEW a \in Nodes, NEW b \in Nodes, NEW p \in procs[a], NEW q \in procs[b]
               PROVE  a = b /\ p = q
    BY DEF NoDuplicateExecution
  <2>1. ASSUME NEW n \in Nodes, NEW x \in procs[n], NEW y \in procs[n]
        PROVE  x = y
    <3>1. Works(n) /\ NoPid \notin procs[n] /\ Settled(reg[n], n)
      BY NoPidRuns DEF WorkInv, SettledInv
    <3>2. CASE starter[n].at # "idle"
      <4>1. reg[n].pid = NoPid /\ ~Unfinished(n)
        BY <3>1, <3>2 DEF Works, Settled
      <4>2. call[n].pid = NoPid
        BY <4>1, StarterAlone
      <4> QED
        BY <2>1, <3>1, <4>1, <4>2 DEF Works
    <3>3. CASE starter[n].at = "idle"
      <4>1. starter[n].pid = NoPid
        BY <3>1, <3>3 DEF Works
      <4> QED
        BY <2>1, <3>1, <4>1 DEF Works
    <3> QED
      BY <3>2, <3>3
  <2>2. reg[a].owner = a /\ reg[b].owner = b
    BY DEF WorkInv, Works
  <2>3. Fits(reg[a], a) /\ Fits(reg[b], b)
    BY DEF OwnerInv, FitInv
  <2>4. ASSUME a # b
        PROVE  FALSE
    <3>1. CASE Open = {}
      <4>1. /\ Proper(reg[a]) /\ Proper(reg[b])
            /\ \A m \in Landed : plan[m].gen <= reg[a].gen /\ plan[m].gen <= reg[b].gen
        BY <2>2, <2>3, <3>1 DEF Fits
      <4> QED
        BY <2>4, <2>2, <4>1, Highest DEF Proper, OwnerInv
    <3>2. ASSUME NEW m \in Open
          PROVE  FALSE
      <4>1. /\ a \in {plan[m].src, plan[m].dst} /\ b \in {plan[m].src, plan[m].dst}
            /\ plan[m].src # plan[m].dst
        BY <2>2, <2>3, <3>2, Plans DEF Fits
      <4>2. reg[plan[m].dst].owner = plan[m].dst /\ procs[plan[m].src] # {} /\ plan[m].dst \in Nodes
        BY <2>2, <2>4, <4>1
      <4>3. ~Kept(m)
        <5>1. CASE m \in Landed
          BY <5>1 DEF Kept, Landed
        <5>2. CASE m \notin Landed
          <6>1. m \in Begun /\ m \in Migrations /\ plan[m].src # plan[m].dst
            BY <3>2, Plans
          <6>2. Claiming(reg[plan[m].dst], plan[m].dst, m)
            BY <3>2, <4>2, <5>2, <6>1, OwnerIsSource
          <6>3. journal[plan[m].dst][m] = "activating"
            BY <4>2, <5>2, <6>1, <6>2, ClaimIs DEF OwnerInv
          <6> QED
            BY <6>3 DEF Kept
        <5> QED
          BY <5>1, <5>2
      <4> QED
        BY <3>2, <4>2, <4>3, SourceIsQuiet
    <3> QED
      BY <3>1, <3>2
  <2> QED
    BY <2>1, <2>4
<1>2. Spec => []CourseInv /\ []OwnerInv
  BY CourseKept, OwnerKept DEF Sober
<1> QED
  BY <1>1, <1>2, TypeCorrect, WriteAheadKept, WorkKept, PTL

-------------------------------------------------------------------------------
(* The migrations of a task are begun in the order of their numbers, and those
   that moved the task did so in that order. *)

NumberInv ==
    /\ \A m \in Begun, i \in Migrations : i < m => i \in Begun
    /\ \A m \in Open, i \in Begun : i <= m
    /\ \A m, i \in Landed : i <= m => plan[i].gen <= plan[m].gen
    /\ Landed = {} \/ \E m \in Landed : \A i \in Landed : i <= m

(* A step changes the processes of a node, or one record, or begins a migration. *)
StepKind ==
    \/ /\ UNCHANGED <<journal, plan>>
       /\ \/ \A n \in Nodes : procs'[n] \subseteq procs[n]
          \/ \A n \in Nodes : procs[n] \subseteq procs'[n]
    \/ /\ UNCHANGED <<procs, plan>>
       /\ \E n \in Nodes, m \in Migrations : \E w : Writes(n, m, w)
    \/ \E n, d \in Nodes : StartMigration(n, d)

LEMMA StepKinds ==
    ASSUME TypeOK, [Next]_vars
    PROVE  StepKind
<1>1. ASSUME UNCHANGED <<procs, journal, plan>>
      PROVE  StepKind
  BY <1>1 DEF StepKind
<1>2. ASSUME NEW i \in Nodes, NEW x, UNCHANGED <<journal, plan>>,
             procs' = [procs EXCEPT ![i] = x], x \subseteq procs[i] \/ procs[i] \subseteq x
      PROVE  StepKind
  BY <1>2 DEF StepKind, TypeOK
<1>3. ASSUME NEW i \in Nodes, NEW m \in Migrations, NEW w, UNCHANGED <<procs, plan>>,
             Record(i, m, w)
      PROVE  StepKind
  BY <1>3, RecordWrites DEF StepKind
<1> HIDE DEF StepKind
<1>4. \A i \in Nodes : call[i].at # "idle" => call[i].mig \in Migrations
  BY DEF TypeOK
<1>5. ASSUME NEW i \in Nodes, SourceNext(i)
      PROVE  StepKind
  <2>1. CASE PrefetchFailed(i) \/ JournalTransfer(i) \/ RequestActivation(i)
    BY <1>3, <1>4, <2>1 DEF PrefetchFailed, JournalTransfer, RequestActivation, At
  <2>2. CASE AttemptFails(i) \/ ResolveUnknown(i)
    <3>1. /\ UNCHANGED <<procs, plan>> /\ call[i].at # "idle"
          /\ UNCHANGED journal \/ Record(i, call[i].mig, "uncertain")
      <4>1. CASE AttemptFails(i)
        BY <4>1 DEF AttemptFails, At
      <4>2. CASE ResolveUnknown(i)
        BY <4>2 DEF ResolveUnknown
      <4> QED
        BY <2>2, <4>1, <4>2
    <3> QED
      BY <1>1, <1>3, <1>4, <3>1
  <2>3. CASE CommitSource(i) \/ JournalUndo(i)
    BY <1>3, <1>4, <2>3 DEF CommitSource, JournalUndo
  <2> QED
    BY <1>1, <1>5, <2>1, <2>2, <2>3
    DEF SourceNext, PrefetchDone, MarkSource, TransferDone, TransferFailed, ReceiveResponse,
        QueryAnswered, QueryFails, PollAgain, ResolveActivated, ResolveNotCommitted, GiveAway,
        UndoSource, RestoreSource, CancelReservation, records
<1>6. ASSUME NEW i \in Nodes, ProcessNext(i)
      PROVE  StepKind
  <2>1. CASE StopProcess(i)
    <3>1. procs' = procs \/ procs' = [procs EXCEPT ![i] = procs[i] \ {reg[i].pid}]
      BY <2>1 DEF StopProcess
    <3> QED
      BY <1>1, <1>2, <2>1, <3>1 DEF StopProcess, records
  <2>2. CASE Spawn(i)
    <3>1. \E p \in Pids : procs' = [procs EXCEPT ![i] = procs[i] \cup {p}]
      BY <2>2 DEF Spawn
    <3> QED
      BY <1>2, <2>2, <3>1 DEF Spawn, records
  <2> QED
    BY <1>1, <1>6, <2>1, <2>2
    DEF ProcessNext, SpawnNotNeeded, SpawnRefused, SpawnNotReady, MarkRunningAfterSpawn, records
<1>7. ASSUME NEW i \in Nodes, DestinationNext(i)
      PROVE  StepKind
  <2>1. ASSUME NEW m \in Migrations, NEW k \in Attempts,
               AnswerClaimed(i, m, k) \/ AnswerRolledBack(i, m, k) \/ StartActivation(i, m, k)
        PROVE  StepKind
    BY <1>1, <1>3, <2>1 DEF AnswerClaimed, AnswerRolledBack, StartActivation, records
  <2>2. CASE ConfirmActivation(i) \/ JournalAbort(i)
    BY <1>3, <1>4, <2>2 DEF ConfirmActivation, JournalAbort, At
  <2> QED
    BY <1>1, <1>7, <2>1, <2>2
    DEF DestinationNext, BeginActivation, ClaimTask, CheckpointInvalid, ConsumeReservation,
        AbortActivation, RefuseActivation, records
<1>8. ASSUME NEW i \in Nodes, ReconcileNext(i)
      PROVE  StepKind
  BY <1>1, <1>3, <1>8
  DEF ReconcileNext, ListRecords, ReconcileCommitted, ReconcileIncomplete, ReconcileSettled,
      ReconcileSource, records
<1>9. ASSUME NEW i \in Nodes, ServiceNext(i)
      PROVE  StepKind
  <2>1. CASE StarterSpawn(i)
    <3>1. procs' = procs \/ \E p \in Pids : procs' = [procs EXCEPT ![i] = procs[i] \cup {p}]
      BY <2>1 DEF StarterSpawn
    <3> QED
      BY <1>1, <1>2, <2>1, <3>1 DEF StarterSpawn, records
  <2> QED
    BY <1>1, <1>9, <2>1
    DEF ServiceNext, Gossip, ReconcileRuntime, Recover, StarterRunning, StarterNotReady, records
<1>10. ASSUME NEW i \in Nodes, EnvironmentNext(i)
      PROVE  StepKind
  <2>1. CASE ProcessExits(i)
    <3>1. \E p : procs' = [procs EXCEPT ![i] = procs[i] \ {p}]
      BY <2>1 DEF ProcessExits
    <3> QED
      BY <1>2, <2>1, <3>1 DEF ProcessExits, records
  <2>2. CASE ServiceCrash(i)
    BY <1>2, <2>2 DEF ServiceCrash, records
  <2> QED
    BY <1>1, <1>10, <2>1, <2>2 DEF EnvironmentNext, OperatorStart, Crash, records
<1>11. ASSUME NEW i \in Nodes, SchedulerNext(i)
      PROVE  StepKind
  BY <1>11 DEF SchedulerNext, StepKind
<1> QED
  BY <1>1, <1>5, <1>6, <1>7, <1>8, <1>9, <1>10, <1>11 DEF Next, vars, ExpireReservation, records

(* What StartMigration begins. *)
LEMMA StartBegins ==
    ASSUME TypeOK, WriteAheadInv, NEW n \in Nodes, NEW d \in Nodes, StartMigration(n, d)
    PROVE  \E m \in Migrations :
              /\ m \notin Begun
              /\ Begun' = Begun \cup {m}
              /\ \A i \in Migrations : i < m => i \in Begun
              /\ plan' = [plan EXCEPT ![m] = [src |-> n, dst |-> d, gen |-> reg[n].gen + 1]]
              /\ Writes(n, m, "preparing")
              /\ \A i \in Nodes : journal[i][m] = "none"
<1>1. PICK m \in Migrations :
         /\ plan[m] = NoPlan
         /\ \A i \in Migrations : i < m => plan[i] # NoPlan
         /\ plan' = [plan EXCEPT ![m] = [src |-> n, dst |-> d, gen |-> reg[n].gen + 1]]
         /\ Record(n, m, "preparing")
         /\ d # n
  BY DEF StartMigration
<1> DEFINE g == reg[n].gen + 1
           k == [src |-> n, dst |-> d, gen |-> g]
<1>2. plan' = [plan EXCEPT ![m] = k]
  BY <1>1
<1> HIDE DEF g
<1>3. k # NoPlan
  BY <1>1 DEF NoPlan
<1> HIDE DEF k
<1>4. \A i \in Migrations : plan'[i] = IF i = m THEN k ELSE plan[i]
  BY <1>2 DEF TypeOK
<1>5. Begun' = Begun \cup {m}
  BY <1>1, <1>3, <1>4 DEF Begun
<1>6. \A i \in Nodes : journal[i][m] = "none"
  BY <1>1 DEF WriteAheadInv, PlanInv
<1> QED
  BY <1>1, <1>5, <1>6, RecordWrites DEF Begun

(* A migration lands only while its source has not decided, and for good. *)
LEMMA LandingStep ==
    ASSUME TypeOK, WriteAheadInv, CourseInv, OwnerInv, TypeOK', WriteAheadInv', OwnerInv',
           [Next]_vars
    PROVE  /\ Landed \subseteq Landed'
           /\ Landed' \ Landed \subseteq Open
           /\ Open' \cap Begun \subseteq Open
<1>1. ASSUME NEW m \in Begun
      PROVE  /\ m \in Begun' /\ plan'[m] = plan[m] /\ m \in Migrations
             /\ plan[m].src \in Nodes /\ plan[m].dst \in Nodes
             /\ \A n \in Nodes : journal[n][m] \in Terminal => journal'[n][m] = journal[n][m]
  BY PlansStay, RecordsStay DEF Begun, TypeOK, Plan
<1>2. Landed \subseteq Landed'
  <2> SUFFICES ASSUME NEW m \in Landed PROVE m \in Landed'
    OBVIOUS
  <2>1. m \in Begun /\ journal[plan[m].dst][m] = "activated"
    BY DEF Landed
  <2>2. m \in Begun' /\ journal'[plan'[m].dst][m] = "activated"
    BY <1>1, <2>1 DEF Terminal
  <2> QED
    BY <2>2 DEF Landed
<1>3. Open' \cap Begun \subseteq Open
  <2> SUFFICES ASSUME NEW m \in Begun, m \in Open' PROVE m \in Open
    OBVIOUS
  <2>1. journal'[plan'[m].src][m] \notin Terminal
    BY DEF Open
  <2> QED
    BY <1>1, <2>1 DEF Open
<1>4. ASSUME NEW m \in Landed', m \notin Begun
      PROVE  FALSE
  <2>1. PICK n \in Nodes, d \in Nodes : StartMigration(n, d)
    <3>1. plan' # plan
      BY <1>4 DEF Landed, Begun
    <3> QED
      BY <3>1, StepKinds DEF StepKind
  <2>2. PICK j \in Migrations :
           /\ Begun' = Begun \cup {j}
           /\ Writes(n, j, "preparing")
           /\ \A i \in Nodes : journal[i][j] = "none"
    BY <2>1, StartBegins
  <2>3. m \in Begun' /\ plan'[m].dst \in Nodes /\ m \in Migrations
    BY DEF Landed, Begun, TypeOK, Plan
  <2>4. m = j
    BY <1>4, <2>2, <2>3
  <2>5. journal'[plan'[m].dst][m] \in {"preparing", "none"}
    BY <2>2, <2>3, <2>4 DEF Writes
  <2> QED
    BY <2>5 DEF Landed
<1>5. ASSUME NEW m \in Landed', m \notin Landed
      PROVE  m \in Open
  <2>1. m \in Begun /\ m \in Begun'
    BY <1>1, <1>4, <1>5
  <2>2. journal[plan[m].src][m] # "activated"
    BY <1>5, <2>1 DEF OwnerInv, VerdictInv
  <2>3. journal[plan[m].src][m] # "rolled_back"
    <3> SUFFICES ASSUME journal[plan[m].src][m] = "rolled_back" PROVE FALSE
      OBVIOUS
    <3>1. journal'[plan'[m].src][m] = "rolled_back"
      BY <1>1, <2>1 DEF Terminal
    <3>2. Kept(m)'
      BY <2>1, <3>1 DEF OwnerInv, VerdictInv
    <3> QED
      BY <1>5, <3>2 DEF Kept, Landed
  <2> QED
    BY <2>1, <2>2, <2>3 DEF Open, Terminal
<1> QED
  BY <1>2, <1>3, <1>5

LEMMA NumberStep ==
    ASSUME TypeOK, WriteAheadInv, CourseInv, OwnerInv, TypeOK', WriteAheadInv', OwnerInv',
           NumberInv, [Next]_vars
    PROVE  NumberInv'
<1>1. /\ Landed \subseteq Landed' /\ Landed' \ Landed \subseteq Open
      /\ Open' \cap Begun \subseteq Open
      /\ Open \subseteq Begun /\ Landed \subseteq Begun /\ Begun \subseteq Migrations
      /\ Landed' \subseteq Begun' /\ Open' \subseteq Begun' /\ Begun' \subseteq Migrations
  BY LandingStep DEF Open, Landed, Begun
<1>2. Migrations \subseteq Nat
  BY ConstantsAssumption
<1>3. \A m \in Begun : plan'[m] = plan[m] /\ m \in Begun'
  BY PlansStay
<1>4. \/ Begun' = Begun
      \/ \E m \in Migrations : /\ m \notin Begun
                               /\ Begun' = Begun \cup {m}
                               /\ \A i \in Migrations : i < m => i \in Begun
                               /\ m \in Open'
  <2>1. CASE UNCHANGED plan
    BY <2>1 DEF Begun
  <2>2. ASSUME NEW n \in Nodes, NEW d \in Nodes, StartMigration(n, d)
        PROVE  \E m \in Migrations : /\ m \notin Begun
                                     /\ Begun' = Begun \cup {m}
                                     /\ \A i \in Migrations : i < m => i \in Begun
                                     /\ m \in Open'
    <3>1. PICK m \in Migrations :
              /\ m \notin Begun
              /\ Begun' = Begun \cup {m}
              /\ \A i \in Migrations : i < m => i \in Begun
              /\ Writes(n, m, "preparing")
              /\ \A i \in Nodes : journal[i][m] = "none"
      BY <2>2, StartBegins
    <3>2. plan'[m].src \in Nodes
      BY DEF TypeOK, Plan
    <3>3. journal'[plan'[m].src][m] \in {"preparing", "none"}
      BY <3>1, <3>2 DEF Writes
    <3> QED
      BY <3>1, <3>3 DEF Open, Terminal
  <2> QED
    BY <2>1, <2>2, StepKinds DEF StepKind
<1>5. \A m \in Begun', i \in Migrations : i < m => i \in Begun'
  BY <1>1, <1>3, <1>4 DEF NumberInv
<1>6. \A m \in Open', i \in Begun' : i <= m
  <2>1. CASE Begun' = Begun
    BY <1>1, <2>1 DEF NumberInv
  <2>2. ASSUME NEW j \in Migrations, j \notin Begun, Begun' = Begun \cup {j},
               j \in Open'
        PROVE  \A m \in Open', i \in Begun' : i <= m
    <3>1. \A m \in Open' : m = j
      BY <2>2 DEF OwnerInv, OrderInv
    <3>2. \A i \in Begun : ~(j < i)
      BY <2>2 DEF NumberInv
    <3> QED
      BY <1>1, <1>2, <2>2, <3>1, <3>2
  <2> QED
    BY <1>4, <2>1, <2>2
<1>7. \A m \in Landed' \ Landed : \A i \in Begun : i <= m /\ plan[i].gen <= plan[m].gen
  BY <1>1 DEF NumberInv, OwnerInv, OrderInv
<1>8. Landed' \subseteq Begun
  BY <1>1
<1>9. \A m, i \in Landed' : i <= m => plan'[i].gen <= plan'[m].gen
  <2> SUFFICES ASSUME NEW m \in Landed', NEW i \in Landed', i <= m
               PROVE  plan[i].gen <= plan[m].gen
    BY <1>3, <1>8
  <2>1. CASE m \notin Landed
    BY <1>7, <1>8, <2>1
  <2>2. CASE m \in Landed /\ i \in Landed
    BY <2>2 DEF NumberInv
  <2>3. CASE m \in Landed /\ i \notin Landed
    <3>1. m <= i
      BY <1>7, <1>8, <2>3
    <3>2. m = i
      BY <1>1, <1>2, <3>1
    <3> QED
      BY <2>3, <3>2
  <2> QED
    BY <2>1, <2>2, <2>3
<1>10. Landed' = {} \/ \E m \in Landed' : \A i \in Landed' : i <= m
  <2>1. CASE Landed' = Landed
    BY <2>1 DEF NumberInv
  <2>2. CASE Landed' # Landed
    <3>1. PICK m \in Landed' : m \notin Landed
      BY <1>1, <2>2
    <3> QED
      BY <1>7, <1>8, <3>1
  <2> QED
    BY <2>1, <2>2
<1> QED
  BY <1>5, <1>6, <1>9, <1>10 DEF NumberInv

LEMMA NumberKept ==
    ASSUME Orderly
    PROVE  Spec => []NumberInv
<1>1. Init => NumberInv
  <2> SUFFICES ASSUME Init PROVE NumberInv
    OBVIOUS
  <2>1. plan = [m \in Migrations |-> NoPlan]
    BY DEF Init
  <2>2. Begun = {} /\ Landed = {} /\ Open = {}
    BY <2>1 DEF Begun, Landed, Open
  <2> QED
    BY <2>2 DEF NumberInv
<1>2. /\ TypeOK /\ WriteAheadInv /\ CourseInv /\ OwnerInv /\ TypeOK' /\ WriteAheadInv' /\ OwnerInv'
      /\ NumberInv /\ [Next]_vars
      => NumberInv'
  BY NumberStep
<1> QED
  BY <1>1, <1>2, TypeCorrect, WriteAheadKept, CourseKept, OwnerKept, PTL DEF Spec

-------------------------------------------------------------------------------
(* What the abstract specification sees of a state. *)

(* The migrations one end of which has rolled back. *)
Undone == {m \in Begun : "rolled_back" \in {journal[plan[m].src][m], journal[plan[m].dst][m]}}

OutcomeIs(m) == IF m \notin Begun THEN "none"
                ELSE IF m \in Landed THEN "moved"
                ELSE IF m \in Undone THEN "stayed" ELSE "open"

MayBeAt(n) == n = PlaceOf \/ \E m \in Open \ Undone : plan[m].dst = n

(* The records of a migration agree; the task's place is where the last migration
   that moved it took it, or where an open one starts; it is executed there or at
   the destination of an undecided migration, and at one end once the other may
   not have it. *)
ViewInv ==
    /\ \A m \in Migrations : OutcomeOf(m) = OutcomeIs(m)
    /\ Landed = {} => PlaceOf = Home
    /\ \A m \in Landed : (\A i \in Landed : i <= m) => PlaceOf = plan[m].dst
    /\ \A m \in Open \ Landed : PlaceOf = plan[m].src
    /\ \A n \in Nodes : reg[n].owner = n /\ Open = {} => PlaceOf = n
    /\ \A n \in Nodes : procs[n] # {} => MayBeAt(n)
    /\ \A m \in Open : ~Kept(m) => procs[plan[m].src] = {}
    /\ \A m \in Open \ Landed : Kept(m) => procs[plan[m].dst] = {}

LEMMA OutcomesAre ==
    ASSUME TypeOK, WriteAheadInv, OwnerInv, NEW m \in Migrations
    PROVE  OutcomeOf(m) = OutcomeIs(m)
<1> DEFINE s == journal[plan[m].src][m]
           d == journal[plan[m].dst][m]
<1>1. s \in JournalStatus /\ d \in JournalStatus
  BY DEF TypeOK, Plan
<1>2. CASE m \notin Begun
  <2>1. plan[m] = NoPlan
    BY <1>2 DEF Begun
  <2> QED
    BY <1>2, <2>1 DEF OutcomeOf, OutcomeIs
<1>3. CASE m \in Begun
  <2>1. /\ plan[m] # NoPlan
        /\ s = "rolled_back" => d \in {"none", "rolled_back"}
        /\ s = "activated" => m \in Landed
        /\ m \in Landed <=> d = "activated"
        /\ m \in Undone <=> "rolled_back" \in {s, d}
    BY <1>3 DEF OwnerInv, VerdictInv, Kept, Landed, Begun, Undone
  <2>2. CASE m \in Landed
    BY <1>3, <2>1, <2>2 DEF OutcomeOf, OutcomeIs, Terminal
  <2>3. CASE m \notin Landed /\ m \in Undone
    BY <1>3, <2>1, <2>3 DEF OutcomeOf, OutcomeIs, Terminal
  <2>4. CASE m \notin Landed /\ m \notin Undone
    BY <1>3, <2>1, <2>4 DEF OutcomeOf, OutcomeIs, Terminal
  <2> QED
    BY <2>2, <2>3, <2>4
<1> QED
  BY <1>2, <1>3

LEMMA PlaceIs ==
    ASSUME TypeOK, WriteAheadInv, OwnerInv
    PROVE  /\ Landed = {} => PlaceOf = Home
           /\ \A m \in Landed : (\A i \in Landed : i <= m) => PlaceOf = plan[m].dst
<1>1. Moved = Landed
  <2>1. \A m \in Migrations : OutcomeOf(m) = "moved" <=> m \in Landed
    BY OutcomesAre DEF OutcomeIs, Landed
  <2>2. Landed \subseteq Migrations
    BY Plans
  <2> QED
    BY <2>1, <2>2 DEF Moved
<1>2. Landed = {} => PlaceOf = Home
  BY <1>1 DEF PlaceOf
<1>3. ASSUME NEW m \in Landed, \A i \in Landed : i <= m
      PROVE  PlaceOf = plan[m].dst
  <2> DEFINE k == CHOOSE j \in Landed : \A i \in Landed : i <= j
  <2>1. k \in Landed /\ \A i \in Landed : i <= k
    BY <1>3
  <2> HIDE DEF k
  <2>2. m \in Nat /\ k \in Nat
    BY <1>3, <2>1, Plans, ConstantsAssumption
  <2>3. k = m
    BY <1>3, <2>1, <2>2
  <2>4. PlaceOf = plan[k].dst
    BY <1>1, <1>3 DEF PlaceOf, k
  <2> QED
    BY <2>3, <2>4
<1> QED
  BY <1>2, <1>3

(* The place holds the task by the highest generation. *)
LEMMA PlaceHolds ==
    ASSUME TypeOK, WriteAheadInv, OwnerInv, NumberInv
    PROVE  \E g : Held(PlaceOf, g) /\ \A i \in Landed : plan[i].gen <= g
<1>1. CASE Landed = {}
  <2>1. Held(PlaceOf, 0)
    BY <1>1, PlaceIs DEF Held
  <2> QED
    BY <1>1, <2>1
<1>2. CASE Landed # {}
  <2>1. PICK m \in Landed : \A i \in Landed : i <= m
    BY <1>2 DEF NumberInv
  <2>2. PlaceOf = plan[m].dst
    BY <2>1, PlaceIs
  <2>3. Held(PlaceOf, plan[m].gen)
    BY <2>2 DEF Held
  <2> QED
    BY <2>1, <2>3 DEF NumberInv
<1> QED
  BY <1>1, <1>2

LEMMA PlaceOwns ==
    ASSUME TypeOK, WriteAheadInv, OwnerInv, NumberInv
    PROVE  /\ \A m \in Open \ Landed : PlaceOf = plan[m].src
           /\ \A n \in Nodes : reg[n].owner = n /\ Open = {} => PlaceOf = n
<1>1. PICK g : Held(PlaceOf, g) /\ \A i \in Landed : plan[i].gen <= g
  BY PlaceHolds
<1>2. ASSUME NEW o, NEW h, Held(o, h), \A i \in Landed : plan[i].gen <= h
      PROVE  PlaceOf = o
  BY <1>1, <1>2, Highest DEF OwnerInv
<1>3. ASSUME NEW m \in Open \ Landed
      PROVE  PlaceOf = plan[m].src
  <2>1. /\ m \in Begun /\ plan[m].gen > 0 /\ Held(plan[m].src, plan[m].gen - 1)
        /\ \A i \in Landed : plan[i].gen < plan[m].gen
    BY <1>3, Plans DEF OwnerInv, OrderInv
  <2>2. \A i \in Landed : plan[i].gen \in Nat
    BY Plans
  <2>3. \A i \in Landed : plan[i].gen <= plan[m].gen - 1
    BY <1>3, <2>1, <2>2, Plans
  <2> QED
    BY <1>2, <2>1, <2>3
<1>4. ASSUME NEW n \in Nodes, reg[n].owner = n, Open = {}
      PROVE  PlaceOf = n
  <2>1. Fits(reg[n], n)
    BY DEF OwnerInv, FitInv
  <2>2. Proper(reg[n]) /\ \A i \in Landed : plan[i].gen <= reg[n].gen
    BY <1>4, <2>1 DEF Fits
  <2> QED
    BY <1>2, <1>4, <2>2 DEF Proper
<1> QED
  BY <1>3, <1>4

LEMMA ViewHolds ==
    ASSUME TypeOK, WriteAheadInv, CourseInv, OwnerInv, WorkInv, NumberInv
    PROVE  ViewInv
<1>1. \A m \in Open : ~Kept(m) => procs[plan[m].src] = {}
  BY SourceIsQuiet
<1>2. ASSUME NEW m \in Open \ Landed, NEW n \in Nodes, procs[n] # {}
      PROVE  n = plan[m].src \/ (n = plan[m].dst /\ journal[n][m] = "activating")
  <2>1. reg[n].owner = n
    BY <1>2 DEF WorkInv, Works
  <2>2. CASE Claiming(reg[n], n, m)
    <3>1. n = plan[m].dst /\ m \in Migrations
      BY <2>2, Plans DEF Claiming
    <3> QED
      BY <2>2, <3>1, ClaimIs DEF OwnerInv
  <2>3. CASE ~Claiming(reg[n], n, m)
    BY <2>1, <2>3, OwnerIsSource
  <2> QED
    BY <2>2, <2>3
<1>3. ASSUME NEW m \in Open \ Landed, Kept(m)
      PROVE  procs[plan[m].dst] = {}
  <2>1. plan[m].dst \in Nodes /\ plan[m].dst # plan[m].src
    BY Plans
  <2> QED
    BY <1>2, <1>3, <2>1 DEF Kept
<1>4. ASSUME NEW n \in Nodes, procs[n] # {}
      PROVE  MayBeAt(n)
  <2>1. reg[n].owner = n
    BY <1>4 DEF WorkInv, Works
  <2>2. CASE Open = {}
    BY <2>1, <2>2, PlaceOwns DEF MayBeAt
  <2>3. ASSUME NEW m \in Open \ Landed
        PROVE  MayBeAt(n)
    <3>1. CASE n = plan[m].src
      BY <3>1, PlaceOwns DEF MayBeAt
    <3>2. CASE n = plan[m].dst /\ journal[n][m] = "activating"
      <4>1. m \notin Undone
        BY <3>2 DEF Undone, Open, Terminal
      <4> QED
        BY <3>2, <4>1 DEF MayBeAt
    <3> QED
      BY <1>2, <1>4, <3>1, <3>2
  <2>4. ASSUME NEW m \in Open, m \in Landed
        PROVE  MayBeAt(n)
    <3>1. procs[plan[m].src] = {}
      BY <1>1, <2>4 DEF Kept, Landed
    <3>2. n \in {plan[m].src, plan[m].dst}
      BY <2>1 DEF OwnerInv, FitInv, Fits
    <3>3. \A i \in Landed : i <= m
      BY Plans DEF NumberInv
    <3>4. PlaceOf = plan[m].dst
      BY <2>4, <3>3, PlaceIs
    <3> QED
      BY <1>4, <3>1, <3>2, <3>4 DEF MayBeAt
  <2> QED
    BY <2>2, <2>3, <2>4
<1> QED
  BY <1>1, <1>3, <1>4, OutcomesAre, PlaceIs, PlaceOwns DEF ViewInv

-------------------------------------------------------------------------------
(* The steps of Migration as steps of the abstract specification. *)

Workers == UNION {{n} \X procs[n] : n \in Nodes}
Outcomes == [m \in Migrations |-> OutcomeOf(m)]
Froms == [m \in Migrations |-> plan[m].src]
Tos == [m \in Migrations |-> plan[m].dst]

LEMMA WorkersAre ==
    /\ \A w : w \in Workers <=> \E n \in Nodes : \E p \in procs[n] : w = <<n, p>>
    /\ \A w : w \in Workers' <=> \E n \in Nodes : \E p \in procs'[n] : w = <<n, p>>
    /\ UNCHANGED procs => Workers' = Workers
  BY DEF Workers

LEMMA OnlyWorker ==
    ASSUME NoDuplicateExecution, NoDuplicateExecution'
    PROVE  /\ \A v, w \in Workers : v = w
           /\ \A v, w \in Workers' : v = w
<1>1. \A v, w \in Workers : v = w
  BY WorkersAre DEF NoDuplicateExecution
<1>2. \A v, w \in Workers' : v = w
  BY WorkersAre DEF NoDuplicateExecution
<1> QED
  BY <1>1, <1>2

(* Whoever works may. *)
LEMMA WorkersMay ==
    ASSUME ViewInv, NEW w \in Workers
    PROVE  w[1] \in Nodes /\ MayBeAt(w[1]) /\ procs[w[1]] # {}
<1>1. PICK n \in Nodes : \E p \in procs[n] : w = <<n, p>>
  BY WorkersAre
<1> QED
  BY <1>1 DEF ViewInv

LEMMA PlaceStays ==
    ASSUME NumberInv, ViewInv, ViewInv', Landed' = Landed,
           \A m \in Landed : plan'[m] = plan[m]
    PROVE  PlaceOf' = PlaceOf
<1>1. CASE Landed = {}
  BY <1>1 DEF ViewInv
<1>2. CASE Landed # {}
  <2>1. PICK m \in Landed : \A i \in Landed : i <= m
    BY <1>2 DEF NumberInv
  <2>2. PlaceOf = plan[m].dst
    BY <2>1 DEF ViewInv
  <2>3. PlaceOf' = plan'[m].dst
    BY <2>1 DEF ViewInv
  <2> QED
    BY <2>1, <2>2, <2>3
<1> QED
  BY <1>1, <1>2

(* Where the records of a migration stay, its outcome does. *)
LEMMA OutcomeStays ==
    ASSUME TypeOK, WriteAheadInv, ViewInv, ViewInv', NEW m \in Migrations,
           plan'[m] = plan[m],
           journal'[plan[m].src][m] = journal[plan[m].src][m],
           journal'[plan[m].dst][m] = journal[plan[m].dst][m]
    PROVE  /\ OutcomeOf(m)' = OutcomeOf(m)
           /\ m \in Begun' <=> m \in Begun
           /\ m \in Landed' <=> m \in Landed
           /\ m \in Undone' <=> m \in Undone
<1>1. m \in Begun' <=> m \in Begun
  BY DEF Begun
<1>2. m \in Landed' <=> m \in Landed
  BY <1>1 DEF Landed
<1>3. m \in Undone' <=> m \in Undone
  BY <1>1 DEF Undone
<1>4. OutcomeIs(m)' = OutcomeIs(m)
  BY <1>1, <1>2, <1>3 DEF OutcomeIs
<1> QED
  BY <1>1, <1>2, <1>3, <1>4 DEF ViewInv

(* Processes start, stop, end or die. *)
LEMMA ProcessesStep ==
    ASSUME TypeOK, WriteAheadInv, ViewInv, ViewInv', NumberInv,
           NoDuplicateExecution, NoDuplicateExecution',
           UNCHANGED <<journal, plan>>,
           \/ \A n \in Nodes : procs'[n] \subseteq procs[n]
           \/ \A n \in Nodes : procs[n] \subseteq procs'[n],
           TypeOK'
    PROVE  /\ UNCHANGED <<PlaceOf, Outcomes, Froms, Tos>>
           /\ \/ UNCHANGED Workers
              \/ Workers # {} /\ Workers' = {}
              \/ /\ Workers = {}
                 /\ \E n \in Nodes, p \in Pids : MayBeAt(n) /\ Workers' = {<<n, p>>}
<1>1. \A m \in Migrations : /\ OutcomeOf(m)' = OutcomeOf(m)
                            /\ m \in Begun' <=> m \in Begun
                            /\ m \in Landed' <=> m \in Landed
                            /\ m \in Undone' <=> m \in Undone
  BY OutcomeStays
<1>2. Landed' = Landed /\ Undone' = Undone /\ Open' = Open
  BY DEF Landed, Undone, Open, Begun
<1>3. PlaceOf' = PlaceOf
  BY <1>2, PlaceStays
<1>4. UNCHANGED <<Outcomes, Froms, Tos>>
  BY <1>1 DEF Outcomes, Froms, Tos
<1>5. \A v, w \in Workers : v = w
  BY OnlyWorker
<1>6. \A v, w \in Workers' : v = w
  BY OnlyWorker
<1>7. CASE \A n \in Nodes : procs'[n] \subseteq procs[n]
  <2>1. Workers' \subseteq Workers
    BY <1>7, WorkersAre
  <2>2. UNCHANGED Workers \/ (Workers # {} /\ Workers' = {})
    BY <1>5, <2>1
  <2> QED
    BY <1>3, <1>4, <2>2
<1>8. CASE \A n \in Nodes : procs[n] \subseteq procs'[n]
  <2>1. Workers \subseteq Workers'
    BY <1>8, WorkersAre
  <2>2. CASE Workers' = Workers
    BY <1>3, <1>4, <2>2
  <2>3. CASE Workers' # Workers
    <3>1. PICK w \in Workers' : w \notin Workers
      BY <2>1, <2>3
    <3>2. Workers = {} /\ Workers' = {w}
      BY <1>6, <2>1, <3>1
    <3>3. PICK n \in Nodes : \E p \in procs'[n] : w = <<n, p>>
      BY <3>1, WorkersAre
    <3>4. PICK p \in Pids : p \in procs'[n] /\ w = <<n, p>>
      BY <3>3 DEF TypeOK
    <3>5. MayBeAt(n)'
      BY <3>4 DEF ViewInv
    <3>6. MayBeAt(n)
      BY <1>2, <1>3, <3>5 DEF MayBeAt
    <3> QED
      BY <1>3, <1>4, <3>2, <3>4, <3>6
  <2> QED
    BY <2>2, <2>3
<1> QED
  BY <1>7, <1>8

(* While a migration is undecided the task is at one of its ends. *)
LEMMA WorkersAtEnds ==
    ASSUME TypeOK, WriteAheadInv, OwnerInv, ViewInv, NEW m \in Open \ Landed
    PROVE  /\ procs[plan[m].src] = {} => Workers \subseteq {plan[m].dst} \X Pids
           /\ procs[plan[m].dst] = {} => Workers \subseteq {plan[m].src} \X Pids
<1> SUFFICES ASSUME NEW w \in Workers
             PROVE  /\ procs[plan[m].src] = {} => w \in {plan[m].dst} \X Pids
                    /\ procs[plan[m].dst] = {} => w \in {plan[m].src} \X Pids
  OBVIOUS
<1>1. PICK n \in Nodes : \E p \in procs[n] : w = <<n, p>>
  BY WorkersAre
<1>2. PICK p \in Pids : p \in procs[n] /\ w = <<n, p>>
  BY <1>1 DEF TypeOK
<1>3. MayBeAt(n) /\ PlaceOf = plan[m].src
  BY <1>2 DEF ViewInv
<1>4. n \in {plan[m].src, plan[m].dst}
  BY <1>3 DEF MayBeAt, OwnerInv, OrderInv
<1> QED
  BY <1>2, <1>4

(* What a record that is written does to the outcome of its migration. *)
LEMMA RecordDecides ==
    ASSUME TypeOK, WriteAheadInv, OwnerInv, ViewInv, ViewInv', OwnerInv', NumberInv,
           NEW n \in Nodes, NEW m \in Begun, NEW w, Writes(n, m, w),
           UNCHANGED <<procs, plan>>,
           \A i \in Nodes : journal[i][m] \in Terminal => journal'[i][m] = journal[i][m],
           \A i \in Migrations \ {m} : i \in Landed' <=> i \in Landed
    PROVE  \/ OutcomeOf(m)' = OutcomeOf(m) /\ Landed' = Landed
           \/ /\ OutcomeOf(m) = "open" /\ OutcomeOf(m)' = "moved"
              /\ Workers \subseteq {plan[m].dst} \X Pids
              /\ PlaceOf' = plan[m].dst
           \/ /\ OutcomeOf(m) = "open" /\ OutcomeOf(m)' = "stayed"
              /\ Workers \subseteq {plan[m].src} \X Pids
              /\ Landed' = Landed
<1> DEFINE s == plan[m].src
           d == plan[m].dst
<1>1. m \in Migrations /\ s \in Nodes /\ d \in Nodes /\ s # d
  BY Plans
<1>2. /\ OutcomeOf(m) = OutcomeIs(m) /\ OutcomeOf(m)' = OutcomeIs(m)'
      /\ m \in Begun' /\ Begun' = Begun /\ Landed' \subseteq Begun' /\ Landed \subseteq Begun
      /\ Begun \subseteq Migrations
  BY <1>1 DEF ViewInv, Begun, Landed
<1>3. /\ m \in Landed <=> journal[d][m] = "activated"
      /\ m \in Landed' <=> journal'[d][m] = "activated"
      /\ m \in Undone <=> "rolled_back" \in {journal[s][m], journal[d][m]}
      /\ m \in Undone' <=> "rolled_back" \in {journal'[s][m], journal'[d][m]}
  BY <1>2 DEF Landed, Undone
<1>4. /\ journal[d][m] \in Terminal => journal'[d][m] = journal[d][m]
      /\ journal[s][m] \in Terminal => journal'[s][m] = journal[s][m]
      /\ journal'[d][m] = journal[d][m] \/ journal'[s][m] = journal[s][m]
  BY <1>1 DEF Writes
<1>5. /\ journal[s][m] = "rolled_back" => Kept(m)
      /\ journal[s][m] = "activated" => m \in Landed
      /\ journal'[s][m] = "rolled_back" => journal'[d][m] \in {"none", "rolled_back"}
  BY <1>2 DEF OwnerInv, VerdictInv, Kept
<1>6. ASSUME m \in Landed' <=> m \in Landed
      PROVE  Landed' = Landed
  <2>1. \A i : i \in Landed' <=> i \in Landed
    BY <1>2, <1>6
  <2> QED
    BY <2>1
<1>7. CASE m \in Landed
  <2>1. m \in Landed'
    BY <1>3, <1>4, <1>7 DEF Terminal
  <2>2. OutcomeIs(m) = "moved" /\ OutcomeIs(m)' = "moved"
    BY <1>2, <1>7, <2>1 DEF OutcomeIs
  <2> QED
    BY <1>2, <1>6, <1>7, <2>1, <2>2
<1>8. CASE m \notin Landed /\ m \in Undone
  <2>1. m \in Undone' /\ m \notin Landed'
    BY <1>3, <1>4, <1>5, <1>8 DEF Terminal
  <2> QED
    BY <1>2, <1>6, <1>8, <2>1 DEF OutcomeIs
<1>9. CASE m \notin Landed /\ m \notin Undone
  <2>1. m \in Open
    BY <1>3, <1>5, <1>9 DEF Open, Terminal
  <2>2. OutcomeOf(m) = "open"
    BY <1>2, <1>9 DEF OutcomeIs
  <2>3. CASE m \in Landed'
    <3>1. journal'[d][m] = "activated" /\ journal'[s][m] = journal[s][m]
      BY <1>3, <1>4, <1>9, <2>3
    <3>2. m \in Open' /\ ~Kept(m)'
      BY <1>2, <2>1, <3>1 DEF Open, Kept
    <3>3. procs[s] = {}
      BY <3>2 DEF ViewInv
    <3>4. \A i \in Landed' : i <= m
      BY <1>2, <2>1 DEF NumberInv
    <3>5. PlaceOf' = d
      BY <2>3, <3>4 DEF ViewInv
    <3> QED
      BY <1>2, <1>9, <2>1, <2>2, <2>3, <3>3, <3>5, WorkersAtEnds DEF OutcomeIs
  <2>4. CASE m \notin Landed' /\ m \in Undone'
    <3>1. procs[d] = {}
      <4>1. CASE journal'[s][m] = journal[s][m]
        <5>1. journal'[d][m] = "rolled_back"
          BY <1>3, <1>9, <2>4, <4>1
        <5>2. m \in Open' /\ Kept(m)'
          BY <1>2, <2>1, <4>1, <5>1 DEF Open, Kept
        <5> QED
          BY <2>4, <5>2 DEF ViewInv
      <4>2. CASE journal'[d][m] = journal[d][m]
        <5>1. journal'[s][m] = "rolled_back"
          BY <1>3, <1>9, <2>4, <4>2
        <5>2. Kept(m)
          BY <1>5, <4>2, <5>1 DEF Kept
        <5> QED
          BY <1>9, <2>1, <5>2 DEF ViewInv
      <4> QED
        BY <1>4, <4>1, <4>2
    <3> QED
      BY <1>2, <1>6, <1>9, <2>1, <2>2, <2>4, <3>1, WorkersAtEnds DEF OutcomeIs
  <2>5. CASE m \notin Landed' /\ m \notin Undone'
    BY <1>2, <1>6, <1>9, <2>5 DEF OutcomeIs
  <2> QED
    BY <2>3, <2>4, <2>5
<1> QED
  BY <1>7, <1>8, <1>9

LEMMA RecordWritten ==
    ASSUME TypeOK, WriteAheadInv, OwnerInv, ViewInv, ViewInv', OwnerInv', NumberInv,
           NEW n \in Nodes, NEW m \in Migrations, NEW w, Writes(n, m, w),
           UNCHANGED <<procs, plan>>,
           \A k \in Begun, i \in Nodes : journal[i][k] \in Terminal => journal'[i][k] = journal[i][k]
    PROVE  /\ UNCHANGED <<Workers, Froms, Tos>>
           /\ \/ UNCHANGED <<PlaceOf, Outcomes>>
              \/ /\ OutcomeOf(m) = "open" /\ Outcomes' = [Outcomes EXCEPT ![m] = "moved"]
                 /\ Workers \subseteq {plan[m].dst} \X Pids
                 /\ PlaceOf' = plan[m].dst
              \/ /\ OutcomeOf(m) = "open" /\ Outcomes' = [Outcomes EXCEPT ![m] = "stayed"]
                 /\ Workers \subseteq {plan[m].src} \X Pids
                 /\ PlaceOf' = PlaceOf
<1>1. UNCHANGED <<Workers, Froms, Tos>>
  BY WorkersAre DEF Froms, Tos
<1>2. \A i \in Migrations \ {m} : OutcomeOf(i)' = OutcomeOf(i) /\ (i \in Landed' <=> i \in Landed)
  <2> SUFFICES ASSUME NEW i \in Migrations \ {m}
               PROVE  OutcomeOf(i)' = OutcomeOf(i) /\ (i \in Landed' <=> i \in Landed)
    OBVIOUS
  <2>1. plan[i].src \in Nodes /\ plan[i].dst \in Nodes
    BY Plans
  <2>2. /\ journal'[plan[i].src][i] = journal[plan[i].src][i]
        /\ journal'[plan[i].dst][i] = journal[plan[i].dst][i]
    BY <2>1 DEF Writes
  <2> QED
    BY <2>2, OutcomeStays
<1>3. Landed' = Landed => PlaceOf' = PlaceOf
  BY PlaceStays
<1>4. \A o : OutcomeOf(m)' = o => Outcomes' = [Outcomes EXCEPT ![m] = o]
  BY <1>2 DEF Outcomes
<1>5. OutcomeOf(m)' = OutcomeOf(m) => Outcomes' = Outcomes
  BY <1>2 DEF Outcomes
<1>6. CASE m \in Begun
  <2>1. \/ OutcomeOf(m)' = OutcomeOf(m) /\ Landed' = Landed
        \/ /\ OutcomeOf(m) = "open" /\ OutcomeOf(m)' = "moved"
           /\ Workers \subseteq {plan[m].dst} \X Pids
           /\ PlaceOf' = plan[m].dst
        \/ /\ OutcomeOf(m) = "open" /\ OutcomeOf(m)' = "stayed"
           /\ Workers \subseteq {plan[m].src} \X Pids
           /\ Landed' = Landed
    BY <1>2, <1>6, RecordDecides
  <2> QED
    BY <1>1, <1>3, <1>4, <1>5, <2>1
<1>7. CASE m \notin Begun
  <2>1. m \notin Begun' /\ Begun' = Begun
    BY <1>7 DEF Begun
  <2>2. OutcomeOf(m)' = "none" /\ OutcomeOf(m) = "none"
    BY <1>7, <2>1 DEF ViewInv, OutcomeIs
  <2>3. Landed' \subseteq Migrations \ {m} /\ Landed \subseteq Migrations \ {m}
    BY <1>7, <2>1 DEF Landed, Begun
  <2>4. Landed' = Landed
    BY <1>2, <2>3
  <2> QED
    BY <1>1, <1>3, <1>5, <2>2, <2>4
<1> QED
  BY <1>6, <1>7

(* A migration begins, from the task's place. *)
LEMMA MigrationBegins ==
    ASSUME Orderly, TypeOK, WriteAheadInv, OwnerInv, ViewInv, NumberInv, [Next]_vars,
           TypeOK', WriteAheadInv', ViewInv',
           NEW n \in Nodes, NEW d \in Nodes, StartMigration(n, d)
    PROVE  \E m \in Migrations :
              /\ d # PlaceOf /\ OutcomeOf(m) = "none"
              /\ \A i \in Migrations : OutcomeOf(i) # "open"
              /\ Outcomes' = [Outcomes EXCEPT ![m] = "open"]
              /\ Froms' = [Froms EXCEPT ![m] = PlaceOf]
              /\ Tos' = [Tos EXCEPT ![m] = d]
              /\ UNCHANGED <<PlaceOf, Workers>>
<1>1. PICK m \in Migrations :
         /\ m \notin Begun
         /\ Begun' = Begun \cup {m}
         /\ plan' = [plan EXCEPT ![m] = [src |-> n, dst |-> d, gen |-> reg[n].gen + 1]]
         /\ Writes(n, m, "preparing")
         /\ \A i \in Nodes : journal[i][m] = "none"
  BY StartBegins
<1> DEFINE g == reg[n].gen + 1
           k == [src |-> n, dst |-> d, gen |-> g]
<1>2. plan' = [plan EXCEPT ![m] = k]
  BY <1>1
<1> HIDE DEF g
<1>3. k.src = n /\ k.dst = d
  OBVIOUS
<1> HIDE DEF k
<1>4. \A i \in Migrations : plan'[i] = IF i = m THEN k ELSE plan[i]
  BY <1>2 DEF TypeOK
<1>5. reg[n].owner = n /\ d # n /\ UNCHANGED procs
  BY DEF StartMigration
<1>6. Open = {}
  <2> SUFFICES ASSUME NEW i \in Open PROVE FALSE
    OBVIOUS
  <2>1. i \in Begun /\ i \in Migrations
    BY Plans
  <2>2. n \in {plan[i].src, plan[i].dst}
    BY <1>5 DEF OwnerInv, FitInv, Fits
  <2>3. Undecided(n)
    BY <2>1, <2>2 DEF Undecided, Open, Begun
  <2> QED
    BY <2>3 DEF StartMigration, Orderly
<1>7. PlaceOf = n
  BY <1>5, <1>6 DEF ViewInv
<1>8. \A i \in Migrations \ {m} : OutcomeOf(i)' = OutcomeOf(i) /\ (i \in Landed' <=> i \in Landed)
  <2> SUFFICES ASSUME NEW i \in Migrations \ {m}
               PROVE  OutcomeOf(i)' = OutcomeOf(i) /\ (i \in Landed' <=> i \in Landed)
    OBVIOUS
  <2>1. plan[i].src \in Nodes /\ plan[i].dst \in Nodes
    BY Plans
  <2>2. /\ journal'[plan[i].src][i] = journal[plan[i].src][i]
        /\ journal'[plan[i].dst][i] = journal[plan[i].dst][i]
    BY <1>1, <2>1 DEF Writes
  <2> QED
    BY <1>4, <2>2, OutcomeStays
<1>9. \A i \in Nodes : journal'[i][m] \in {"none", "preparing"}
  BY <1>1 DEF Writes
<1>10. OutcomeOf(m)' = "open" /\ OutcomeOf(m) = "none" /\ m \notin Landed' /\ m \notin Landed
  <2>1. plan'[m].src \in Nodes /\ plan'[m].dst \in Nodes
    BY DEF TypeOK, Plan
  <2>2. m \in Begun' /\ m \notin Landed' /\ m \notin Undone' /\ m \notin Landed
    BY <1>1, <1>9, <2>1 DEF Landed, Undone
  <2> QED
    BY <1>1, <2>2 DEF ViewInv, OutcomeIs
<1>11. \A i \in Migrations : OutcomeOf(i) # "open"
  <2> SUFFICES ASSUME NEW i \in Migrations, OutcomeIs(i) = "open" PROVE FALSE
    BY DEF ViewInv
  <2>1. i \in Begun /\ i \notin Landed /\ i \notin Undone
    BY DEF OutcomeIs
  <2>2. journal[plan[i].src][i] \in Terminal
    BY <1>6, <2>1 DEF Open
  <2> QED
    BY <2>1, <2>2 DEF Terminal, Undone, OwnerInv, VerdictInv
<1>12. PlaceOf' = PlaceOf
  <2>1. Landed' \subseteq Migrations /\ Landed \subseteq Migrations
    BY DEF Landed, Begun
  <2>2. Landed' = Landed
    BY <1>8, <1>10, <2>1
  <2> QED
    BY <1>4, <1>10, <2>1, <2>2, PlaceStays
<1>13. Outcomes' = [Outcomes EXCEPT ![m] = "open"]
  BY <1>8, <1>10 DEF Outcomes
<1>14. Froms' = [Froms EXCEPT ![m] = n] /\ Tos' = [Tos EXCEPT ![m] = d]
  BY <1>3, <1>4 DEF Froms, Tos
<1> QED
  BY <1>5, <1>7, <1>10, <1>11, <1>12, <1>13, <1>14, WorkersAre

LEMMA HandoverStep ==
    ASSUME Orderly, TypeOK, WriteAheadInv, CourseInv, OwnerInv, NumberInv, ViewInv,
           NoDuplicateExecution, TypeOK', WriteAheadInv', OwnerInv', ViewInv',
           NoDuplicateExecution', [Next]_vars
    PROVE  [Abstract!HandoverNext]_(Abstract!handoverVars)
<1>1. /\ Workers = UNION {{n} \X procs[n] : n \in Nodes}
      /\ Outcomes = [m \in Migrations |-> OutcomeOf(m)]
      /\ Froms = [m \in Migrations |-> plan[m].src]
      /\ Tos = [m \in Migrations |-> plan[m].dst]
      /\ Workers' = UNION {{n} \X procs'[n] : n \in Nodes}
      /\ Outcomes' = [m \in Migrations |-> OutcomeOf(m)']
      /\ Froms' = [m \in Migrations |-> plan'[m].src]
      /\ Tos' = [m \in Migrations |-> plan'[m].dst]
  BY DEF Workers, Outcomes, Froms, Tos
<1>2. \A n : MayBeAt(n) =>
         n = PlaceOf \/ \E m \in Migrations : Outcomes[m] = "open" /\ Tos[m] = n
  <2> SUFFICES ASSUME NEW m \in Open \ Undone
               PROVE  plan[m].dst = PlaceOf \/ (OutcomeOf(m) = "open" /\ m \in Migrations)
    BY <1>1 DEF MayBeAt, Open, Begun
  <2>1. m \in Begun /\ m \in Migrations
    BY Plans
  <2>2. CASE m \in Landed
    <3>1. \A i \in Landed : i <= m
      BY Plans DEF NumberInv
    <3> QED
      BY <2>2, <3>1 DEF ViewInv
  <2>3. CASE m \notin Landed
    BY <2>1, <2>3 DEF ViewInv, OutcomeIs
  <2> QED
    BY <2>1, <2>2, <2>3
<1>3. CASE /\ UNCHANGED <<journal, plan>>
           /\ \/ \A n \in Nodes : procs'[n] \subseteq procs[n]
              \/ \A n \in Nodes : procs[n] \subseteq procs'[n]
  <2>1. /\ UNCHANGED <<PlaceOf, Outcomes, Froms, Tos>>
        /\ \/ UNCHANGED Workers
           \/ Workers # {} /\ Workers' = {}
           \/ /\ Workers = {}
              /\ \E n \in Nodes, p \in Pids : MayBeAt(n) /\ Workers' = {<<n, p>>}
    BY <1>3, ProcessesStep
  <2>2. CASE UNCHANGED <<PlaceOf, Workers, Outcomes, Froms, Tos>>
    BY <1>1, <2>2 DEF Abstract!handoverVars
  <2>3. CASE /\ UNCHANGED <<PlaceOf, Outcomes, Froms, Tos>>
             /\ Workers # {} /\ Workers' = {}
    <3>1. Abstract!End
      BY <1>1, <2>3 DEF Abstract!End
    <3> QED
      BY <3>1 DEF Abstract!HandoverNext
  <2>4. ASSUME UNCHANGED <<PlaceOf, Outcomes, Froms, Tos>>, Workers = {},
               NEW n \in Nodes, NEW p \in Pids, MayBeAt(n), Workers' = {<<n, p>>}
        PROVE  Abstract!HandoverNext
    <3>1. n = PlaceOf \/ \E m \in Migrations : Outcomes[m] = "open" /\ Tos[m] = n
      BY <1>2, <2>4
    <3>2. Abstract!May(n)
      BY <1>1, <3>1 DEF Abstract!May, Abstract!Open
    <3>3. Abstract!Start(n, p)
      BY <1>1, <2>4, <3>2 DEF Abstract!Start
    <3> QED
      BY <3>3 DEF Abstract!HandoverNext
  <2> QED
    BY <2>1, <2>2, <2>3, <2>4
<1>4. ASSUME UNCHANGED <<procs, plan>>, NEW n \in Nodes, NEW m \in Migrations, NEW w,
             Writes(n, m, w)
      PROVE  [Abstract!HandoverNext]_(Abstract!handoverVars)
  <2>1. \A k \in Begun, i \in Nodes : journal[i][k] \in Terminal => journal'[i][k] = journal[i][k]
    BY RecordsStay
  <2>2. /\ UNCHANGED <<Workers, Froms, Tos>>
        /\ \/ UNCHANGED <<PlaceOf, Outcomes>>
           \/ /\ OutcomeOf(m) = "open" /\ Outcomes' = [Outcomes EXCEPT ![m] = "moved"]
              /\ Workers \subseteq {plan[m].dst} \X Pids
              /\ PlaceOf' = plan[m].dst
           \/ /\ OutcomeOf(m) = "open" /\ Outcomes' = [Outcomes EXCEPT ![m] = "stayed"]
              /\ Workers \subseteq {plan[m].src} \X Pids
              /\ PlaceOf' = PlaceOf
    BY <1>4, <2>1, RecordWritten
  <2>3. Outcomes[m] = OutcomeOf(m) /\ Froms[m] = plan[m].src /\ Tos[m] = plan[m].dst
    BY <1>1
  <2>4. CASE UNCHANGED <<PlaceOf, Workers, Outcomes, Froms, Tos>>
    BY <1>1, <2>4 DEF Abstract!handoverVars
  <2>5. CASE /\ UNCHANGED <<Workers, Froms, Tos>>
             /\ Outcomes[m] = "open" /\ Outcomes' = [Outcomes EXCEPT ![m] = "moved"]
             /\ Workers \subseteq {Tos[m]} \X Pids
             /\ PlaceOf' = Tos[m]
    <3>1. Abstract!Move(m)
      BY <1>1, <2>5 DEF Abstract!Move, Abstract!Open
    <3> QED
      BY <3>1 DEF Abstract!HandoverNext
  <2>6. CASE /\ UNCHANGED <<Workers, Froms, Tos>>
             /\ Outcomes[m] = "open" /\ Outcomes' = [Outcomes EXCEPT ![m] = "stayed"]
             /\ Workers \subseteq {Froms[m]} \X Pids
             /\ PlaceOf' = PlaceOf
    <3>1. Abstract!Stay(m)
      BY <1>1, <2>6 DEF Abstract!Stay, Abstract!Open
    <3> QED
      BY <3>1 DEF Abstract!HandoverNext
  <2> QED
    BY <2>2, <2>3, <2>4, <2>5, <2>6
<1>5. ASSUME NEW n \in Nodes, NEW d \in Nodes, StartMigration(n, d)
      PROVE  Abstract!HandoverNext
  <2>1. PICK m \in Migrations :
           /\ d # PlaceOf /\ OutcomeOf(m) = "none"
           /\ \A i \in Migrations : OutcomeOf(i) # "open"
           /\ Outcomes' = [Outcomes EXCEPT ![m] = "open"]
           /\ Froms' = [Froms EXCEPT ![m] = PlaceOf]
           /\ Tos' = [Tos EXCEPT ![m] = d]
           /\ UNCHANGED <<PlaceOf, Workers>>
    BY <1>5, MigrationBegins
  <2>2. Outcomes[m] = "none" /\ \A i \in Migrations : Outcomes[i] # "open"
    BY <1>1, <2>1
  <2>3. Abstract!Begin(m, d)
    BY <1>1, <2>1, <2>2 DEF Abstract!Begin, Abstract!Open
  <2> QED
    BY <2>3 DEF Abstract!HandoverNext
<1> QED
  BY <1>3, <1>4, <1>5, StepKinds DEF StepKind

LEMMA HandoverStarts ==
    ASSUME Init, ViewInv
    PROVE  Abstract!HandoverInit
<1>1. PICK p \in Pids :
         /\ procs = [n \in Nodes |-> IF n = Home THEN {p} ELSE {}]
         /\ plan = [m \in Migrations |-> NoPlan]
  BY DEF Init
<1>2. Begun = {} /\ Landed = {}
  BY <1>1 DEF Begun, Landed
<1>3. PlaceOf = Home /\ \A m \in Migrations : OutcomeOf(m) = "none"
  BY <1>2 DEF ViewInv, OutcomeIs
<1>4. \A m \in Migrations : plan[m].src = Home /\ plan[m].dst = Home
  BY <1>1 DEF NoPlan
<1>5. UNION {{n} \X procs[n] : n \in Nodes} = {<<Home, p>>}
  <2>1. \A w \in Workers : w = <<Home, p>>
    BY <1>1, WorkersAre
  <2>2. <<Home, p>> \in Workers
    BY <1>1, WorkersAre, ConstantsAssumption
  <2>3. Workers = {<<Home, p>>}
    BY <2>1, <2>2
  <2> QED
    BY <2>3 DEF Workers
<1> QED
  BY <1>3, <1>4, <1>5 DEF Abstract!HandoverInit

(* The whole protocol, with its records, claims, requests, restarts and crashes,
   is a handover that is decided in one step: a migration moves the task as a
   whole or leaves it, both records say the same, once and for all, and whoever
   executes the task when it is decided is on the right side of it. *)
THEOREM ProtocolImplementsHandover ==
    ASSUME Sober
    PROVE  Spec => ImplementsHandover
<1>1. TypeOK /\ WriteAheadInv /\ CourseInv /\ OwnerInv /\ WorkInv /\ NumberInv => ViewInv
  BY ViewHolds
<1>2. Init /\ ViewInv => Abstract!HandoverInit
  BY HandoverStarts
<1>3. /\ TypeOK /\ WriteAheadInv /\ CourseInv /\ OwnerInv /\ NumberInv /\ ViewInv
      /\ NoDuplicateExecution
      /\ TypeOK' /\ WriteAheadInv' /\ OwnerInv' /\ ViewInv' /\ NoDuplicateExecution'
      /\ [Next]_vars
      => [Abstract!HandoverNext]_(Abstract!handoverVars)
  BY HandoverStep DEF Sober
<1>4. Spec => []CourseInv /\ []OwnerInv /\ []NumberInv
  BY CourseKept, OwnerKept, NumberKept DEF Sober
<1> QED
  BY <1>1, <1>2, <1>3, <1>4, TypeCorrect, WriteAheadKept, WorkKept, ExecutedOnce, PTL
  DEF Spec, ImplementsHandover, Abstract!HandoverSpec

(* ------------------- What a handover keeps, of the protocol ------------------ *)

(* The theorems about Handover, of the handover that the protocol implements. *)
Promise == INSTANCE Handover_proofs WITH
    place   <- PlaceOf,
    workers <- UNION {{n} \X procs[n] : n \in Nodes},
    outcome <- [m \in Migrations |-> OutcomeOf(m)],
    from    <- [m \in Migrations |-> plan[m].src],
    to      <- [m \in Migrations |-> plan[m].dst]

(* Both instances are of the same definitions. *)
LEMMA PromisesStart == Abstract!HandoverInit => Promise!HandoverInit
BY DEF Abstract!HandoverInit, Promise!HandoverInit

LEMMA PromisesStep ==
  [Abstract!HandoverNext]_(Abstract!handoverVars) => [Promise!HandoverNext]_(Promise!handoverVars)
<1>1. Abstract!HandoverNext => Promise!HandoverNext
  BY DEF Abstract!HandoverNext, Abstract!Begin, Abstract!Move, Abstract!Stay, Abstract!Start,
         Abstract!End, Abstract!Open, Abstract!May,
         Promise!HandoverNext, Promise!Begin, Promise!Move, Promise!Stay, Promise!Start,
         Promise!End, Promise!Open, Promise!May
<1> QED BY <1>1 DEF Abstract!handoverVars, Promise!handoverVars

LEMMA PromisesKept ==
  ASSUME Sober PROVE Spec => Promise!HandoverSpec
<1> QED BY ProtocolImplementsHandover, PromisesStart, PromisesStep, PTL
        DEF ImplementsHandover, Abstract!HandoverSpec, Promise!HandoverSpec

(* Over crashes, restarts, retries and reconciliation, the task is executed only
   at the destination of the last migration that both records decided,
   or where a migration takes it that neither has decided
   (migration/service.py: migrate, activate_incoming, reconcile_durable_state). *)
TaskInPlace ==
    \A n \in Nodes : procs[n] # {} =>
      n = PlaceOf \/ \E m \in Migrations : OutcomeOf(m) = "open" /\ plan[m].dst = n

(* What Handover promises about workers holds of the processes, whatever happens
   between the records (migration/service.py: _finalize_source_success,
   _reconcile_source_record). *)
THEOREM TaskIsInPlace ==
  ASSUME Sober PROVE Spec => []TaskInPlace
<1>1. Promise!WorksInPlace => TaskInPlace
  <2> SUFFICES ASSUME Promise!WorksInPlace, NEW n \in Nodes, NEW p \in procs[n]
               PROVE  n = PlaceOf \/ \E m \in Migrations : OutcomeOf(m) = "open" /\ plan[m].dst = n
    BY DEF TaskInPlace
  <2>1. PICK w : w = <<n, p>> OBVIOUS
  <2>2. w \in UNION {{k} \X procs[k] : k \in Nodes} /\ w[1] = n BY <2>1
  <2>3. Promise!May(w[1]) BY <2>2 DEF Promise!WorksInPlace
  <2> QED BY <2>2, <2>3 DEF Promise!May, Promise!Open
<1>2. Promise!HandoverSpec => []Promise!WorksInPlace
  BY Promise!WorksWhereItBelongs, ConstantsAssumption
<1> QED BY <1>1, <1>2, PromisesKept, PTL

(* What both records say together of a migration is final, and the task changes
   its place in the step in which a migration is decided that takes it there, in
   no other one: not by a restart, a retry or a late answer. *)
PlaceMovesByDecision ==
    [][ /\ \A m \in Migrations :
             OutcomeOf(m) \in {"moved", "stayed"} => OutcomeOf(m)' = OutcomeOf(m)
        /\ PlaceOf' # PlaceOf => \E m \in Migrations :
             OutcomeOf(m) = "open" /\ OutcomeOf(m)' = "moved" /\ PlaceOf' = plan[m].dst ]_vars

(* What Handover promises about decisions holds of the pairs of records that the
   two journals keep (migration/journal.py). *)
THEOREM PlaceIsDecided ==
  ASSUME Sober PROVE Spec => PlaceMovesByDecision
<1>1. Promise!Keeps =>
        /\ \A m \in Migrations :
             OutcomeOf(m) \in {"moved", "stayed"} => OutcomeOf(m)' = OutcomeOf(m)
        /\ PlaceOf' # PlaceOf => \E m \in Migrations :
             OutcomeOf(m) = "open" /\ OutcomeOf(m)' = "moved" /\ PlaceOf' = plan[m].dst
  BY DEF Promise!Keeps
<1>2. Promise!HandoverInit => Promise!HandoverInv
  BY Promise!HandoverInit_Inv, ConstantsAssumption
<1>3. Promise!HandoverInv /\ [Promise!HandoverNext]_(Promise!handoverVars) => Promise!HandoverInv'
  BY Promise!HandoverStep_Inv
<1>4. Promise!HandoverInv /\ [Promise!HandoverNext]_(Promise!handoverVars) => Promise!Keeps
  BY Promise!HandoverStep_Keeps
<1> QED BY <1>1, <1>2, <1>3, <1>4, PromisesKept, PTL
        DEF PlaceMovesByDecision, Promise!HandoverSpec
===============================================================================
