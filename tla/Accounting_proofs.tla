--------------------------- MODULE Accounting_proofs ---------------------------
(***************************************************************************)
(* For any nodes, threads, times, speeds and migrations, and however many  *)
(* updates of the registry are lost: the rate that an entry believes in is *)
(* one that the task could have, and the accounts keep their types.        *)
(***************************************************************************)
EXTENDS Accounting, TLAPS

USE AccountingAssumption DEF AccountingAssumption

MaxRate == Scale * MaxSpeed

LEMMA MaxRateIsNat == MaxRate \in Nat
BY DEF MaxRate, Scale

(* Of what is said by a time.  Rates are bounded here; why they are is the
   subject of MarksInv. *)
TimeBy(t) == Never .. t
Statuses == {"stopped", "running", "paused", "failed", "migrating", "remote"}
Rates == 0 .. MaxRate

EntryBy(t) ==
    [owner : AccountingNodes, gen : Nat, status : Statuses, pid : Nat, ran : Nat,
     last : TimeBy(t), units : Nat, at : TimeBy(t), rate : Rates]
ProgressBy(t) == [units : Nat, at : TimeBy(t), rate : Rates]
FileBy(t) == [units : Nat, at : TimeBy(t)]
CallBy(t) ==
    [stage : {"next", "found", "ready", "holds"},
     role : {"alone", "pauser", "source", "destination"}, from : AccountingNodes,
     wall : 0 .. t, run : Nat, progress : ProgressBy(t), pid : Nat,
     copy : EntryBy(t), other : EntryBy(t)]
RequestBy(t) == [answer : {"none", "sent", "taken", "activated", "refused"},
                 to : AccountingNodes, snapshot : EntryBy(t)]
Process == [node : AccountingNodes, pid : Nat, does : {"runs", "frozen", "gone"}]

AccountsTyped ==
    /\ now \in 0 .. MaxTime /\ done \in Nat
    /\ record \in [AccountingNodes -> EntryBy(now)]
    /\ file \in [AccountingNodes -> FileBy(now)]
    /\ call \in [Threads -> CallBy(now)]
    /\ request \in [AccountingNodes -> RequestBy(now)]
    /\ process \in Process

(* A mark is a pair of units and time that somebody knows: from an entry, from
   progress.json, or from what a thread has read and not yet written.  No two
   marks, and no mark and what the process has done by now, are further apart
   than the task can work, however many restarts from older checkpoints are
   between them. *)
Says(x, u, s) == x.units = u /\ x.at = s

Mark(u, s) ==
    \/ \E n \in AccountingNodes :
         Says(record[n], u, s) \/ Says(file[n], u, s) \/ Says(request[n].snapshot, u, s)
    \/ \E t \in Threads :
         Says(call[t].copy, u, s) \/ Says(call[t].other, u, s) \/ Says(call[t].progress, u, s)

Apart(u, s, v, t) == v - u <= MaxSpeed * (t - s)

MarksInv ==
    /\ \A u, v \in Nat, s, t \in Nat : Mark(u, s) /\ Mark(v, t) /\ s < t => Apart(u, s, v, t)
    /\ \A u, s \in Nat : Mark(u, s) => s <= now /\ Apart(u, s, done, now)

AccountInv == AccountsTyped /\ MarksInv

-------------------------------------------------------------------------------
(* What a step may write: values of the types, with marks that are known. *)
KnownMark(x) == x.at = Never \/ Mark(x.units, x.at)

GoodEntry(r) == r \in EntryBy(now) /\ KnownMark(r)
GoodCall(c) == c \in CallBy(now) /\ KnownMark(c.copy) /\ KnownMark(c.other) /\ KnownMark(c.progress)
GoodRequest(q) == q \in RequestBy(now) /\ KnownMark(q.snapshot)

LEMMA InitialValues ==
  ASSUME now \in Nat PROVE GoodEntry(NewEntry) /\ GoodCall(NoCall) /\ GoodRequest(NoRequest)
<1>1. NewEntry \in EntryBy(now) /\ NothingNew \in ProgressBy(now)
  BY MaxRateIsNat DEF NewEntry, NothingNew, EntryBy, ProgressBy, TimeBy, Statuses, Rates, Never, NoProcess
<1>2. NewEntry.at = Never /\ NothingNew.at = Never BY DEF NewEntry, NothingNew
<1>3. NoCall \in CallBy(now) BY <1>1 DEF NoCall, CallBy, NoProcess
<1>4. NoRequest \in RequestBy(now) BY <1>1 DEF NoRequest, RequestBy
<1>5. NoCall.copy = NewEntry /\ NoCall.other = NewEntry /\ NoCall.progress = NothingNew
  BY DEF NoCall
<1>6. NoRequest.snapshot = NewEntry BY DEF NoRequest
<1> QED BY <1>1, <1>2, <1>3, <1>4, <1>5, <1>6 DEF GoodEntry, GoodCall, GoodRequest, KnownMark

LEMMA RecordIsGood ==
  ASSUME AccountInv, NEW n \in AccountingNodes
  PROVE  GoodEntry(record[n]) /\ GoodRequest(request[n])
BY DEF AccountInv, AccountsTyped, GoodEntry, GoodRequest, KnownMark, Mark, Says

LEMMA CallIsGood ==
  ASSUME AccountInv, NEW t \in Threads
  PROVE  GoodCall(call[t]) /\ GoodEntry(call[t].copy) /\ GoodEntry(call[t].other)
<1>1. call[t] \in CallBy(now) BY DEF AccountInv, AccountsTyped
<1>2. call[t].copy \in EntryBy(now) /\ call[t].other \in EntryBy(now) BY <1>1 DEF CallBy
<1>3. KnownMark(call[t].copy) /\ KnownMark(call[t].other) /\ KnownMark(call[t].progress)
  BY DEF KnownMark, Mark, Says
<1> QED BY <1>1, <1>2, <1>3 DEF GoodCall, GoodEntry

(* A step that changes at most one call, one entry and one request, none of
   which says what nobody knew, and leaves the time and the files alone. *)
OneCall(t) == call' = call \/ \E c : GoodCall(c) /\ call' = [call EXCEPT ![t] = c]
EntryWritten(t) ==
    record' = record \/ \E r : GoodEntry(r) /\ record' = [record EXCEPT ![t[1]] = r]
OneRequest ==
    request' = request
    \/ \E n \in AccountingNodes : \E q : GoodRequest(q) /\ request' = [request EXCEPT ![n] = q]
Quiet(t) ==
    /\ OneCall(t) /\ EntryWritten(t) /\ OneRequest
    /\ UNCHANGED <<now, file>> /\ done' \in Nat /\ done' <= done /\ process' \in Process

LEMMA ThreadParts == ASSUME NEW t \in Threads PROVE t[1] \in AccountingNodes
BY DEF Threads

LEMMA QuietKeepsTypes ==
  ASSUME AccountInv, NEW t \in Threads, Quiet(t) PROVE AccountsTyped'
<1>1. call' \in [Threads -> CallBy(now)]
  BY DEF Quiet, OneCall, GoodCall, AccountInv, AccountsTyped
<1>2. record' \in [AccountingNodes -> EntryBy(now)]
  BY ThreadParts DEF Quiet, EntryWritten, GoodEntry, AccountInv, AccountsTyped
<1>3. request' \in [AccountingNodes -> RequestBy(now)]
  BY DEF Quiet, OneRequest, GoodRequest, AccountInv, AccountsTyped
<1> QED BY <1>1, <1>2, <1>3
  DEF AccountsTyped, AccountInv, Quiet, EntryBy, CallBy, RequestBy, ProgressBy, FileBy, TimeBy

LEMMA QuietMarks ==
  ASSUME AccountInv, NEW t \in Threads, Quiet(t), NEW u \in Nat, NEW s \in Nat, Mark(u, s)'
  PROVE  Mark(u, s)
<1>0. \A x : Says(x, u, s) /\ KnownMark(x) => Mark(u, s) BY DEF Says, KnownMark, Never
<1>1. ASSUME NEW n \in AccountingNodes, Says(record'[n], u, s) PROVE Mark(u, s)
  <2>1. KnownMark(record'[n])
    <3>1. CASE record' = record BY <3>1, RecordIsGood DEF GoodEntry
    <3>2. ASSUME NEW r, GoodEntry(r), record' = [record EXCEPT ![t[1]] = r] PROVE KnownMark(record'[n])
      <4>1. record'[n] = r \/ record'[n] = record[n] BY <3>2 DEF AccountInv, AccountsTyped
      <4> QED BY <3>2, <4>1, RecordIsGood DEF GoodEntry
    <3> QED BY <3>1, <3>2 DEF Quiet, EntryWritten
  <2> QED BY <1>0, <1>1, <2>1
<1>2. ASSUME NEW n \in AccountingNodes, Says(file'[n], u, s) PROVE Mark(u, s)
  BY <1>2 DEF Quiet, Mark
<1>3. ASSUME NEW n \in AccountingNodes, Says(request'[n].snapshot, u, s) PROVE Mark(u, s)
  <2>1. KnownMark(request'[n].snapshot)
    <3>1. CASE request' = request BY <3>1, RecordIsGood DEF GoodRequest
    <3>2. ASSUME NEW m \in AccountingNodes, NEW q, GoodRequest(q), request' = [request EXCEPT ![m] = q]
          PROVE  KnownMark(request'[n].snapshot)
      <4>1. request'[n] = q \/ request'[n] = request[n] BY <3>2 DEF AccountInv, AccountsTyped
      <4> QED BY <3>2, <4>1, RecordIsGood DEF GoodRequest
    <3> QED BY <3>1, <3>2 DEF Quiet, OneRequest
  <2> QED BY <1>0, <1>3, <2>1
<1>4. ASSUME NEW w \in Threads,
             \/ Says(call'[w].copy, u, s) \/ Says(call'[w].other, u, s)
             \/ Says(call'[w].progress, u, s)
      PROVE  Mark(u, s)
  <2>1. GoodCall(call'[w])
    <3>1. CASE call' = call BY <3>1, CallIsGood
    <3>2. ASSUME NEW c, GoodCall(c), call' = [call EXCEPT ![t] = c] PROVE GoodCall(call'[w])
      <4>1. call'[w] = c \/ call'[w] = call[w] BY <3>2 DEF AccountInv, AccountsTyped
      <4> QED BY <3>2, <4>1, CallIsGood
    <3> QED BY <3>1, <3>2 DEF Quiet, OneCall
  <2> QED BY <1>0, <1>4, <2>1 DEF GoodCall
<1> QED BY <1>1, <1>2, <1>3, <1>4 DEF Mark

LEMMA LessWork ==
  \A d, e, u, w \in Int : d <= e /\ e - u <= w => d - u <= w
OBVIOUS

LEMMA QuietKeepsAccounts ==
  ASSUME AccountInv, NEW t \in Threads, Quiet(t) PROVE AccountInv'
<1>1. AccountsTyped' BY QuietKeepsTypes
<1>2. ASSUME NEW u \in Nat, NEW s \in Nat, Mark(u, s)
      PROVE  s <= now' /\ Apart(u, s, done, now)'
  <2>1. s <= now /\ done - u <= MaxSpeed * (now - s) BY <1>2 DEF AccountInv, MarksInv, Apart
  <2>2. PICK w \in Int : w = MaxSpeed * (now - s) BY DEF AccountInv, AccountsTyped
  <2>3. done - u <= w BY <2>1, <2>2
  <2>4. done \in Int /\ done' \in Int /\ done' <= done /\ u \in Int
    BY DEF AccountInv, AccountsTyped, Quiet
  <2>5. now' = now BY DEF Quiet
  <2>6. done' - u <= w BY <2>3, <2>4, LessWork
  <2> QED BY <2>1, <2>2, <2>5, <2>6 DEF Apart
<1>3. MarksInv'
  <2>1. ASSUME NEW u \in Nat, NEW v \in Nat, NEW s \in Nat, NEW r \in Nat,
               Mark(u, s)', Mark(v, r)', s < r
        PROVE  Apart(u, s, v, r)
    BY <2>1, QuietMarks DEF AccountInv, MarksInv
  <2>2. ASSUME NEW u \in Nat, NEW s \in Nat, Mark(u, s)' PROVE (s <= now /\ Apart(u, s, done, now))'
    BY <1>2, <2>2, QuietMarks
  <2>3. \A u, v \in Nat, s, r \in Nat : Mark(u, s)' /\ Mark(v, r)' /\ s < r => Apart(u, s, v, r)'
    BY <2>1 DEF Apart
  <2> QED BY <2>2, <2>3 DEF MarksInv
<1> QED BY <1>1, <1>3 DEF AccountInv

-------------------------------------------------------------------------------
(* Progress: no observed rate is above what the task can do between two marks. *)
LEMMA QuotientIsBounded ==
  ASSUME NEW a \in Int, NEW b \in Int, NEW e \in Nat, e > 0, a <= b * e
  PROVE  a \div e <= b
<1>1. PICK q \in Int : q = a \div e OBVIOUS
<1>2. a = q * e + (a % e) /\ 0 <= a % e BY <1>1
<1>3. q * e <= b * e
  <2>1. q * e \in Int /\ b * e \in Int /\ a % e \in Int OBVIOUS
  <2> QED BY <1>2, <2>1
<1>4. ASSUME q >= b + 1 PROVE FALSE
  <2>1. PICK d \in Nat : q = b + 1 + d
    <3>1. q - b - 1 \in Nat BY <1>4
    <3> QED BY <3>1
  <2>2. q * e = b * e + e + d * e BY <2>1
  <2>3. d * e >= 0 OBVIOUS
  <2> QED BY <1>3, <2>2, <2>3
<1> QED BY <1>1, <1>4

LEMMA QuotientIsNat ==
  ASSUME NEW a \in Nat, NEW e \in Nat, e > 0 PROVE a \div e \in Nat
OBVIOUS

LEMMA RateIsBounded ==
  ASSUME NEW r, NEW f, r.units \in Nat, r.at \in Nat, r.rate \in Rates,
         f.units \in Nat, f.at \in Nat, r.at < f.at, r.units < f.units,
         Apart(r.units, r.at, f.units, f.at)
  PROVE  Rate(r, f) \in Rates
<1>1. PICK e \in Nat : e = Elapsed(r, f) /\ e > 0 /\ e = f.at - r.at
  <2>1. f.at - r.at \in Nat /\ f.at - r.at > 0 OBVIOUS
  <2> QED BY <2>1 DEF Elapsed
<1>2. PICK d \in Nat : d = f.units - r.units
  <2>1. f.units - r.units \in Nat OBVIOUS
  <2> QED BY <2>1
<1>3. PICK b \in Nat : b = MaxRate BY MaxRateIsNat
<1>4. PICK a \in Nat : a = 12 * d OBVIOUS
<1>5. a <= b * e
  <2>1. PICK w \in Int : w = MaxSpeed * e OBVIOUS
  <2>2. d <= w BY <1>1, <1>2, <2>1 DEF Apart
  <2>3. b * e = 12 * w BY <1>3, <2>1 DEF MaxRate, Scale
  <2> QED BY <1>4, <2>2, <2>3
<1>6. a \div e <= b /\ a \div e \in Nat BY <1>1, <1>5, QuotientIsBounded, QuotientIsNat
<1>7. PICK x \in Nat : x = a \div e BY <1>6
<1>8. Observed(r, f) = x BY <1>1, <1>2, <1>4, <1>7 DEF Observed, Scale
<1>9. PICK y \in Nat : y = r.rate BY DEF Rates
<1>10. y <= b BY <1>3, <1>9 DEF Rates
<1>11. (x + y) \div 2 <= b /\ (x + y) \div 2 \in Nat BY <1>6, <1>7, <1>10
<1>12. Rate(r, f) = IF y = 0 THEN x ELSE (x + y) \div 2
  <2>1. ~(r.at = Never \/ f.units <= r.units \/ Elapsed(r, f) <= 0) BY <1>1 DEF Never
  <2> QED BY <1>8, <1>9, <2>1 DEF Rate
<1>13. Rate(r, f) \in Nat /\ Rate(r, f) <= b BY <1>6, <1>7, <1>11, <1>12
<1> QED BY <1>3, <1>13 DEF Rates

LEMMA ProgressIsGood ==
  ASSUME AccountInv, NEW n \in AccountingNodes
  PROVE  LET p == Progress(record[n], file[n]) IN p \in ProgressBy(now) /\ KnownMark(p)
<1>1. PICK r, f : r = record[n] /\ f = file[n] OBVIOUS
<1>2. /\ r.units \in Nat /\ r.at \in TimeBy(now) /\ r.rate \in Rates
      /\ f.units \in Nat /\ f.at \in TimeBy(now)
  BY <1>1 DEF AccountInv, AccountsTyped, EntryBy, FileBy
<1>3. Mark(r.units, r.at) /\ Mark(f.units, f.at) BY <1>1 DEF Mark, Says
<1>4. CASE f.at = Never \/ (r.at # Never /\ f.at <= r.at)
  <2>1. Progress(r, f) = NothingNew BY <1>4 DEF Progress
  <2> QED BY <1>1, <2>1, InitialValues DEF GoodCall, NoCall, CallBy, AccountInv, AccountsTyped
<1>5. CASE ~(f.at = Never \/ (r.at # Never /\ f.at <= r.at))
  <2>1. Rate(r, f) \in Rates
    <3>1. CASE r.at = Never \/ f.units <= r.units \/ Elapsed(r, f) <= 0
      BY <1>2, <3>1 DEF Rate
    <3>2. CASE r.at # Never /\ f.units > r.units /\ ~(r.at = Never \/ f.units <= r.units \/ Elapsed(r, f) <= 0)
      <4>1. r.at \in Nat /\ f.at \in Nat /\ r.at < f.at
        BY <1>2, <1>5, <3>2 DEF TimeBy, Never, AccountInv, AccountsTyped
      <4>2. Apart(r.units, r.at, f.units, f.at)
        BY <1>2, <1>3, <4>1 DEF AccountInv, MarksInv
      <4> QED BY <1>2, <3>2, <4>1, <4>2, RateIsBounded
    <3> QED BY <1>2, <3>1, <3>2 DEF TimeBy
  <2>2. Progress(r, f) = [units |-> f.units, at |-> f.at, rate |-> Rate(r, f)]
    BY <1>5 DEF Progress
  <2>3. PICK q \in Rates : q = Rate(r, f) BY <2>1
  <2>4. Progress(r, f) \in ProgressBy(now) /\ Mark(Progress(r, f).units, Progress(r, f).at)
    BY <1>2, <1>3, <2>2, <2>3 DEF ProgressBy
  <2> QED BY <1>1, <2>4 DEF KnownMark
<1> QED BY <1>4, <1>5

-------------------------------------------------------------------------------
(* What the operations write. *)
LEMMA ContinuesIsGood ==
  ASSUME AccountInv, NEW t \in Threads, NEW list, Continues(t, list) PROVE OneCall(t)
<1>1. GoodCall(NoCall) BY InitialValues DEF AccountInv, AccountsTyped
<1> DEFINE c == [NoCall EXCEPT !.role = call[t].role, !.from = call[t].from, !.other = call[t].other]
<1>2. GoodCall(c)
  <2>1. NoCall \in CallBy(now) /\ KnownMark(NoCall.copy) /\ KnownMark(NoCall.progress) BY <1>1 DEF GoodCall
  <2>2. call[t] \in CallBy(now) /\ KnownMark(call[t].other) BY CallIsGood DEF GoodCall
  <2>3. c \in CallBy(now) BY <2>1, <2>2 DEF CallBy
  <2>4. c.copy = NoCall.copy /\ c.progress = NoCall.progress /\ c.other = call[t].other
    BY <2>1 DEF CallBy
  <2> QED BY <2>1, <2>2, <2>3, <2>4 DEF GoodCall
<1>3. call' = [call EXCEPT ![t] = NoCall] \/ call' = [call EXCEPT ![t] = c] BY DEF Continues
<1> QED BY <1>1, <1>2, <1>3 DEF OneCall

(* The thread goes on with its call, some of it changed. *)
LEMMA StageIsGood ==
  ASSUME AccountInv, NEW t \in Threads, NEW run \in Nat, NEW pid \in Nat,
         NEW p \in ProgressBy(now), KnownMark(p), NEW r, GoodEntry(r)
  PROVE  /\ GoodCall([call[t] EXCEPT !.stage = "ready"])
         /\ GoodCall([call[t] EXCEPT !.stage = "found", !.run = run])
         /\ GoodCall([call[t] EXCEPT !.stage = "ready", !.pid = pid])
         /\ GoodCall([call[t] EXCEPT !.stage = "ready", !.progress = p])
         /\ GoodCall([call[t] EXCEPT !.stage = "holds", !.copy = r])
<1>1. GoodCall(call[t]) BY CallIsGood
<1>2. r \in EntryBy(now) /\ KnownMark(r) BY DEF GoodEntry
<1> QED BY <1>1, <1>2 DEF GoodCall, CallBy

LEMMA ReachesIsGood ==
  ASSUME NEW t \in Threads, NEW c, GoodCall(c), Reaches(t, c) PROVE OneCall(t)
BY DEF Reaches, OneCall

LEMMA BeginsIsGood ==
  ASSUME AccountInv, NEW t \in Threads, NEW role \in {"alone", "pauser", "source", "destination"},
         NEW from \in AccountingNodes, NEW list, NEW other, GoodEntry(other),
         Begins(t, role, from, list, other), OneRequest
  PROVE  Quiet(t)
<1>1. NoCall \in CallBy(now) /\ KnownMark(NoCall.copy) /\ KnownMark(NoCall.progress)
  BY InitialValues DEF GoodCall, AccountInv, AccountsTyped
<1>2. PICK wall \in 0 .. now : wall = IF Head(list) = "charge" THEN now ELSE 0
  BY DEF AccountInv, AccountsTyped
<1> DEFINE c == [NoCall EXCEPT !.role = role, !.from = from, !.other = other, !.wall = wall]
<1>3. call' = [call EXCEPT ![t] = c] BY <1>2 DEF Begins
<1>4. other \in EntryBy(now) /\ KnownMark(other) BY DEF GoodEntry
<1>5. c \in CallBy(now) BY <1>1, <1>4 DEF CallBy
<1>6. c.copy = NoCall.copy /\ c.progress = NoCall.progress /\ c.other = other BY <1>1 DEF CallBy
<1>7. GoodCall(c) BY <1>1, <1>4, <1>5, <1>6 DEF GoodCall
<1>8. OneCall(t) BY <1>3, <1>7 DEF OneCall
<1>9. /\ UNCHANGED <<now, file, record, process, done>> BY DEF Begins, outside
<1> QED BY <1>8, <1>9 DEF Quiet, EntryWritten, AccountInv, AccountsTyped

(* The updates of an entry. *)
LEMMA OwnershipIsGood ==
  ASSUME NEW r, GoodEntry(r), NEW owner \in AccountingNodes, NEW gen \in Nat, NEW status \in Statuses
  PROVE  /\ GoodEntry([r EXCEPT !.owner = owner, !.gen = gen])
         /\ GoodEntry([r EXCEPT !.status = status])
         /\ GoodEntry(Without(r, status))
         /\ GoodEntry(WithClaim(r, owner, gen, status))
BY DEF GoodEntry, EntryBy, KnownMark, Without, WithClaim, NoProcess

LEMMA SnapshotIsGood ==
  ASSUME NEW r, GoodEntry(r), NEW s, GoodEntry(s) PROVE GoodEntry(WithSnapshot(r, s))
BY DEF GoodEntry, EntryBy, KnownMark, WithSnapshot

LEMMA TimeIsGood ==
  ASSUME NEW r, GoodEntry(r), NEW status \in Statuses, NEW last \in TimeBy(now), NEW pid \in Nat
  PROVE  /\ GoodEntry([r EXCEPT !.last = last])
         /\ GoodEntry([r EXCEPT !.status = status, !.last = last])
         /\ GoodEntry([r EXCEPT !.status = status, !.last = last, !.pid = pid])
BY DEF GoodEntry, EntryBy, KnownMark

LEMMA ChargedIsGood ==
  ASSUME now \in Nat, NEW r, GoodEntry(r), NEW c, GoodCall(c) PROVE GoodEntry(Charged(r, c))
<1>1. /\ c.progress \in ProgressBy(now) /\ KnownMark(c.progress) /\ c.run \in Nat
      /\ c.wall \in TimeBy(now)
  BY DEF GoodCall, CallBy, TimeBy, Never
<1>2. r \in EntryBy(now) /\ KnownMark(r) BY DEF GoodEntry
<1>3. PICK q \in Rates : q = IF c.progress.rate = 0 THEN r.rate ELSE c.progress.rate
  BY <1>1, <1>2 DEF EntryBy, ProgressBy
<1>4. PICK p : p = IF c.progress.at = Never THEN r
                   ELSE [r EXCEPT !.units = c.progress.units, !.at = c.progress.at, !.rate = q]
  OBVIOUS
<1>5. p \in EntryBy(now) /\ KnownMark(p)
  <2>1. CASE c.progress.at = Never BY <1>2, <1>4, <2>1
  <2>2. CASE c.progress.at # Never
    <3>1. p = [r EXCEPT !.units = c.progress.units, !.at = c.progress.at, !.rate = q]
      BY <1>4, <2>2
    <3>2. p \in EntryBy(now) /\ p.units = c.progress.units /\ p.at = c.progress.at
      BY <1>1, <1>2, <3>1 DEF EntryBy, ProgressBy
    <3> QED BY <1>1, <3>2 DEF KnownMark
  <2> QED BY <2>1, <2>2
<1>6. PICK ran \in Nat : ran = p.ran + c.run BY <1>1, <1>5 DEF EntryBy
<1>7. Charged(r, c) = [p EXCEPT !.ran = ran, !.last = c.wall]
  BY <1>2, <1>3, <1>4, <1>6 DEF Charged, EntryBy
<1>8. [p EXCEPT !.ran = ran, !.last = c.wall] \in EntryBy(now)
  BY <1>1, <1>5, <1>6 DEF EntryBy
<1>9. /\ [p EXCEPT !.ran = ran, !.last = c.wall].units = p.units
      /\ [p EXCEPT !.ran = ran, !.last = c.wall].at = p.at
  BY <1>5 DEF EntryBy
<1> QED BY <1>5, <1>7, <1>8, <1>9 DEF GoodEntry, KnownMark

LEMMA UpdateIsGood ==
  ASSUME AccountInv, NEW t \in Threads PROVE GoodEntry(Update(t))
<1> DEFINE n == t[1]  c == call[t]  what == Head(ahead[t])
<1>1. n \in AccountingNodes BY ThreadParts
<1>2. GoodCall(c) /\ GoodEntry(c.copy) /\ GoodEntry(c.other) BY CallIsGood
<1>3. now \in Nat /\ now \in TimeBy(now) BY DEF AccountInv, AccountsTyped, TimeBy, Never
<1>4. /\ c.from \in AccountingNodes /\ c.pid \in Nat
      /\ c.other.gen \in Nat /\ c.other.gen + 1 \in Nat /\ c.other.owner \in AccountingNodes
  BY <1>2 DEF GoodCall, CallBy, EntryBy
<1>5. GoodEntry(request[c.from].snapshot) /\ request[c.from].snapshot.gen \in Nat
  <2>1. GoodRequest(request[c.from]) BY <1>4, RecordIsGood
  <2> QED BY <2>1 DEF GoodRequest, GoodEntry, RequestBy, EntryBy
<1>6. PICK r, o, s, g : r = c.copy /\ o = c.other /\ s = request[c.from].snapshot /\ g = o.gen + 1
  OBVIOUS
<1>7. /\ GoodEntry(r) /\ GoodEntry(o) /\ GoodEntry(s) /\ g \in Nat
      /\ o.gen \in Nat /\ o.owner \in AccountingNodes /\ s.gen \in Nat
  BY <1>2, <1>4, <1>5, <1>6
<1>8. Update(t) \in {Charged(r, c), [r EXCEPT !.status = "paused", !.last = now],
          [r EXCEPT !.status = "running", !.last = now],
          [r EXCEPT !.status = "running", !.last = now, !.pid = c.pid],
          Without(r, "stopped"), Without(r, "failed"), [r EXCEPT !.status = "migrating"],
          [r EXCEPT !.last = now], WithSnapshot(WithClaim(r, n, s.gen, "stopped"), s),
          WithClaim(r, c.from, g, "remote"), WithClaim(r, n, o.gen, "stopped"),
          WithSnapshot(WithClaim(r, o.owner, o.gen, "remote"), o),
          WithSnapshot([r EXCEPT !.owner = o.owner, !.gen = o.gen], o)}
  BY <1>6 DEF Update
<1>9. {"stopped", "running", "paused", "failed", "migrating", "remote"} = Statuses BY DEF Statuses
<1> HIDE DEF c, n
<1>10. GoodEntry(Charged(r, c)) BY <1>2, <1>3, <1>7, ChargedIsGood
<1>11. /\ GoodEntry([r EXCEPT !.status = "paused", !.last = now])
       /\ GoodEntry([r EXCEPT !.status = "running", !.last = now])
       /\ GoodEntry([r EXCEPT !.status = "running", !.last = now, !.pid = c.pid])
       /\ GoodEntry([r EXCEPT !.last = now])
  BY <1>3, <1>4, <1>7, <1>9, TimeIsGood
<1>12. /\ GoodEntry(Without(r, "stopped")) /\ GoodEntry(Without(r, "failed"))
       /\ GoodEntry([r EXCEPT !.status = "migrating"])
       /\ GoodEntry(WithClaim(r, n, s.gen, "stopped"))
       /\ GoodEntry(WithClaim(r, c.from, g, "remote"))
       /\ GoodEntry(WithClaim(r, n, o.gen, "stopped"))
       /\ GoodEntry(WithClaim(r, o.owner, o.gen, "remote"))
       /\ GoodEntry([r EXCEPT !.owner = o.owner, !.gen = o.gen])
  BY <1>1, <1>4, <1>7, <1>9, OwnershipIsGood
<1>13. /\ GoodEntry(WithSnapshot(WithClaim(r, n, s.gen, "stopped"), s))
       /\ GoodEntry(WithSnapshot(WithClaim(r, o.owner, o.gen, "remote"), o))
       /\ GoodEntry(WithSnapshot([r EXCEPT !.owner = o.owner, !.gen = o.gen], o))
  BY <1>7, <1>12, SnapshotIsGood
<1> QED BY <1>8, <1>10, <1>11, <1>12, <1>13

-------------------------------------------------------------------------------
(* The steps of a thread.  Those that go on with another list, or that write an
   entry or a request with it: *)
LEMMA ContinuesQuietly ==
  ASSUME AccountInv, NEW t \in Threads, NEW list, Continues(t, list),
         EntryWritten(t), OneRequest, UNCHANGED <<now, file, done>>, process' \in Process
  PROVE  Quiet(t)
<1>1. OneCall(t) BY ContinuesIsGood
<1> QED BY <1>1 DEF Quiet, AccountInv, AccountsTyped

LEMMA BeginQuietly ==
  ASSUME AccountInv, NEW t \in Threads, BeginOperation(t) PROVE Quiet(t)
<1>1. t[1] \in AccountingNodes BY ThreadParts
<1>2. GoodEntry(NewEntry) BY InitialValues DEF AccountInv, AccountsTyped
<1>3. \A list : Operates(t, list) => Quiet(t)
  BY <1>1, <1>2, BeginsIsGood DEF Operates, OneRequest
<1>4. ASSUME Pause(t) PROVE Quiet(t)
  BY <1>1, <1>2, <1>4, BeginsIsGood DEF Pause, OneRequest
<1>5. ASSUME NEW m \in AccountingNodes, Hear(t, m) PROVE Quiet(t)
  BY <1>1, <1>5, RecordIsGood, BeginsIsGood DEF Hear, OneRequest
<1>6. ASSUME NEW m \in AccountingNodes, Migrate(t, m) PROVE Quiet(t)
  <2> DEFINE q == [NoRequest EXCEPT !.to = m]
  <2>1. GoodRequest(q)
    BY InitialValues DEF AccountInv, AccountsTyped, GoodRequest, RequestBy
  <2>2. request' = [request EXCEPT ![t[1]] = q] BY <1>6 DEF Migrate
  <2> HIDE DEF q
  <2>3. OneRequest BY <1>1, <2>1, <2>2 DEF OneRequest
  <2>4. GoodEntry(record[t[1]]) BY <1>1, RecordIsGood
  <2>5. \E list : Begins(t, "source", m, list, record[t[1]]) BY <1>6 DEF Migrate
  <2> QED BY <2>3, <2>4, <2>5, BeginsIsGood
<1>7. ASSUME NEW m \in AccountingNodes, ActivateIncoming(t, m) PROVE Quiet(t)
  <2> DEFINE q == [request[m] EXCEPT !.answer = "taken"]
  <2>1. GoodRequest(request[m]) BY RecordIsGood
  <2>2. GoodRequest(q) BY <2>1 DEF GoodRequest, RequestBy
  <2>3. request' = [request EXCEPT ![m] = q]
    BY <1>7 DEF ActivateIncoming, AccountInv, AccountsTyped
  <2> HIDE DEF q
  <2>4. OneRequest BY <2>2, <2>3 DEF OneRequest
  <2>5. GoodEntry(record[t[1]]) BY <1>1, RecordIsGood
  <2>6. \E list : Begins(t, "destination", m, list, record[t[1]]) BY <1>7 DEF ActivateIncoming
  <2> QED BY <2>4, <2>5, <2>6, BeginsIsGood
<1> QED
  BY <1>3, <1>4, <1>5, <1>6, <1>7
     DEF BeginOperation, Settle, Resume, Stop, Start, ReconcileProcess

(* Some value of everything that a call holds. *)
LEMMA SomeParts ==
  ASSUME AccountInv, NEW t \in Threads
  PROVE  NothingNew \in ProgressBy(now) /\ KnownMark(NothingNew) /\ GoodEntry(call[t].copy)
<1>1. GoodCall(NoCall) /\ NoCall.progress = NothingNew
  BY InitialValues DEF AccountInv, AccountsTyped, NoCall
<1> QED BY <1>1, CallIsGood DEF GoodCall, CallBy

LEMMA ReadyIsGood ==
  ASSUME AccountInv, NEW t \in Threads, Ready(t) PROVE OneCall(t)
<1>1. GoodCall([call[t] EXCEPT !.stage = "ready"]) BY SomeParts, StageIsGood
<1> QED BY <1>1, ReachesIsGood DEF Ready

LEMMA ProcessKept ==
  ASSUME AccountInv, NEW t \in Threads
  PROVE  /\ UNCHANGED process => process' \in Process
         /\ Does("frozen") \/ Does("runs") \/ Does("gone") => process' \in Process
BY DEF AccountInv, AccountsTyped, Process, Does

LEMMA ReadsQuietly == ASSUME AccountInv, NEW t \in Threads, Reads(t) PROVE Quiet(t)
<1>1. t[1] \in AccountingNodes BY ThreadParts
<1>2. RunTime(t[1], call[t].wall) \in Nat
  <2>1. call[t].wall \in Int /\ record[t[1]].last \in Int
    BY <1>1 DEF AccountInv, AccountsTyped, CallBy, EntryBy, TimeBy, Never
  <2> QED BY <2>1 DEF RunTime
<1>3. PICK run \in Nat : run = RunTime(t[1], call[t].wall) BY <1>2
<1>4. PICK c : c = [call[t] EXCEPT !.stage = "found", !.run = run] OBVIOUS
<1>5. OneCall(t)
  <2>1. GoodCall(c) BY <1>4, SomeParts, StageIsGood
  <2>2. Reaches(t, c) \/ Continues(t, Tail(ahead[t])) BY <1>3, <1>4 DEF Reads
  <2> QED BY <2>1, <2>2, ReachesIsGood, ContinuesIsGood
<1>6. UNCHANGED <<now, file, record, process, done, request>> BY DEF Reads, outside
<1> QED BY <1>5, <1>6 DEF Quiet, EntryWritten, OneRequest, AccountInv, AccountsTyped

LEMMA ObservesQuietly == ASSUME AccountInv, NEW t \in Threads, Observes(t) PROVE Quiet(t)
<1>1. PICK p : p = Progress(record[t[1]], file[t[1]]) OBVIOUS
<1>2. p \in ProgressBy(now) /\ KnownMark(p) BY <1>1, ThreadParts, ProgressIsGood
<1>3. PICK c : c = [call[t] EXCEPT !.stage = "ready", !.progress = p] OBVIOUS
<1>4. OneCall(t)
  <2>1. GoodCall(c) BY <1>2, <1>3, SomeParts, StageIsGood
  <2>2. Reaches(t, c) BY <1>1, <1>3 DEF Observes
  <2> QED BY <2>1, <2>2, ReachesIsGood
<1>5. UNCHANGED <<now, file, record, process, done, request>> BY DEF Observes, outside
<1> QED BY <1>4, <1>5 DEF Quiet, EntryWritten, OneRequest, AccountInv, AccountsTyped

LEMMA SignalsQuietly ==
  ASSUME AccountInv, NEW t \in Threads, Freeze(t) \/ Thaw(t) \/ Kill(t) PROVE Quiet(t)
<1>1. OneCall(t) BY ReadyIsGood, ContinuesIsGood DEF Freeze, Thaw, Kill
<1>2. process' \in Process BY ProcessKept DEF Freeze, Thaw, Kill
<1>3. UNCHANGED <<now, file, record, done, request>> BY DEF Freeze, Thaw, Kill, outside
<1> QED BY <1>1, <1>2, <1>3 DEF Quiet, EntryWritten, OneRequest, AccountInv, AccountsTyped

LEMMA LaunchesQuietly ==
  ASSUME AccountInv, NEW t \in Threads, NEW u \in 0 .. MaxSpeed * MaxTime, Launch(t, u)
  PROVE  Quiet(t)
<1>1. PICK pid \in Nat : pid = process.pid + 1 BY DEF AccountInv, AccountsTyped, Process
<1>2. PICK c : c = [call[t] EXCEPT !.stage = "ready", !.pid = pid] OBVIOUS
<1>3. OneCall(t)
  <2>1. GoodCall(c) BY <1>2, SomeParts, StageIsGood
  <2>2. Reaches(t, c) BY <1>1, <1>2 DEF Launch
  <2> QED BY <2>1, <2>2, ReachesIsGood
<1>4. process' \in Process
  <2>1. process' = [node |-> t[1], pid |-> pid, does |-> "runs"] BY <1>1 DEF Launch
  <2> QED BY <2>1, ThreadParts DEF Process
<1>5. done' \in Nat /\ done' <= done
  <2>1. u \in Nat
    <3>1. MaxSpeed * MaxTime \in Nat OBVIOUS
    <3> QED BY <3>1
  <2> QED BY <2>1 DEF Launch
<1>6. UNCHANGED <<now, file, record, request>> BY DEF Launch, outside
<1> QED BY <1>3, <1>4, <1>5, <1>6 DEF Quiet, EntryWritten, OneRequest

LEMMA LoadsQuietly == ASSUME AccountInv, NEW t \in Threads, Load(t) \/ NoLaunch(t) PROVE Quiet(t)
<1>1. PICK r : r = record[t[1]] OBVIOUS
<1>2. GoodEntry(r) BY <1>1, ThreadParts, RecordIsGood
<1>3. PICK c : c = [call[t] EXCEPT !.stage = "holds", !.copy = r] OBVIOUS
<1>4. OneCall(t)
  <2>1. GoodCall(c) BY <1>2, <1>3, SomeParts, StageIsGood
  <2>2. CASE Load(t)
    <3>1. Reaches(t, c) \/ \E list \in Raised(t) : Continues(t, list) BY <1>1, <1>3, <2>2 DEF Load
    <3> QED BY <2>1, <3>1, ReachesIsGood, ContinuesIsGood
  <2>3. CASE NoLaunch(t)
    <3>1. Continues(t, Tail(ahead[t])) \/ \E list \in Raised(t) : Continues(t, list)
      BY <2>3 DEF NoLaunch
    <3> QED BY <3>1, ContinuesIsGood
  <2> QED BY <2>2, <2>3
<1>5. UNCHANGED <<now, file, record, process, done, request>> BY DEF Load, NoLaunch, outside
<1> QED BY <1>4, <1>5 DEF Quiet, EntryWritten, OneRequest, AccountInv, AccountsTyped

LEMMA SavesQuietly == ASSUME AccountInv, NEW t \in Threads, Save(t) \/ Reset(t) PROVE Quiet(t)
<1>1. GoodEntry(call[t].other) BY CallIsGood
<1>2. GoodEntry(Without(call[t].other, "stopped"))
  BY <1>1, OwnershipIsGood, ThreadParts DEF Statuses
<1>3. GoodEntry(Update(t)) BY UpdateIsGood
<1>4. EntryWritten(t) BY <1>1, <1>2, <1>3 DEF Save, Reset, Put, EntryWritten
<1>5. UNCHANGED <<now, file, process, done, request>> BY DEF Save, Reset, outside
<1>6. OneRequest BY <1>5 DEF OneRequest
<1>7. process' \in Process BY <1>5, ProcessKept
<1>8. PICK list : Continues(t, list) BY DEF Save, Reset
<1> QED BY <1>4, <1>5, <1>6, <1>7, <1>8, ContinuesQuietly

LEMMA MovesQuietly ==
  ASSUME AccountInv, NEW t \in Threads,
         TransferFails(t) \/ SendActivation(t) \/ AnswerActivation(t) \/ HearOutcome(t)
  PROVE  Quiet(t)
<1>1. t[1] \in AccountingNodes /\ call[t].from \in AccountingNodes
  BY ThreadParts DEF AccountInv, AccountsTyped, CallBy
<1>2. GoodRequest(NoRequest) BY InitialValues DEF AccountInv, AccountsTyped
<1>3. UNCHANGED <<now, file, record, process, done>>
  BY DEF TransferFails, SendActivation, AnswerActivation, HearOutcome, outside
<1>4. PICK list : Continues(t, list)
  BY DEF TransferFails, SendActivation, AnswerActivation, HearOutcome
<1>5. OneRequest
  <2>1. CASE SendActivation(t)
    <3>1. PICK gen \in Nat : gen = call[t].other.gen + 1
      BY DEF AccountInv, AccountsTyped, CallBy, EntryBy
    <3>2. PICK r : r = [record[t[1]] EXCEPT !.gen = gen] OBVIOUS
    <3>3. GoodEntry(r) BY <1>1, <3>2, RecordIsGood DEF GoodEntry, EntryBy, KnownMark
    <3>4. PICK q : q = [request[t[1]] EXCEPT !.answer = "sent", !.snapshot = r] OBVIOUS
    <3>5. GoodRequest(q)
      <4>1. r \in EntryBy(now) /\ KnownMark(r) BY <3>3 DEF GoodEntry
      <4>2. request[t[1]] \in RequestBy(now) BY <1>1 DEF AccountInv, AccountsTyped
      <4>3. q \in RequestBy(now) /\ q.snapshot = r BY <3>4, <4>1, <4>2 DEF RequestBy
      <4> QED BY <4>1, <4>3 DEF GoodRequest
    <3>6. request' = [request EXCEPT ![t[1]] = q]
      BY <1>1, <2>1, <3>1, <3>2, <3>4 DEF SendActivation, AccountInv, AccountsTyped
    <3> QED BY <1>1, <3>5, <3>6 DEF OneRequest
  <2>2. CASE AnswerActivation(t)
    <3>1. CASE UNCHANGED request BY <3>1 DEF OneRequest
    <3>2. ASSUME NEW a \in {"activated", "refused"},
                 request' = [request EXCEPT ![call[t].from] = [NoRequest EXCEPT !.answer = a]]
          PROVE  OneRequest
      <4>1. PICK q : q = [NoRequest EXCEPT !.answer = a] OBVIOUS
      <4>2. GoodRequest(q) BY <1>2, <4>1 DEF GoodRequest, RequestBy
      <4> QED BY <1>1, <3>2, <4>1, <4>2 DEF OneRequest
    <3> QED BY <2>2, <3>1, <3>2 DEF AnswerActivation, Doing
  <2>3. CASE HearOutcome(t) BY <1>1, <1>2, <2>3 DEF HearOutcome, OneRequest
  <2>4. CASE TransferFails(t) BY <2>4 DEF TransferFails, OneRequest
  <2> QED BY <2>1, <2>2, <2>3, <2>4
<1>6. EntryWritten(t) /\ process' \in Process BY <1>3, ProcessKept DEF EntryWritten
<1> QED BY <1>3, <1>4, <1>5, <1>6, ContinuesQuietly

LEMMA TakesQuietly == ASSUME AccountInv, NEW t \in Threads, TakeStep(t) PROVE Quiet(t)
BY ReadsQuietly, ObservesQuietly, SignalsQuietly, LaunchesQuietly, LoadsQuietly, SavesQuietly,
   MovesQuietly DEF TakeStep

-------------------------------------------------------------------------------
(* Time.  What was said by now was said by later, and the one new mark, that of
   the process, is as far from the others as it can have worked. *)
LEMMA LaterTypes ==
  ASSUME NEW a \in Nat, NEW b \in Nat, a <= b
  PROVE  /\ EntryBy(a) \subseteq EntryBy(b) /\ FileBy(a) \subseteq FileBy(b)
         /\ CallBy(a) \subseteq CallBy(b) /\ RequestBy(a) \subseteq RequestBy(b)
<1>1. TimeBy(a) \subseteq TimeBy(b) /\ 0 .. a \subseteq 0 .. b BY DEF TimeBy, Never
<1>2. EntryBy(a) \subseteq EntryBy(b) BY <1>1 DEF EntryBy
<1>3. FileBy(a) \subseteq FileBy(b) /\ ProgressBy(a) \subseteq ProgressBy(b)
  BY <1>1 DEF FileBy, ProgressBy
<1>4. CallBy(a) \subseteq CallBy(b) BY <1>1, <1>2, <1>3 DEF CallBy
<1>5. RequestBy(a) \subseteq RequestBy(b) BY <1>2 DEF RequestBy
<1> QED BY <1>2, <1>3, <1>4, <1>5

LEMMA TickTypes ==
  ASSUME AccountInv, NEW n \in 0 .. MaxSpeed, Tick(n)
  PROVE  AccountsTyped' /\ n \in Nat /\ done' = done + n /\ now' = now + 1
<1>1. now \in Nat /\ done \in Nat /\ n \in Nat BY DEF AccountInv, AccountsTyped
<1>2. now' = now + 1 /\ now' \in Nat /\ now <= now' /\ now' \in 0 .. MaxTime BY <1>1 DEF Tick
<1>3. done' = done + n /\ done' \in Nat BY <1>1 DEF Tick
<1>4. PICK e : e = [units |-> done', at |-> now'] OBVIOUS
<1>5. e \in FileBy(now') BY <1>2, <1>3, <1>4 DEF FileBy, TimeBy, Never
<1>6. process.node \in AccountingNodes BY DEF AccountInv, AccountsTyped, Process
<1>7. file' = file \/ file' = [file EXCEPT ![process.node] = e] BY <1>4 DEF Tick
<1>8. file \in [AccountingNodes -> FileBy(now')] BY <1>1, <1>2, LaterTypes DEF AccountInv, AccountsTyped
<1>9. file' \in [AccountingNodes -> FileBy(now')] BY <1>5, <1>6, <1>7, <1>8
<1>10. UNCHANGED <<record, call, request, process>> BY DEF Tick
<1>11. /\ record' \in [AccountingNodes -> EntryBy(now')] /\ call' \in [Threads -> CallBy(now')]
       /\ request' \in [AccountingNodes -> RequestBy(now')]
  BY <1>1, <1>2, <1>10, LaterTypes DEF AccountInv, AccountsTyped
<1>12. process' \in Process BY <1>10 DEF AccountInv, AccountsTyped
<1> QED BY <1>1, <1>2, <1>3, <1>9, <1>11, <1>12
  DEF AccountsTyped, EntryBy, CallBy, RequestBy, ProgressBy, FileBy, TimeBy

LEMMA TickMarks ==
  ASSUME AccountInv, NEW n \in 0 .. MaxSpeed, Tick(n), NEW u \in Nat, NEW s \in Nat, Mark(u, s)'
  PROVE  Mark(u, s) \/ (u = done' /\ s = now')
<1>1. record' = record /\ call' = call /\ request' = request BY DEF Tick
<1>2. \A k \in AccountingNodes : file'[k] = file[k] \/ (file'[k].units = done' /\ file'[k].at = now')
  BY DEF Tick, AccountInv, AccountsTyped
<1> QED BY <1>1, <1>2 DEF Mark, Says

LEMMA MoreWork ==
  ASSUME NEW d \in Int, NEW u \in Int, NEW n \in Int, NEW s \in Int, NEW t \in Int,
         n <= MaxSpeed, d - u <= MaxSpeed * (t - s)
  PROVE  d + n - u <= MaxSpeed * (t + 1 - s)
<1>1. PICK e \in Int : e = t - s OBVIOUS
<1>2. t + 1 - s = e + 1 BY <1>1
<1>3. PICK w \in Int : w = MaxSpeed * e OBVIOUS
<1>4. MaxSpeed * (e + 1) = w + MaxSpeed BY <1>3
<1>5. d - u <= w BY <1>1, <1>3
<1>6. d + n - u <= w + MaxSpeed BY <1>5
<1> QED BY <1>2, <1>4, <1>6

LEMMA TickStep ==
  ASSUME AccountInv, NEW n \in 0 .. MaxSpeed, Tick(n) PROVE AccountInv'
<1>1. AccountsTyped' /\ n \in Nat /\ done' = done + n /\ now' = now + 1 BY TickTypes
<1>2. now \in Int /\ done \in Int /\ n \in Int /\ n <= MaxSpeed /\ now' \in Int /\ done' \in Int
  BY <1>1 DEF AccountInv, AccountsTyped
<1>3. ASSUME NEW u \in Nat, NEW s \in Nat, Mark(u, s)
      PROVE  s < now' /\ Apart(u, s, done', now')
  <2>1. s <= now /\ done - u <= MaxSpeed * (now - s) BY <1>3 DEF AccountInv, MarksInv, Apart
  <2>2. done + n - u <= MaxSpeed * (now + 1 - s) BY <1>2, <2>1, MoreWork
  <2> QED BY <1>1, <1>2, <2>1, <2>2 DEF Apart
<1>4. Apart(done', now', done', now') /\ now' <= now'
  <2>1. PICK d, e \in Int : d = done' /\ e = now' BY <1>2
  <2>2. Apart(d, e, d, e) /\ e <= e BY DEF Apart
  <2> QED BY <2>1, <2>2
<1>5. ASSUME NEW u \in Nat, NEW s \in Nat, Mark(u, s)' PROVE s <= now' /\ Apart(u, s, done', now')
  <2>1. CASE Mark(u, s)
    <3>1. s < now' /\ Apart(u, s, done', now') BY <1>3, <2>1
    <3> QED BY <1>2, <3>1
  <2>2. CASE u = done' /\ s = now' BY <1>4, <2>2
  <2> QED BY <1>5, <2>1, <2>2, TickMarks
<1>6. ASSUME NEW u \in Nat, NEW v \in Nat, NEW s \in Nat, NEW t \in Nat,
             Mark(u, s)', Mark(v, t)', s < t
      PROVE  Apart(u, s, v, t)
  <2>1. Mark(v, t) \/ (v = done' /\ t = now') BY <1>6, TickMarks
  <2>2. Mark(u, s) \/ (u = done' /\ s = now') BY <1>6, TickMarks
  <2>3. t <= now' BY <1>5, <1>6
  <2>4. s # now' BY <1>2, <1>6, <2>3
  <2>5. Mark(u, s) BY <2>2, <2>4
  <2>6. CASE Mark(v, t) BY <1>6, <2>5, <2>6 DEF AccountInv, MarksInv
  <2>7. CASE v = done' /\ t = now' BY <1>3, <2>5, <2>7
  <2> QED BY <2>1, <2>6, <2>7
<1>7. MarksInv' BY <1>5, <1>6 DEF MarksInv, Apart
<1> QED BY <1>1, <1>7 DEF AccountInv

-------------------------------------------------------------------------------
LEMMA DieStep == ASSUME AccountInv, Die PROVE AccountInv'
<1>1. process' \in Process BY DEF Die, Does, AccountInv, AccountsTyped, Process
<1>2. UNCHANGED <<now, done, record, file, call, request>> BY DEF Die, outside
<1>3. AccountsTyped' BY <1>1, <1>2 DEF AccountInv, AccountsTyped
<1>4. \A u, s : Mark(u, s)' <=> Mark(u, s) BY <1>2 DEF Mark, Says
<1>5. MarksInv' BY <1>2, <1>4 DEF AccountInv, MarksInv, Apart
<1> QED BY <1>3, <1>5 DEF AccountInv

LEMMA StillStep == ASSUME AccountInv, UNCHANGED accountVars PROVE AccountInv'
<1>1. UNCHANGED <<now, done, record, file, call, request, process>> BY DEF accountVars
<1>2. AccountsTyped' BY <1>1 DEF AccountInv, AccountsTyped
<1>3. \A u, s : Mark(u, s)' <=> Mark(u, s) BY <1>1 DEF Mark, Says
<1>4. MarksInv' BY <1>1, <1>3 DEF AccountInv, MarksInv, Apart
<1> QED BY <1>2, <1>4 DEF AccountInv

LEMMA AccountStarts == ASSUME AccountInit PROVE AccountInv
<1>1. now = 0 /\ done = 0 /\ now \in 0 .. MaxTime BY DEF AccountInit
<1>2. GoodEntry(NewEntry) /\ GoodCall(NoCall) /\ GoodRequest(NoRequest) BY <1>1, InitialValues
<1>3. \A status \in Statuses : [NewEntry EXCEPT !.status = status] \in EntryBy(now)
                               /\ [NewEntry EXCEPT !.status = status].at = Never
  BY <1>2 DEF GoodEntry, EntryBy, NewEntry
<1>4. record \in [AccountingNodes -> EntryBy(now)] /\ \A n \in AccountingNodes : record[n].at = Never
  <2>1. \A n \in AccountingNodes :
          record[n] \in EntryBy(now) /\ record[n].at = Never
    BY <1>3 DEF AccountInit, Statuses
  <2> QED BY <2>1 DEF AccountInit
<1>5. file \in [AccountingNodes -> FileBy(now)] /\ \A n \in AccountingNodes : file[n].at = Never
  BY <1>1 DEF AccountInit, FileBy, TimeBy, Never
<1>6. call = [t \in Threads |-> NoCall] /\ request = [n \in AccountingNodes |-> NoRequest]
  BY DEF AccountInit
<1>7. call \in [Threads -> CallBy(now)] /\ request \in [AccountingNodes -> RequestBy(now)]
  BY <1>2, <1>6 DEF GoodCall, GoodRequest
<1>8. process \in Process BY DEF AccountInit, Process, NoProcess
<1>9. AccountsTyped BY <1>1, <1>4, <1>5, <1>7, <1>8 DEF AccountsTyped
<1>10. /\ NoCall.copy.at = Never /\ NoCall.other.at = Never /\ NoCall.progress.at = Never
       /\ NoRequest.snapshot.at = Never
  BY DEF NoCall, NoRequest, NewEntry, NothingNew
<1>11. \A u, s \in Nat : ~Mark(u, s) BY <1>4, <1>5, <1>6, <1>10 DEF Mark, Says, Never
<1>12. MarksInv BY <1>11 DEF MarksInv
<1> QED BY <1>9, <1>12 DEF AccountInv

LEMMA AccountStep == ASSUME AccountInv, [AccountNext]_accountVars PROVE AccountInv'
<1>1. ASSUME NEW t \in Threads, BeginOperation(t) PROVE AccountInv' BY <1>1, BeginQuietly, QuietKeepsAccounts
<1>2. ASSUME NEW t \in Threads, TakeStep(t) PROVE AccountInv' BY <1>2, TakesQuietly, QuietKeepsAccounts
<1> QED BY <1>1, <1>2, DieStep, TickStep, StillStep DEF AccountNext

LEMMA AccountAlways == AccountSpec => []AccountInv
<1>1. AccountInit => AccountInv BY AccountStarts
<1>2. AccountInv /\ [AccountNext]_accountVars => AccountInv' BY AccountStep
<1> QED BY <1>1, <1>2, PTL DEF AccountSpec

(* The rate that _progress_update computes from the progress file and the entry
   it read, and that record_accounting writes into the entry it reads later, is
   one the task could have.  It stays so although set_state writes back whole
   entries over what other threads of the node wrote since they were loaded
   (persistent_registry.py), although a task restarts from older checkpoints,
   and although its accounts move with it, come back with a rollback, or are
   applied from a peer's snapshot. *)
THEOREM RatesArePossible == AccountSpec => []RateIsPossible
<1>1. AccountInv => RateIsPossible
  BY MaxRateIsNat DEF AccountInv, AccountsTyped, EntryBy, Rates, MaxRate, RateIsPossible
<1> QED BY <1>1, AccountAlways, PTL

(* The fields of TaskRuntimeState that the operations above read and write keep
   their types. *)
THEOREM AccountsAreTyped == AccountSpec => []AccountTypeOK
<1>1. AccountInv => AccountTypeOK
  <2> SUFFICES ASSUME AccountInv PROVE AccountTypeOK OBVIOUS
  <2>1. now \in 0 .. MaxTime BY DEF AccountInv, AccountsTyped
  <2>2. TimeBy(now) \subseteq Never .. MaxTime BY <2>1 DEF TimeBy, Never
  <2>3. \A n \in AccountingNodes : record[n] \in EntryBy(now) BY DEF AccountInv, AccountsTyped
  <2>4. \A n \in AccountingNodes :
          /\ record[n].owner \in AccountingNodes /\ record[n].gen \in Nat
          /\ record[n].status \in {"stopped", "running", "paused", "failed", "migrating", "remote"}
          /\ record[n].last \in Never .. MaxTime /\ record[n].at \in Never .. MaxTime
          /\ record[n].ran \in Nat /\ record[n].units \in Nat /\ record[n].rate \in Nat
    BY <2>2, <2>3, MaxRateIsNat DEF EntryBy, Statuses, Rates
  <2>5. /\ process.node \in AccountingNodes /\ process.does \in {"runs", "frozen", "gone"}
        /\ \A t \in Threads : call[t].stage \in {"next", "found", "ready", "holds"}
    BY DEF AccountInv, AccountsTyped, Process, CallBy
  <2> QED BY <2>1, <2>4, <2>5 DEF AccountTypeOK
<1> QED BY <1>1, AccountAlways, PTL
===============================================================================
