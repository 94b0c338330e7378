---------------------------- MODULE BidMarket_proofs ---------------------------
(***************************************************************************)
(* For all tasks, bids, nodes and policies: a bid is decided once.  For    *)
(* any finite number of tasks and bids: capacity is promised once, an      *)
(* auction is fair, and credit is for those who lost one.                  *)
(*                                                                         *)
(* The middle of the module is about sums over finite sets: what the tasks *)
(* need that leases and commits let in is such a sum, and a step adds one  *)
(* term to it or takes some away.                                          *)
(***************************************************************************)
EXTENDS BidMarket, FiniteSetTheorems, TLAPS

Bidder == {"new", "waiting", "holding", "gone"}
Activation == {"none", "begun", "claimed", "running"}

RecordsType ==
    /\ status \in [Bids -> Status]
    /\ bidder \in [Bids -> Bidder]
    /\ activation \in [Bids -> Activation]
    /\ auction = [on |-> auction.on, todo |-> auction.todo, accepted |-> auction.accepted,
                  lost |-> auction.lost, credits |-> auction.credits, ledger |-> auction.ledger]

(* Only a bidder that has not come yet has no record. *)
RecordForEveryBidder ==
    \A b \in Bids : /\ status[b] = "none" <=> bidder[b] = "new"
                    /\ bidder[b] = "new" => activation[b] = "none"

(* What an auction has read as pending is pending until it is decided. *)
TodoIsPending == auction.on => \A b \in Bids : b \in auction.todo => status[b] = "pending"

MarketInv == RecordsType /\ RecordForEveryBidder /\ TodoIsPending

StatusStep == \A b \in Bids : status'[b] # status[b] => status'[b] \in Successors[status[b]]

LEMMA SuccessorsOf ==
    /\ Successors["none"] = {"pending"}
    /\ Successors["pending"] = {"accepted", "rejected", "cancelled"}
    /\ Successors["accepted"] = {"activating", "cancelled", "expired"}
    /\ Successors["activating"] = {"consumed", "cancelled", "expired"}
BY DEF Successors, Status

LEMMA ExpiredStatus ==
  ASSUME status \in [Bids -> Status]
  PROVE  /\ Expired(status) \in [Bids -> Status]
         /\ \A b \in Bids :
              \/ Expired(status)[b] = status[b]
              \/ status[b] \in {"accepted", "activating"} /\ Expired(status)[b] = "expired"
BY DEF Expired, Active, Status

LEMMA CancelledStatus ==
  ASSUME status \in [Bids -> Status], NEW b \in Bids, status[b] # "none"
  PROVE  /\ Cancelled(status, b) \in [Bids -> Status]
         /\ \A c \in Bids :
              \/ Cancelled(status, b)[c] = status[c]
              \/ /\ status[c] \in {"pending", "accepted", "activating"}
                 /\ Cancelled(status, b)[c] = "cancelled"
BY DEF Cancelled, Final, Status

(* A step outside an auction that takes records as far as the store lets it. *)
LEMMA StoreStep ==
  ASSUME MarketInv, status' \in [Bids -> Status], bidder' \in [Bids -> Bidder],
         activation' \in [Bids -> Activation],
         auction' = auction, ~auction.on \/ status' = status,
         \A b \in Bids :
           \/ status'[b] = status[b]
           \/ /\ status[b] \in {"pending", "accepted", "activating"}
              /\ status'[b] \in {"activating", "consumed", "cancelled", "expired"}
              /\ status'[b] \in Successors[status[b]],
         \A b \in Bids :
           /\ bidder[b] = "new" <=> bidder'[b] = "new"
           /\ bidder[b] = "new" => activation'[b] = "none"
  PROVE  MarketInv' /\ StatusStep
<1>1. RecordsType' BY DEF MarketInv, RecordsType
<1>2. RecordForEveryBidder' BY DEF MarketInv, RecordForEveryBidder
<1>3. TodoIsPending' BY DEF MarketInv, TodoIsPending
<1>4. StatusStep BY DEF StatusStep
<1> QED BY <1>1, <1>2, <1>3, <1>4 DEF MarketInv

LEMMA MarketStep == MarketInv /\ [Next]_vars => MarketInv' /\ StatusStep
<1> SUFFICES ASSUME MarketInv, [Next]_vars PROVE MarketInv' /\ StatusStep
  OBVIOUS
<1> USE SuccessorsOf
<1>0. /\ status \in [Bids -> Status] /\ bidder \in [Bids -> Bidder]
      /\ activation \in [Bids -> Activation]
      /\ RecordForEveryBidder /\ TodoIsPending
  BY DEF MarketInv, RecordsType
<1>e. /\ Expired(status) \in [Bids -> Status]
      /\ \A b \in Bids :
           \/ Expired(status)[b] = status[b]
           \/ status[b] \in {"accepted", "activating"} /\ Expired(status)[b] = "expired"
  BY <1>0, ExpiredStatus
<1>1. ASSUME NEW b \in Bids, Submit(b) PROVE MarketInv' /\ StatusStep
  <2>1. /\ status' = [status EXCEPT ![b] = "pending"] /\ status[b] = "none"
        /\ \E next \in {"waiting", "gone"} : bidder' = [bidder EXCEPT ![b] = next]
        /\ activation' = activation /\ auction' = auction /\ ~auction.on
    BY <1>0, <1>1 DEF Submit, Awake, RecordForEveryBidder
  <2>2. RecordsType' BY <1>0, <2>1 DEF MarketInv, RecordsType, Bidder, Status
  <2>3. RecordForEveryBidder' BY <1>0, <2>1 DEF RecordForEveryBidder
  <2>4. TodoIsPending' BY <2>1 DEF TodoIsPending
  <2>5. StatusStep BY <1>0, <2>1 DEF StatusStep
  <2> QED BY <2>2, <2>3, <2>4, <2>5 DEF MarketInv
<1>2. ASSUME NEW b \in Bids, Poll(b) PROVE MarketInv' /\ StatusStep
  <2>1. /\ status' = Expired(status) /\ auction' = auction /\ ~auction.on
        /\ activation' = activation /\ bidder[b] = "waiting"
    BY <1>2 DEF Poll, Awake
  <2>2. \E next \in {"waiting", "holding", "gone"} : bidder' = [bidder EXCEPT ![b] = next]
    BY <1>2 DEF Poll
  <2>3. bidder' \in [Bids -> Bidder] BY <1>0, <2>2 DEF Bidder
  <2>4. \A c \in Bids : bidder[c] = "new" <=> bidder'[c] = "new" BY <1>0, <2>1, <2>2
  <2> QED BY <1>0, <1>e, <2>1, <2>3, <2>4, StoreStep DEF RecordForEveryBidder
<1>3. ASSUME NEW b \in Bids, GiveUp(b) PROVE MarketInv' /\ StatusStep
  <2>1. /\ bidder[b] = "waiting" /\ bidder' = [bidder EXCEPT ![b] = "gone"]
        /\ UNCHANGED <<status, activation, auction>>
    BY <1>3 DEF GiveUp, store
  <2>2. bidder' \in [Bids -> Bidder] BY <1>0, <2>1 DEF Bidder
  <2>3. \A c \in Bids : bidder[c] = "new" <=> bidder'[c] = "new" BY <1>0, <2>1
  <2> QED BY <1>0, <2>1, <2>2, <2>3, StoreStep DEF RecordForEveryBidder
<1>4. ASSUME NEW b \in Bids, Renew(b) PROVE MarketInv' /\ StatusStep
  <2>1. status' = Expired(status) /\ ~auction.on /\ UNCHANGED <<bidder, activation, auction>>
    BY <1>4 DEF Renew, Awake
  <2> QED BY <1>0, <1>e, <2>1, StoreStep DEF RecordForEveryBidder
<1>5. ASSUME NEW b \in Bids, Release(b) PROVE MarketInv' /\ StatusStep
  <2>1. /\ bidder[b] = "holding" /\ bidder' = [bidder EXCEPT ![b] = "gone"]
        /\ ~auction.on /\ UNCHANGED <<activation, auction>>
        /\ status' = status \/ status' = Cancelled(status, b)
    BY <1>5 DEF Release, Awake
  <2>2. status[b] # "none" BY <1>0, <2>1 DEF RecordForEveryBidder
  <2>3. bidder' \in [Bids -> Bidder] BY <1>0, <2>1 DEF Bidder
  <2>4. \A c \in Bids : bidder[c] = "new" <=> bidder'[c] = "new" BY <1>0, <2>1
  <2> QED BY <1>0, <2>1, <2>2, <2>3, <2>4, CancelledStatus, StoreStep DEF RecordForEveryBidder
<1>6. ASSUME NEW b \in Bids, BeginActivation(b) PROVE MarketInv' /\ StatusStep
  <2>1. /\ bidder[b] # "new" /\ ~auction.on /\ UNCHANGED <<bidder, auction>>
        /\ Expired(status)[b] = "accepted"
        /\ status' = [Expired(status) EXCEPT ![b] = "activating"]
        /\ activation' = [activation EXCEPT ![b] = "begun"]
    BY <1>6 DEF BeginActivation, Awake
  <2>2. status[b] = "accepted" BY <1>e, <2>1
  <2>3. status' \in [Bids -> Status] /\ activation' \in [Bids -> Activation]
    BY <1>0, <1>e, <2>1 DEF Status, Activation
  <2>4. \A c \in Bids : bidder[c] = "new" => activation'[c] = "none"
    BY <1>0, <2>1 DEF RecordForEveryBidder
  <2>5. \A c \in Bids :
          \/ status'[c] = status[c]
          \/ /\ status[c] \in {"pending", "accepted", "activating"}
             /\ status'[c] \in {"activating", "consumed", "cancelled", "expired"}
             /\ status'[c] \in Successors[status[c]]
    BY <1>e, <2>1, <2>2
  <2> QED BY <1>0, <2>1, <2>3, <2>4, <2>5, StoreStep
<1>7. ASSUME NEW b \in Bids, Claim(b) \/ Started(b) PROVE MarketInv' /\ StatusStep
  <2>1. /\ activation[b] # "none" /\ UNCHANGED <<status, bidder, auction>>
        /\ \E next \in {"claimed", "running"} : activation' = [activation EXCEPT ![b] = next]
    BY <1>7 DEF Claim, Started, store
  <2>2. activation' \in [Bids -> Activation] BY <1>0, <2>1 DEF Activation
  <2>3. \A c \in Bids : bidder[c] = "new" => activation'[c] = "none"
    BY <1>0, <2>1 DEF RecordForEveryBidder
  <2> QED BY <1>0, <2>1, <2>2, <2>3, StoreStep
<1>8. ASSUME NEW b \in Bids, Consume(b) PROVE MarketInv' /\ StatusStep
  <2>1. /\ ~auction.on /\ UNCHANGED <<bidder, auction>>
        /\ status[b] = "activating" /\ status' = [status EXCEPT ![b] = "consumed"]
        /\ activation' = [activation EXCEPT ![b] = "none"]
    BY <1>8 DEF Consume, Awake
  <2>2. status' \in [Bids -> Status] /\ activation' \in [Bids -> Activation]
    BY <1>0, <2>1 DEF Status, Activation
  <2>3. \A c \in Bids : bidder[c] = "new" => activation'[c] = "none"
    BY <1>0, <2>1 DEF RecordForEveryBidder
  <2> QED BY <1>0, <2>1, <2>2, <2>3, StoreStep
<1>9. ASSUME NEW b \in Bids, Abort(b) PROVE MarketInv' /\ StatusStep
  <2>1. /\ ~auction.on /\ UNCHANGED <<bidder, auction>>
        /\ activation[b] # "none" /\ status' = Cancelled(status, b)
        /\ activation' = [activation EXCEPT ![b] = "none"]
    BY <1>9 DEF Abort, Awake
  <2>2. status[b] # "none" BY <1>0, <2>1 DEF RecordForEveryBidder
  <2>3. activation' \in [Bids -> Activation] BY <1>0, <2>1 DEF Activation
  <2>4. \A c \in Bids : bidder[c] = "new" => activation'[c] = "none"
    BY <1>0, <2>1 DEF RecordForEveryBidder
  <2> QED BY <1>0, <2>1, <2>2, <2>3, <2>4, CancelledStatus, StoreStep
<1>10. CASE UNCHANGED <<status, bidder, activation, auction>>
  BY <1>0, <1>10, StoreStep DEF RecordForEveryBidder
<1>11. ASSUME NEW t \in Tasks, Leave(t) PROVE MarketInv' /\ StatusStep
  BY <1>10, <1>11 DEF Leave, store
<1>12. ASSUME StartAuction PROVE MarketInv' /\ StatusStep
  <2>1. /\ status' = Expired(status) /\ UNCHANGED <<bidder, activation>>
        /\ auction'.todo = InWindow(Expired(status))
        /\ auction' = [on |-> auction'.on, todo |-> auction'.todo,
                       accepted |-> auction'.accepted, lost |-> auction'.lost,
                       credits |-> auction'.credits, ledger |-> auction'.ledger]
    BY <1>12 DEF StartAuction, users
  <2>2. RecordsType' BY <1>0, <1>e, <2>1 DEF RecordsType
  <2>3. RecordForEveryBidder' BY <1>0, <1>e, <2>1 DEF RecordForEveryBidder
  <2>4. TodoIsPending' BY <2>1 DEF TodoIsPending, InWindow, Pending
  <2>5. StatusStep BY <1>e, <2>1 DEF StatusStep
  <2> QED BY <2>2, <2>3, <2>4, <2>5 DEF MarketInv
<1>13. ASSUME ExpireReservations PROVE MarketInv' /\ StatusStep
  <2>1. status' = Expired(status) /\ ~auction.on /\ UNCHANGED <<bidder, activation, auction>>
    BY <1>13 DEF ExpireReservations, Awake, users
  <2> QED BY <1>0, <1>e, <2>1, StoreStep DEF RecordForEveryBidder
<1>14. ASSUME NEW b \in Bids, DecideAccept(b) \/ DecideReject(b) PROVE MarketInv' /\ StatusStep
  <2>1. /\ auction.on /\ b \in auction.todo /\ UNCHANGED <<bidder, activation>>
        /\ \E s \in {"accepted", "rejected"} : status' = [status EXCEPT ![b] = s]
    BY <1>14 DEF DecideAccept, DecideReject, users
  <2>2. /\ auction'.todo = auction.todo \ {b}
        /\ auction' = [on |-> auction'.on, todo |-> auction'.todo,
                       accepted |-> auction'.accepted, lost |-> auction'.lost,
                       credits |-> auction'.credits, ledger |-> auction'.ledger]
    <3>1. auction = [on |-> auction.on, todo |-> auction.todo, accepted |-> auction.accepted,
                     lost |-> auction.lost, credits |-> auction.credits,
                     ledger |-> auction.ledger]
      BY DEF MarketInv, RecordsType
    <3>2. CASE DecideAccept(b) BY <3>1, <3>2 DEF DecideAccept
    <3>3. CASE DecideReject(b) BY <3>1, <3>3 DEF DecideReject
    <3> QED BY <1>14, <3>2, <3>3
  <2>3. status[b] = "pending" BY <1>0, <2>1 DEF TodoIsPending
  <2>4. RecordsType' BY <1>0, <2>1, <2>2 DEF RecordsType, Status
  <2>5. RecordForEveryBidder' BY <1>0, <2>1, <2>3 DEF RecordForEveryBidder
  <2>6. TodoIsPending' BY <1>0, <2>1, <2>2 DEF TodoIsPending
  <2>7. StatusStep BY <1>0, <2>1, <2>3 DEF StatusStep
  <2> QED BY <2>4, <2>5, <2>6, <2>7 DEF MarketInv
<1>15. ASSUME EndAuction \/ Restart PROVE MarketInv' /\ StatusStep
  <2>1. /\ auction' = NoAuction /\ UNCHANGED <<status, bidder, activation>>
    BY <1>15 DEF EndAuction, Restart, users
  <2>2. RecordsType' BY <1>0, <2>1 DEF RecordsType, NoAuction
  <2>3. RecordForEveryBidder' BY <1>0, <2>1 DEF RecordForEveryBidder
  <2>4. TodoIsPending' BY <2>1 DEF TodoIsPending, NoAuction
  <2>5. StatusStep BY <2>1 DEF StatusStep
  <2> QED BY <2>2, <2>3, <2>4, <2>5 DEF MarketInv
<1>16. ASSUME Tick PROVE MarketInv' /\ StatusStep
  BY <1>10, <1>16 DEF Tick, users
<1>17. CASE UNCHANGED vars
  BY <1>10, <1>17 DEF vars
<1> QED
  BY <1>1, <1>2, <1>3, <1>4, <1>5, <1>6, <1>7, <1>8, <1>9, <1>11, <1>12, <1>13, <1>14, <1>15,
     <1>16, <1>17
     DEF Next, Bidders, Activations, Arbiter, Decide

LEMMA MarketInit == Init => MarketInv
BY DEF Init, MarketInv, RecordsType, RecordForEveryBidder, TodoIsPending, NoAuction,
       Status, Bidder, Activation

(* A record of the bid store goes from pending to one decision to one end and
   never back, whatever bidders, activations and the arbiter do and whenever
   the daemon dies in the middle of an auction (bidding/store.py, arbiter.py). *)
THEOREM BidsAreDecidedOnce == Spec => DecidedOnce
<1>1. Init => MarketInv BY MarketInit
<1>2. MarketInv /\ [Next]_vars => MarketInv' /\ [StatusStep]_vars BY MarketStep
<1>3. DecidedOnce <=> [][StatusStep]_vars BY PTL DEF DecidedOnce, StatusStep
<1> QED BY <1>1, <1>2, <1>3, PTL DEF Spec

-------------------------------------------------------------------------------
(* Sums over finite sets.  A fold is a recursive function on the subsets of a
   set, that is, some function that satisfies its equation, if there is one.
   The lemmas say that there is, and what it computes.  Induction is by the
   least element of a set of numbers, as nothing here can take a predicate as
   a parameter. *)
Some(s) == CHOOSE x \in s : TRUE

IsSum(g, h, S) ==
    g = [s \in SUBSET S |-> IF s = {} THEN 0 ELSE h[Some(s)] + g[s \ {Some(s)}]]

LEMMA LeastNumber ==
  ASSUME NEW T, T \subseteq Nat, T # {} PROVE \E x \in T : \A y \in T : x <= y
<1>1. PICK x \in T : \A y \in T : ~(<<y, x>> \in OpToRel(<, Nat))
  BY NatLessThanWellFounded, WFMin
<1>2. \A y \in T : ~(y < x) BY <1>1 DEF OpToRel
<1> QED BY <1>2

LEMMA SomeIsIn == ASSUME NEW s, s # {} PROVE Some(s) \in s
BY DEF Some

LEMMA FewerElements ==
  ASSUME NEW S, IsFiniteSet(S), NEW s \in SUBSET S
  PROVE  /\ IsFiniteSet(s) /\ Cardinality(s) \in Nat
         /\ \A x \in s : /\ s \ {x} \in SUBSET S
                         /\ Cardinality(s \ {x}) \in Nat
                         /\ Cardinality(s) = Cardinality(s \ {x}) + 1
<1>1. IsFiniteSet(s) BY FS_Subset
<1>2. Cardinality(s) \in Nat BY <1>1, FS_CardinalityType
<1>3. ASSUME NEW x \in s
      PROVE  /\ s \ {x} \in SUBSET S /\ Cardinality(s \ {x}) \in Nat
             /\ Cardinality(s) = Cardinality(s \ {x}) + 1
  <2>1. IsFiniteSet(s \ {x}) /\ Cardinality(s \ {x}) = Cardinality(s) - 1
    BY <1>1, FS_RemoveElement
  <2>2. Cardinality(s \ {x}) \in Nat BY <2>1, FS_CardinalityType
  <2> QED BY <1>2, <2>1, <2>2
<1> QED BY <1>1, <1>2, <1>3

LEMMA SumExists ==
  ASSUME NEW S, IsFiniteSet(S), NEW h \in [S -> Nat]
  PROVE  \E g : IsSum(g, h, S)
<1> DEFINE Turn(g, s) == IF s = {} THEN 0 ELSE h[Some(s)] + g[s \ {Some(s)}]
           UpTo(g, n) == g \in [SUBSET S -> Nat]
                         /\ \A s \in SUBSET S : Cardinality(s) <= n => g[s] = Turn(g, s)
           Missing == {n \in Nat : ~\E g \in [SUBSET S -> Nat] : UpTo(g, n)}
<1>1. Missing = {}
  <2> SUFFICES ASSUME Missing # {} PROVE FALSE OBVIOUS
  <2>1. PICK n \in Missing : \A y \in Missing : n <= y BY LeastNumber
  <2>2. n \in Nat BY <2>1
  <2>3. CASE n = 0
    <3> DEFINE g == [s \in SUBSET S |-> 0]
    <3>1. \A s \in SUBSET S : Cardinality(s) <= 0 => s = {}
      <4> SUFFICES ASSUME NEW s \in SUBSET S, Cardinality(s) <= 0 PROVE s = {}
        OBVIOUS
      <4>1. Cardinality(s) = 0 /\ IsFiniteSet(s) BY FewerElements
      <4> QED BY <4>1, FS_EmptySet
    <3>2. UpTo(g, 0) BY <3>1
    <3>3. g \in [SUBSET S -> Nat] OBVIOUS
    <3> QED BY <2>1, <2>3, <3>2, <3>3
  <2>4. CASE n # 0
    <3>1. n - 1 \in Nat /\ ~(n <= n - 1) BY <2>2, <2>4
    <3>2. n - 1 \notin Missing BY <2>1, <3>1
    <3>3. PICK g \in [SUBSET S -> Nat] : UpTo(g, n - 1) BY <3>1, <3>2
    <3> DEFINE f == [s \in SUBSET S |-> IF Cardinality(s) <= n - 1 THEN g[s] ELSE Turn(g, s)]
    <3>4. \A s \in SUBSET S : Turn(g, s) \in Nat
      <4> SUFFICES ASSUME NEW s \in SUBSET S, s # {} PROVE h[Some(s)] + g[s \ {Some(s)}] \in Nat
        OBVIOUS
      <4>1. Some(s) \in S /\ s \ {Some(s)} \in SUBSET S BY SomeIsIn
      <4> QED BY <4>1
    <3>5. f \in [SUBSET S -> Nat] BY <3>3, <3>4
    <3>6. ASSUME NEW s \in SUBSET S, Cardinality(s) <= n PROVE f[s] = Turn(f, s)
      <4>1. CASE s = {}
        <5>1. Cardinality(s) <= n - 1 BY <3>1, <4>1, FS_EmptySet
        <5>2. f[s] = g[s] BY <5>1
        <5>3. g[s] = 0 BY <3>3, <4>1, <5>1
        <5> QED BY <4>1, <5>2, <5>3
      <4>2. CASE s # {}
        <5> DEFINE t == s \ {Some(s)}
        <5>1. /\ t \in SUBSET S /\ Cardinality(t) \in Nat
              /\ Cardinality(s) \in Nat /\ Cardinality(s) = Cardinality(t) + 1
          BY <4>2, SomeIsIn, FewerElements
        <5>2. Cardinality(t) <= n - 1 BY <2>2, <3>6, <5>1
        <5>3. f[t] = g[t] BY <5>1, <5>2
        <5>4. f[s] = Turn(g, s)
          <6>1. CASE Cardinality(s) <= n - 1 BY <3>3, <6>1
          <6>2. CASE ~(Cardinality(s) <= n - 1) BY <6>2
          <6> QED BY <6>1, <6>2
        <5> QED BY <4>2, <5>3, <5>4
      <4> QED BY <4>1, <4>2
    <3>7. UpTo(f, n) BY <3>5, <3>6
    <3> QED BY <2>1, <3>5, <3>7
  <2> QED BY <2>3, <2>4
<1>2. PICK c \in Nat : c = Cardinality(S) BY FS_CardinalityType
<1>3. PICK g \in [SUBSET S -> Nat] : UpTo(g, c) BY <1>1, <1>2
<1>4. \A s \in SUBSET S : Cardinality(s) <= c BY <1>2, FS_Subset
<1>5. \A s \in SUBSET S : g[s] = Turn(g, s) BY <1>3, <1>4
<1>6. g = [s \in SUBSET S |-> Turn(g, s)] BY <1>3, <1>5
<1>7. IsSum(g, h, S) BY <1>6 DEF IsSum
<1> QED BY <1>7

(* What a function is that sums the terms of each subset, whatever it takes first. *)
Sums(g, h, S) ==
    /\ g \in [SUBSET S -> Nat] /\ g[{}] = 0
    /\ \A s \in SUBSET S : \A x \in s : g[s] = h[x] + g[s \ {x}]

LEMMA SumAdds ==
  ASSUME NEW S, IsFiniteSet(S), NEW h \in [S -> Nat], NEW g, IsSum(g, h, S)
  PROVE  Sums(g, h, S)
<1> DEFINE Good(s) == g[s] \in Nat /\ \A x \in s : g[s] = h[x] + g[s \ {x}]
           Bad == {n \in Nat : \E s \in SUBSET S : Cardinality(s) = n /\ ~Good(s)}
<1>0. /\ DOMAIN g = SUBSET S
      /\ \A s \in SUBSET S : g[s] = IF s = {} THEN 0 ELSE h[Some(s)] + g[s \ {Some(s)}]
  BY DEF IsSum
<1>1. Bad = {}
  <2> SUFFICES ASSUME Bad # {} PROVE FALSE OBVIOUS
  <2>1. PICK n \in Bad : \A y \in Bad : n <= y BY LeastNumber
  <2>2. PICK s \in SUBSET S : Cardinality(s) = n /\ ~Good(s) /\ n \in Nat BY <2>1
  <2>3. \A t \in SUBSET S : Cardinality(t) \in Nat /\ Cardinality(t) < n => Good(t)
    <3> SUFFICES ASSUME NEW t \in SUBSET S, Cardinality(t) \in Nat, Cardinality(t) < n, ~Good(t)
                 PROVE  FALSE
      OBVIOUS
    <3>1. Cardinality(t) \in Bad OBVIOUS
    <3> QED BY <2>1, <2>2, <3>1
  <2>4. CASE s = {}
    <3>1. g[s] = 0 BY <1>0, <2>4
    <3> QED BY <2>2, <2>4, <3>1
  <2>5. CASE s # {}
    <3> DEFINE p == Some(s)
    <3>1. p \in s /\ h[p] \in Nat BY <2>5, SomeIsIn
    <3>2. \A x \in s : /\ s \ {x} \in SUBSET S /\ Cardinality(s \ {x}) \in Nat
                       /\ Cardinality(s \ {x}) < n
      BY <2>2, FewerElements
    <3>3. \A x \in s : Good(s \ {x}) BY <2>3, <3>2
    <3>4. g[s] = h[p] + g[s \ {p}] BY <1>0, <2>5
    <3>5. g[s \ {p}] \in Nat BY <3>1, <3>3
    <3>6. g[s] \in Nat BY <3>1, <3>4, <3>5
    <3>7. ASSUME NEW x \in s PROVE g[s] = h[x] + g[s \ {x}]
      <4>1. CASE x = p BY <3>4, <4>1
      <4>2. CASE x # p
        <5>1. x \in s \ {p} /\ p \in s \ {x} BY <3>1, <4>2
        <5>2. g[s \ {p}] = h[x] + g[(s \ {p}) \ {x}] BY <3>1, <3>3, <5>1
        <5>3. g[s \ {x}] = h[p] + g[(s \ {x}) \ {p}] BY <3>3, <5>1
        <5>4. (s \ {p}) \ {x} = (s \ {x}) \ {p} OBVIOUS
        <5>5. /\ (s \ {x}) \ {p} \in SUBSET S
              /\ Cardinality((s \ {x}) \ {p}) \in Nat
              /\ Cardinality(s \ {x}) = Cardinality((s \ {x}) \ {p}) + 1
          <6>1. PICK t \in SUBSET S : t = s \ {x} BY <3>2
          <6>2. \A y \in t : /\ t \ {y} \in SUBSET S /\ Cardinality(t \ {y}) \in Nat
                             /\ Cardinality(t) = Cardinality(t \ {y}) + 1
            BY FewerElements
          <6> QED BY <5>1, <6>1, <6>2
        <5>6. Good((s \ {x}) \ {p})
          <6>1. Cardinality((s \ {x}) \ {p}) < n
            <7>1. PICK i, j \in Nat : i = Cardinality((s \ {x}) \ {p}) /\ j = Cardinality(s \ {x})
              BY <3>2, <5>5
            <7>2. j = i + 1 /\ j < n BY <3>2, <5>5, <7>1
            <7> QED BY <2>2, <7>1, <7>2
          <6> QED BY <2>3, <5>5, <6>1
        <5>7. PICK a, b, c \in Nat : a = h[x] /\ b = h[p] /\ c = g[(s \ {x}) \ {p}]
          BY <3>1, <5>6
        <5>8. g[s] = b + (a + c) /\ g[s \ {x}] = b + c
          BY <3>4, <5>2, <5>3, <5>4, <5>7
        <5> QED BY <5>7, <5>8
      <4> QED BY <4>1, <4>2
    <3> QED BY <2>2, <3>6, <3>7
  <2> QED BY <2>4, <2>5
<1>2. \A s \in SUBSET S : Good(s)
  <2> SUFFICES ASSUME NEW s \in SUBSET S, ~Good(s) PROVE FALSE OBVIOUS
  <2>1. Cardinality(s) \in Bad BY FewerElements
  <2> QED BY <1>1, <2>1
<1>3. g \in [SUBSET S -> Nat]
  <2>1. \A s \in SUBSET S : g[s] \in Nat BY <1>2
  <2>2. g = [s \in SUBSET S |-> g[s]] BY <1>0 DEF IsSum
  <2> HIDE DEF Good, Bad
  <2> QED BY <2>1, <2>2
<1>4. g[{}] = 0
  <2>1. {} \in SUBSET S OBVIOUS
  <2> QED BY <1>0, <2>1
<1>5. \A s \in SUBSET S : \A x \in s : g[s] = h[x] + g[s \ {x}] BY <1>2
<1> HIDE DEF Good, Bad
<1> QED BY <1>3, <1>4, <1>5 DEF Sums

(* A sum is determined by its terms. *)
LEMMA SumsAgree ==
  ASSUME NEW S, IsFiniteSet(S), NEW T \in SUBSET S, NEW h \in [S -> Nat], NEW k \in [T -> Nat],
         \A x \in T : k[x] = h[x],
         NEW g, IsSum(g, h, S), NEW f, IsSum(f, k, T)
  PROVE  \A s \in SUBSET T : f[s] = g[s]
<1> DEFINE Bad == {n \in Nat : \E s \in SUBSET T : Cardinality(s) = n /\ f[s] # g[s]}
<1>0. IsFiniteSet(T) /\ SUBSET T \subseteq SUBSET S BY FS_Subset
<1>1. \A s \in SUBSET T :
        /\ f[s] = IF s = {} THEN 0 ELSE k[Some(s)] + f[s \ {Some(s)}]
        /\ g[s] = IF s = {} THEN 0 ELSE h[Some(s)] + g[s \ {Some(s)}]
  BY <1>0 DEF IsSum
<1>2. Bad = {}
  <2> SUFFICES ASSUME Bad # {} PROVE FALSE OBVIOUS
  <2>1. PICK n \in Bad : \A y \in Bad : n <= y BY LeastNumber
  <2>2. PICK s \in SUBSET T : Cardinality(s) = n /\ f[s] # g[s] /\ n \in Nat BY <2>1
  <2>3. s # {} BY <1>1, <2>2
  <2>4. PICK p \in s : p = Some(s) BY <2>3, SomeIsIn
  <2>5. PICK t \in SUBSET T : t = s \ {p} OBVIOUS
  <2>6. Cardinality(t) \in Nat /\ Cardinality(s) = Cardinality(t) + 1
    BY <1>0, <2>5, FewerElements
  <2>7. ~(n <= Cardinality(t)) BY <2>2, <2>6
  <2>8. f[t] = g[t] BY <2>1, <2>6, <2>7
  <2>9. f[s] = k[p] + f[t] /\ g[s] = h[p] + g[t] BY <1>1, <2>3, <2>4, <2>5
  <2> QED BY <2>2, <2>4, <2>8, <2>9
<1>3. ASSUME NEW s \in SUBSET T, f[s] # g[s] PROVE FALSE
  <2>1. Cardinality(s) \in Nat BY <1>0, FewerElements
  <2>2. Cardinality(s) \in Bad BY <1>3, <2>1
  <2> QED BY <1>2, <2>2
<1> QED BY <1>3

LEMMA TotalIsSum ==
  ASSUME NEW X, NEW need \in [X -> [Resources -> Nat]], NEW T \in SUBSET X, IsFiniteSet(T),
         NEW r \in Resources
  PROVE  \E g : IsSum(g, [t \in T |-> need[t][r]], T) /\ Total(need, T)[r] = g[T]
<1> DEFINE h == [t \in T |-> need[t][r]]
           Sum(g) == [s \in SUBSET T |-> IF s = {} THEN 0
                                         ELSE need[Some(s)][r] + g[s \ {Some(s)}]]
<1>1. h \in [T -> Nat] OBVIOUS
<1>2. ASSUME NEW g PROVE IsSum(g, h, T) <=> g = Sum(g)
  <2>1. \A s \in SUBSET T : s # {} => h[Some(s)] = need[Some(s)][r] BY SomeIsIn
  <2>2. [s \in SUBSET T |-> IF s = {} THEN 0 ELSE h[Some(s)] + g[s \ {Some(s)}]] = Sum(g)
    BY <2>1
  <2> QED BY <2>2 DEF IsSum
<1>3. \E g : g = Sum(g) BY <1>1, <1>2, SumExists
<1>4. PICK g : g = CHOOSE f : f = Sum(f) OBVIOUS
<1>5. g = Sum(g) BY <1>3, <1>4
<1>6. Total(need, T)[r] = g[T]
  BY <1>4 DEF Total, MapThenSumSet, MapThenFoldSet, Some
<1> QED BY <1>2, <1>5, <1>6

LEMMA MoreIsMore ==
  ASSUME NEW S, IsFiniteSet(S), NEW h \in [S -> Nat], NEW g, Sums(g, h, S)
  PROVE  \A b \in SUBSET S : \A a \in SUBSET b : g[a] <= g[b]
<1> DEFINE Bad == {n \in Nat : \E b \in SUBSET S : Cardinality(b) = n
                                /\ \E a \in SUBSET b : ~(g[a] <= g[b])}
<1>1. Bad = {}
  <2> SUFFICES ASSUME Bad # {} PROVE FALSE OBVIOUS
  <2>1. PICK n \in Bad : \A y \in Bad : n <= y BY LeastNumber
  <2>2. PICK b \in SUBSET S : Cardinality(b) = n /\ \E a \in SUBSET b : ~(g[a] <= g[b])
    BY <2>1
  <2>3. PICK a \in SUBSET b : ~(g[a] <= g[b]) BY <2>2
  <2>4. g[b] \in Nat /\ g[a] \in Nat BY DEF Sums
  <2>5. a # b BY <2>3, <2>4
  <2>6. PICK x \in b : x \notin a BY <2>5
  <2>7. PICK c \in SUBSET S : c = b \ {x} OBVIOUS
  <2>8. Cardinality(c) \in Nat /\ Cardinality(b) = Cardinality(c) + 1
    BY <2>7, FewerElements
  <2>9. ~(n <= Cardinality(c)) BY <2>2, <2>8
  <2>10. a \in SUBSET c BY <2>6, <2>7
  <2>11. g[a] <= g[c] BY <2>1, <2>8, <2>9, <2>10
  <2>12. g[b] = h[x] + g[c] /\ g[c] \in Nat /\ h[x] \in Nat BY <2>7 DEF Sums
  <2> QED BY <2>3, <2>4, <2>11, <2>12
<1> SUFFICES ASSUME NEW b \in SUBSET S, NEW a \in SUBSET b, ~(g[a] <= g[b]) PROVE FALSE
  OBVIOUS
<1>2. Cardinality(b) \in Nat BY FewerElements
<1>3. Cardinality(b) \in Bad BY <1>2
<1> QED BY <1>1, <1>3

LEMMA OneMore ==
  ASSUME NEW S, IsFiniteSet(S), NEW h \in [S -> Nat], NEW g, Sums(g, h, S),
         NEW a \in SUBSET S, NEW x \in S, NEW b \in SUBSET (a \cup {x})
  PROVE  g[b] <= g[a] + h[x] /\ g[a] \in Nat /\ h[x] \in Nat /\ g[b] \in Nat
<1>0. PICK c : c = b \ {x} OBVIOUS
<1>1. c \in SUBSET a /\ c \in SUBSET S /\ b \in SUBSET S BY <1>0
<1>2. g[c] <= g[a] BY <1>1, MoreIsMore
<1>3. g[a] \in Nat /\ h[x] \in Nat /\ g[b] \in Nat /\ g[c] \in Nat BY <1>1 DEF Sums
<1>4. CASE x \in b
  <2>1. g[b] = h[x] + g[c] BY <1>0, <1>1, <1>4 DEF Sums
  <2> QED BY <1>2, <1>3, <2>1
<1>5. CASE x \notin b
  <2>1. b = c BY <1>0, <1>5
  <2> QED BY <1>2, <1>3, <2>1
<1> QED BY <1>3, <1>4, <1>5

(* The terms that a set of names stands for, some of them for the same one, are
   no less than the terms themselves. *)
LEMMA NamesCover ==
  ASSUME NEW S, IsFiniteSet(S), NEW h \in [S -> Nat], NEW g, Sums(g, h, S),
         NEW N, IsFiniteSet(N), NEW of \in [N -> S], NEW k \in [N -> Nat], NEW f, Sums(f, k, N),
         \A i \in N : k[i] = h[of[i]]
  PROVE  \A A \in SUBSET N : \A c, e \in SUBSET S :
           (\A x \in e : x \in c \/ \E i \in A : of[i] = x) => g[e] <= g[c] + f[A]
<1> DEFINE Stand(A, c, e) == \A x \in e : x \in c \/ \E i \in A : of[i] = x
           Good(A) == \A c, e \in SUBSET S : Stand(A, c, e) => g[e] <= g[c] + f[A]
           Bad == {n \in Nat : \E A \in SUBSET N : Cardinality(A) = n /\ ~Good(A)}
<1>0. /\ \A s \in SUBSET S : g[s] \in Nat
      /\ \A s \in SUBSET N : f[s] \in Nat
  BY DEF Sums
<1>1. Bad = {}
  <2> SUFFICES ASSUME Bad # {} PROVE FALSE OBVIOUS
  <2>1. PICK n \in Bad : \A y \in Bad : n <= y BY LeastNumber
  <2>2. PICK A \in SUBSET N : Cardinality(A) = n /\ ~Good(A) /\ n \in Nat BY <2>1
  <2>3. PICK c, e \in SUBSET S : Stand(A, c, e) /\ ~(g[e] <= g[c] + f[A]) BY <2>2
  <2>4. g[e] \in Nat /\ g[c] \in Nat /\ f[A] \in Nat BY <1>0
  <2>5. CASE A = {}
    <3>1. e \in SUBSET c BY <2>3, <2>5
    <3>2. g[e] <= g[c] BY <3>1, MoreIsMore
    <3> QED BY <2>3, <2>4, <3>2
  <2>6. CASE A # {}
    <3>1. PICK i \in A : TRUE BY <2>6
    <3>2. PICK B \in SUBSET N : B = A \ {i} OBVIOUS
    <3>3. PICK t \in S : t = of[i] OBVIOUS
    <3>4. PICK d \in SUBSET S : d = e \ {t} OBVIOUS
    <3>5. Cardinality(B) \in Nat /\ Cardinality(A) = Cardinality(B) + 1
      BY <3>2, FewerElements
    <3>6. ~(n <= Cardinality(B)) BY <2>2, <3>5
    <3>7. Good(B)
      <4> HIDE DEF Good
      <4> QED BY <2>1, <3>5, <3>6
    <3>8. Stand(B, c, d) BY <2>3, <3>2, <3>3, <3>4
    <3>9. g[d] <= g[c] + f[B] /\ g[d] \in Nat /\ f[B] \in Nat BY <1>0, <3>7, <3>8
    <3>10. g[e] <= g[d] + h[t] /\ h[t] \in Nat
      <4>1. e \in SUBSET (d \cup {t}) BY <3>4
      <4> QED BY <4>1, OneMore
    <3>11. f[A] = h[t] + f[B] BY <3>2, <3>3 DEF Sums
    <3> HIDE DEF Stand, Good, Bad
    <3>12. PICK u, v, w, x, y, z \in Nat :
             u = g[e] /\ v = g[c] /\ w = f[A] /\ x = g[d] /\ y = f[B] /\ z = h[t]
      BY <2>4, <3>9, <3>10
    <3>13. x <= v + y /\ u <= x + z /\ w = z + y /\ ~(u <= v + w)
      BY <2>3, <3>9, <3>10, <3>11, <3>12
    <3> QED BY <3>13
  <2> QED BY <2>5, <2>6
<1>2. ASSUME NEW A \in SUBSET N, ~Good(A) PROVE FALSE
  <2>1. Cardinality(A) \in Nat BY FewerElements
  <2> HIDE DEF Good
  <2>2. Cardinality(A) \in Bad BY <1>2, <2>1
  <2> QED BY <1>1, <2>2
<1> QED BY <1>2

(* One sum serves all the subsets of a finite set. *)
LEMMA SumsExist ==
  ASSUME NEW S, IsFiniteSet(S), NEW h \in [S -> Nat]
  PROVE  \E g : IsSum(g, h, S) /\ Sums(g, h, S)
<1>1. PICK g : IsSum(g, h, S) BY SumExists
<1>2. Sums(g, h, S) BY <1>1, SumAdds
<1> QED BY <1>1, <1>2

(* ------------------ The market: what is promised fits ------------------ *)

(* Total as a sum over the subsets of all tasks. *)
LEMMA TotalIsSums ==
  ASSUME IsFiniteSet(Tasks), NEW r \in Resources
  PROVE  \E g : /\ Sums(g, [t \in Tasks |-> Need[t][r]], Tasks)
                /\ \A T \in SUBSET Tasks : Total(Need, T)[r] = g[T]
<1> DEFINE h == [t \in Tasks |-> Need[t][r]]
<1>0. Need \in [Tasks -> [Resources -> Nat]] BY MarketAssumption
<1>1. h \in [Tasks -> Nat] BY <1>0
<1>2. PICK g : IsSum(g, h, Tasks) /\ Sums(g, h, Tasks) BY <1>1, SumsExist
<1>3. ASSUME NEW T \in SUBSET Tasks PROVE Total(Need, T)[r] = g[T]
  <2> DEFINE k == [t \in T |-> Need[t][r]]
  <2>1. IsFiniteSet(T) BY FS_Subset
  <2>2. PICK f : IsSum(f, k, T) /\ Total(Need, T)[r] = f[T] BY <1>0, <2>1, TotalIsSum
  <2>3. k \in [T -> Nat] /\ \A x \in T : k[x] = h[x] BY <1>0
  <2> HIDE DEF h, k
  <2>4. \A s \in SUBSET T : f[s] = g[s] BY <1>1, <1>2, <2>2, <2>3, SumsAgree
  <2> QED BY <2>2, <2>4
<1> QED BY <1>2, <1>3

(* What the leases in A reserve of a resource. *)
Reserved(A, r) == MapThenSumSet(LAMBDA b : Need[TaskOf(b)][r], A)

LEMMA ReservedIsSums ==
  ASSUME IsFiniteSet(Bids), NEW r \in Resources
  PROVE  \E f : /\ Sums(f, [b \in Bids |-> Need[TaskOf(b)][r]], Bids)
                /\ \A A \in SUBSET Bids : Reserved(A, r) = f[A]
<1> DEFINE h == [b \in Bids |-> Need[TaskOf(b)][r]]
<1>0. \A b \in Bids : Need[TaskOf(b)][r] \in Nat BY MarketAssumption DEF TaskOf
<1>1. h \in [Bids -> Nat] BY <1>0
<1>2. PICK g : IsSum(g, h, Bids) /\ Sums(g, h, Bids) BY <1>1, SumsExist
<1>3. ASSUME NEW A \in SUBSET Bids PROVE Reserved(A, r) = g[A]
  <2> DEFINE k == [b \in A |-> Need[TaskOf(b)][r]]
             Sum(f) == [s \in SUBSET A |-> IF s = {} THEN 0
                                           ELSE Need[TaskOf(Some(s))][r] + f[s \ {Some(s)}]]
  <2>1. IsFiniteSet(A) BY FS_Subset
  <2>2. k \in [A -> Nat] /\ \A x \in A : k[x] = h[x] BY <1>0
  <2>3. ASSUME NEW f PROVE IsSum(f, k, A) <=> f = Sum(f)
    <3>1. \A s \in SUBSET A : s # {} => k[Some(s)] = Need[TaskOf(Some(s))][r] BY SomeIsIn
    <3>2. [s \in SUBSET A |-> IF s = {} THEN 0 ELSE k[Some(s)] + f[s \ {Some(s)}]] = Sum(f)
      BY <3>1
    <3> QED BY <3>2 DEF IsSum
  <2>4. \E f : f = Sum(f) BY <2>1, <2>2, <2>3, SumExists
  <2>5. PICK f : f = CHOOSE e : e = Sum(e) OBVIOUS
  <2>6. f = Sum(f) BY <2>4, <2>5
  <2>7. Reserved(A, r) = f[A]
    BY <2>5 DEF Reserved, MapThenSumSet, MapThenFoldSet, Some
  <2>8. IsSum(f, k, A) BY <2>3, <2>6
  <2> HIDE DEF h, k, Sum
  <2>9. \A s \in SUBSET A : f[s] = g[s] BY <1>1, <1>2, <2>2, <2>8, SumsAgree
  <2> QED BY <2>7, <2>9
<1> QED BY <1>2, <1>3

LEMMA TotalBounds ==
  ASSUME IsFiniteSet(Tasks), NEW r \in Resources
  PROVE  /\ \A D \in SUBSET Tasks : Total(Need, D)[r] \in Nat
         /\ \A D \in SUBSET Tasks : \A E \in SUBSET D : Total(Need, E)[r] <= Total(Need, D)[r]
         /\ \A D \in SUBSET Tasks : \A t \in Tasks : \A E \in SUBSET (D \cup {t}) :
              Total(Need, E)[r] <= Total(Need, D)[r] + Need[t][r]
<1> DEFINE h == [t \in Tasks |-> Need[t][r]]
<1>0. h \in [Tasks -> Nat] /\ \A t \in Tasks : h[t] = Need[t][r] BY MarketAssumption
<1>1. PICK g : Sums(g, h, Tasks) /\ \A T \in SUBSET Tasks : Total(Need, T)[r] = g[T]
  BY TotalIsSums
<1> HIDE DEF h
<1>2. \A D \in SUBSET Tasks : g[D] \in Nat BY <1>1 DEF Sums
<1>3. \A D \in SUBSET Tasks : \A E \in SUBSET D : g[E] <= g[D] BY <1>0, <1>1, MoreIsMore
<1>4. ASSUME NEW D \in SUBSET Tasks, NEW t \in Tasks, NEW E \in SUBSET (D \cup {t})
      PROVE  Total(Need, E)[r] <= Total(Need, D)[r] + Need[t][r]
  <2>1. g[E] <= g[D] + h[t] BY <1>0, <1>1, OneMore
  <2>2. E \in SUBSET Tasks OBVIOUS
  <2> QED BY <1>0, <1>1, <2>1, <2>2
<1>5. \A D \in SUBSET Tasks : \A E \in SUBSET D : Total(Need, E)[r] <= Total(Need, D)[r]
  BY <1>1, <1>3
<1> QED BY <1>1, <1>2, <1>4, <1>5

ActiveBids(s) == {b \in Bids : s[b] \in Active}
Counted == {t \in Tasks : host[t] = "counted"}

(* What _available_resources takes for used is no less than what the tasks need
   that it finds in the registry or behind a lease. *)
LEMMA UsedCovers ==
  ASSUME IsFiniteSet(Tasks), IsFiniteSet(Bids), NEW s, NEW r \in Resources
  PROVE  /\ Used(s)[r] \in Nat
         /\ \A E \in SUBSET Tasks :
              (\A t \in E : t \in Counted \/ \E b \in ActiveBids(s) : TaskOf(b) = t)
                => Total(Need, E)[r] <= Used(s)[r]
<1> DEFINE h == [t \in Tasks |-> Need[t][r]]
           k == [b \in Bids |-> Need[TaskOf(b)][r]]
           of == [b \in Bids |-> TaskOf(b)]
           A == ActiveBids(s)
<1>0. \A b \in Bids : TaskOf(b) \in Tasks BY MarketAssumption DEF TaskOf
<1>1. h \in [Tasks -> Nat] /\ k \in [Bids -> Nat] BY <1>0, MarketAssumption
<1>2. of \in [Bids -> Tasks] /\ \A b \in Bids : of[b] = TaskOf(b) /\ k[b] = h[of[b]] BY <1>0
<1>3. PICK g : Sums(g, h, Tasks) /\ \A T \in SUBSET Tasks : Total(Need, T)[r] = g[T]
  BY TotalIsSums
<1>4. PICK f : Sums(f, k, Bids) /\ \A B \in SUBSET Bids : Reserved(B, r) = f[B]
  BY ReservedIsSums
<1>5. A \in SUBSET Bids /\ Counted \in SUBSET Tasks BY DEF ActiveBids, Counted
<1>6. Used(s)[r] = Total(Need, Counted)[r] + Reserved(A, r)
  BY DEF Used, Counted, Reserved, ActiveBids
<1>7. Used(s)[r] = g[Counted] + f[A] BY <1>3, <1>4, <1>5, <1>6
<1> HIDE DEF h, k, of
<1>8. Used(s)[r] \in Nat BY <1>3, <1>4, <1>5, <1>7 DEF Sums
<1>9. ASSUME NEW E \in SUBSET Tasks,
             \A t \in E : t \in Counted \/ \E b \in A : TaskOf(b) = t
      PROVE  Total(Need, E)[r] <= Used(s)[r]
  <2>1. \A t \in E : t \in Counted \/ \E b \in A : of[b] = t BY <1>2, <1>5, <1>9
  <2>2. \A B \in SUBSET Bids : \A c, e \in SUBSET Tasks :
           (\A x \in e : x \in c \/ \E i \in B : of[i] = x) => g[e] <= g[c] + f[B]
    BY <1>1, <1>2, <1>3, <1>4, NamesCover
  <2>3. g[E] <= g[Counted] + f[A] BY <1>5, <2>1, <2>2
  <2> QED BY <1>3, <1>7, <2>3
<1> QED BY <1>8, <1>9

(* A task that is claimed and not started is so by an activation that goes on. *)
ClaimedIsActivated ==
    \A t \in Tasks : host[t] = "claimed" =>
       \E b \in Bids : TaskOf(b) = t /\ activation[b] = "claimed"

(* An auction gives away no more than what is left beside what is promised. *)
LedgerIsFree ==
    auction.on =>
       /\ auction.ledger \in [DOMAIN Node.capacity -> Nat]
       /\ \A r \in DOMAIN Node.capacity :
            Total(Need, Entitled)[r] + auction.ledger[r] <= Node.capacity[r]

HostType == host \in [Tasks -> {"away", "claimed", "counted"}]

CapacityInv ==
    /\ MarketInv /\ HostType /\ ClaimedIsActivated
    /\ CapacityPromisedOnce /\ LedgerIsFree

(* Steps that give no task a right to the capacity that it had not. *)
LEMMA NothingPromised ==
  ASSUME IsFiniteSet(Tasks), CapacityInv, MarketInv', HostType', ClaimedIsActivated',
         Entitled' \subseteq Entitled,
         \/ auction' = auction
         \/ auction'.on = FALSE
         \/ auction'.on /\ auction.on /\ auction'.ledger = auction.ledger
  PROVE  CapacityInv'
<1>0. Entitled \in SUBSET Tasks /\ Entitled' \in SUBSET Entitled BY DEF Entitled
<1>1. ASSUME NEW r \in DOMAIN Node.capacity
      PROVE  /\ Total(Need, Entitled')[r] <= Total(Need, Entitled)[r]
             /\ Total(Need, Entitled')[r] \in Nat /\ Total(Need, Entitled)[r] \in Nat
             /\ Node.capacity[r] \in Nat
  <2>1. r \in Resources /\ Node.capacity[r] \in Nat BY MarketAssumption
  <2>2. PICK D \in SUBSET Tasks : D = Entitled BY <1>0
  <2>3. PICK E \in SUBSET D : E = Entitled' BY <1>0, <2>2
  <2>4. Total(Need, E)[r] <= Total(Need, D)[r] /\ Total(Need, E)[r] \in Nat
        /\ Total(Need, D)[r] \in Nat
    BY <2>1, TotalBounds
  <2> QED BY <2>1, <2>2, <2>3, <2>4
<1>2. CapacityPromisedOnce'
  <2> SUFFICES ASSUME NEW r \in DOMAIN Node.capacity
               PROVE  Total(Need, Entitled')[r] <= Node.capacity[r]
    BY DEF CapacityPromisedOnce
  <2>1. Total(Need, Entitled)[r] <= Node.capacity[r] BY DEF CapacityInv, CapacityPromisedOnce
  <2>2. PICK x, y, z \in Nat : /\ x = Total(Need, Entitled')[r] /\ y = Total(Need, Entitled)[r]
                               /\ z = Node.capacity[r]
    BY <1>1
  <2>3. x <= y /\ y <= z BY <1>1, <2>1, <2>2
  <2> QED BY <2>2, <2>3
<1>3. LedgerIsFree'
  <2> SUFFICES ASSUME auction'.on
               PROVE  /\ auction'.ledger \in [DOMAIN Node.capacity -> Nat]
                      /\ \A r \in DOMAIN Node.capacity :
                           Total(Need, Entitled')[r] + auction'.ledger[r] <= Node.capacity[r]
    BY DEF LedgerIsFree
  <2>1. auction.on /\ auction'.ledger = auction.ledger OBVIOUS
  <2>2. /\ auction.ledger \in [DOMAIN Node.capacity -> Nat]
        /\ \A r \in DOMAIN Node.capacity :
             Total(Need, Entitled)[r] + auction.ledger[r] <= Node.capacity[r]
    BY <2>1 DEF CapacityInv, LedgerIsFree
  <2>3. ASSUME NEW r \in DOMAIN Node.capacity
        PROVE  Total(Need, Entitled')[r] + auction'.ledger[r] <= Node.capacity[r]
    <3>1. PICK x, y, z, l \in Nat :
            /\ x = Total(Need, Entitled')[r] /\ y = Total(Need, Entitled)[r]
            /\ z = Node.capacity[r] /\ l = auction.ledger[r]
      BY <1>1, <2>2
    <3>2. x <= y /\ y + l <= z BY <1>1, <2>2, <3>1
    <3> QED BY <2>1, <3>1, <3>2
  <2> QED BY <2>1, <2>2, <2>3
<1> QED BY <1>2, <1>3 DEF CapacityInv

(* The same for the steps that leave the tasks as they are. *)
LEMMA LeasesOnly ==
  ASSUME IsFiniteSet(Tasks), CapacityInv, MarketInv', host' = host,
         \A b \in Bids : /\ status'[b] \in Active => status[b] \in Active
                         /\ activation[b] # "none" => activation'[b] # "none"
                         /\ activation[b] = "claimed" => activation'[b] = "claimed",
         \/ auction' = auction
         \/ auction'.on = FALSE
         \/ auction'.on /\ auction.on /\ auction'.ledger = auction.ledger
  PROVE  CapacityInv'
<1>1. HostType' BY DEF CapacityInv, HostType
<1>2. ClaimedIsActivated' BY DEF CapacityInv, ClaimedIsActivated
<1>3. Entitled' \subseteq Entitled BY DEF Entitled
<1> QED BY <1>1, <1>2, <1>3, NothingPromised

LEMMA CapacityInit ==
  ASSUME IsFiniteSet(Tasks),
         \A r \in DOMAIN Node.capacity : Total(Need, Resident)[r] <= Node.capacity[r],
         Init, MarketInv
  PROVE  CapacityInv
<1>1. HostType BY DEF Init, HostType
<1>2. ClaimedIsActivated BY DEF Init, ClaimedIsActivated
<1>3. Entitled = Resident BY MarketAssumption DEF Init, Entitled, Active
<1>4. CapacityPromisedOnce BY <1>3 DEF CapacityPromisedOnce
<1>5. LedgerIsFree BY DEF Init, NoAuction, LedgerIsFree
<1> QED BY <1>1, <1>2, <1>4, <1>5 DEF CapacityInv

(* An auction begins with what the registry and the leases leave. *)
LEMMA CapacityAtStart ==
  ASSUME IsFiniteSet(Tasks), IsFiniteSet(Bids), CapacityInv, MarketInv', StartAuction
  PROVE  CapacityInv'
<1> DEFINE now == Expired(status)
<1>1. /\ status' = now /\ host' = host /\ activation' = activation
      /\ auction'.on /\ auction'.ledger = Remaining(Node.capacity, Used(now))
  BY DEF StartAuction, users
<1>2. /\ HostType' /\ ClaimedIsActivated'
  BY <1>1 DEF CapacityInv, HostType, ClaimedIsActivated
<1>3. \A b \in Bids : now[b] \in Active => status[b] \in Active
  BY ExpiredStatus DEF CapacityInv, MarketInv, RecordsType, Active
<1>4. Entitled' \in SUBSET Entitled /\ Entitled \in SUBSET Tasks BY <1>1, <1>3 DEF Entitled
<1>5. \A t \in Entitled' : t \in Counted \/ \E b \in ActiveBids(now) : TaskOf(b) = t
  <2> SUFFICES ASSUME NEW t \in Entitled', \A b \in ActiveBids(now) : TaskOf(b) # t
               PROVE  t \in Counted
    OBVIOUS
  <2>1. t \in Tasks BY <1>4
  <2>2. \A b \in Bids : TaskOf(b) = t => now[b] \notin Active BY DEF ActiveBids
  <2>3. host[t] # "away" /\ \A b \in Bids : TaskOf(b) = t => activation[b] = "none"
    BY <1>1, <2>2 DEF Entitled
  <2>4. host[t] # "claimed" BY <2>1, <2>3 DEF CapacityInv, ClaimedIsActivated
  <2> QED BY <2>1, <2>3, <2>4 DEF CapacityInv, HostType, Counted
<1>6. ASSUME NEW r \in DOMAIN Node.capacity
      PROVE  /\ Remaining(Node.capacity, Used(now))[r] \in Nat
             /\ Total(Need, Entitled')[r] + Remaining(Node.capacity, Used(now))[r]
                  <= Node.capacity[r]
             /\ Total(Need, Entitled')[r] <= Node.capacity[r]
  <2>1. r \in Resources /\ Node.capacity[r] \in Nat BY MarketAssumption
  <2> HIDE DEF now
  <2>2. PICK D \in SUBSET Tasks : D = Entitled BY <1>4
  <2>3. PICK E \in SUBSET D : E = Entitled' BY <1>4, <2>2
  <2>4. /\ Total(Need, E)[r] <= Total(Need, D)[r] /\ Total(Need, E)[r] \in Nat
        /\ Total(Need, D)[r] \in Nat
    BY <2>1, TotalBounds
  <2>5. Total(Need, E)[r] <= Used(now)[r] /\ Used(now)[r] \in Nat
    <3>1. E \in SUBSET Tasks /\ \A t \in E : t \in Counted \/ \E b \in ActiveBids(now) : TaskOf(b) = t
      BY <1>5, <2>3
    <3> QED BY <2>1, <3>1, UsedCovers
  <2>6. Total(Need, D)[r] <= Node.capacity[r] BY <2>2 DEF CapacityInv, CapacityPromisedOnce
  <2>7. Remaining(Node.capacity, Used(now))[r]
          = IF Used(now)[r] > Node.capacity[r] THEN 0 ELSE Node.capacity[r] - Used(now)[r]
    BY DEF Remaining
  <2>8. PICK x, y, u, c \in Nat : /\ x = Total(Need, E)[r] /\ y = Total(Need, D)[r]
                                  /\ u = Used(now)[r] /\ c = Node.capacity[r]
    BY <2>1, <2>4, <2>5
  <2>9. PICK l : l = Remaining(Node.capacity, Used(now))[r] OBVIOUS
  <2>10. x <= y /\ x <= u /\ y <= c /\ l = IF u > c THEN 0 ELSE c - u
    BY <2>4, <2>5, <2>6, <2>7, <2>8, <2>9
  <2>11. l \in Nat /\ x + l <= c /\ x <= c BY <2>10
  <2> QED BY <2>3, <2>8, <2>9, <2>11
<1>7. CapacityPromisedOnce' BY <1>6 DEF CapacityPromisedOnce
<1>8. LedgerIsFree'
  <2>1. DOMAIN Remaining(Node.capacity, Used(now)) = DOMAIN Node.capacity BY DEF Remaining
  <2>2. Remaining(Node.capacity, Used(now)) \in [DOMAIN Node.capacity -> Nat]
    <3>1. PICK R : R = Remaining(Node.capacity, Used(now)) OBVIOUS
    <3>2. R = [r \in DOMAIN Node.capacity |-> R[r]] BY <3>1 DEF Remaining
    <3>3. \A r \in DOMAIN Node.capacity : R[r] \in Nat BY <1>6, <3>1
    <3> QED BY <3>1, <3>2, <3>3
  <2>3. /\ auction'.ledger \in [DOMAIN Node.capacity -> Nat]
        /\ \A r \in DOMAIN Node.capacity :
             Total(Need, Entitled')[r] + auction'.ledger[r] <= Node.capacity[r]
    <3> HIDE DEF now
    <3> QED BY <1>1, <1>6, <2>2
  <2> QED BY <2>3 DEF LedgerIsFree
<1> QED BY <1>2, <1>7, <1>8 DEF CapacityInv

(* A bid that is accepted gets what the auction takes from its ledger. *)
LEMMA CapacityAtDecision ==
  ASSUME IsFiniteSet(Tasks), CapacityInv, MarketInv', NEW b \in Bids, DecideAccept(b)
  PROVE  CapacityInv'
<1> DEFINE t == TaskOf(b)
<1>1. /\ auction.on /\ Fits(b) /\ host' = host /\ activation' = activation
      /\ status' = [status EXCEPT ![b] = "accepted"]
  BY DEF DecideAccept, users
<1>2. auction'.on /\ auction'.ledger = Remaining(auction.ledger, Need[t])
  BY <1>1 DEF DecideAccept, CapacityInv, MarketInv, RecordsType
<1>3. HostType' /\ ClaimedIsActivated' BY <1>1 DEF CapacityInv, HostType, ClaimedIsActivated
<1>4. t \in Tasks /\ status \in [Bids -> Status]
  BY MarketAssumption DEF TaskOf, CapacityInv, MarketInv, RecordsType
<1>5. Entitled' \in SUBSET (Entitled \cup {t}) /\ Entitled \in SUBSET Tasks
      /\ Entitled' \in SUBSET Tasks
  BY <1>1, <1>4 DEF Entitled
<1>6. /\ auction.ledger \in [DOMAIN Node.capacity -> Nat]
      /\ \A r \in DOMAIN Node.capacity :
           Total(Need, Entitled)[r] + auction.ledger[r] <= Node.capacity[r]
  BY <1>1 DEF CapacityInv, LedgerIsFree
<1> HIDE DEF t
<1>7. DOMAIN auction.ledger = DOMAIN Node.capacity BY <1>6
<1>8. ASSUME NEW r \in DOMAIN Node.capacity
      PROVE  /\ auction'.ledger[r] \in Nat
             /\ Total(Need, Entitled')[r] + auction'.ledger[r] <= Node.capacity[r]
             /\ Total(Need, Entitled')[r] <= Node.capacity[r]
  <2>1. /\ r \in Resources /\ Node.capacity[r] \in Nat /\ Need[t][r] \in Nat
        /\ auction.ledger[r] \in Nat
    BY <1>4, <1>6, MarketAssumption
  <2>2. Need[t][r] <= auction.ledger[r]
    BY <1>1, <1>7 DEF Fits, FitsIn, t
  <2>3. auction'.ledger[r]
          = IF Need[t][r] > auction.ledger[r] THEN 0 ELSE auction.ledger[r] - Need[t][r]
    BY <1>2, <1>7 DEF Remaining
  <2>4. PICK D \in SUBSET Tasks : D = Entitled BY <1>5
  <2>5. PICK E \in SUBSET (D \cup {t}) : E = Entitled' BY <1>5, <2>4
  <2>6. /\ Total(Need, E)[r] <= Total(Need, D)[r] + Need[t][r] /\ Total(Need, D)[r] \in Nat
        /\ Total(Need, E)[r] \in Nat
    <3>1. E \in SUBSET Tasks BY <1>4
    <3> QED BY <1>4, <2>1, <3>1, TotalBounds
  <2>7. PICK x, y, n, l, c \in Nat :
          /\ x = Total(Need, E)[r] /\ y = Total(Need, D)[r] /\ n = Need[t][r]
          /\ l = auction.ledger[r] /\ c = Node.capacity[r]
    BY <2>1, <2>6
  <2>8. PICK m : m = auction'.ledger[r] OBVIOUS
  <2>9. /\ x <= y + n /\ y + l <= c /\ n <= l /\ m = IF n > l THEN 0 ELSE l - n
    BY <1>6, <2>2, <2>3, <2>4, <2>6, <2>7, <2>8
  <2>10. m \in Nat /\ x + m <= c /\ x <= c BY <2>9
  <2> QED BY <2>5, <2>7, <2>8, <2>10
<1>9. CapacityPromisedOnce' BY <1>8 DEF CapacityPromisedOnce
<1>10. LedgerIsFree'
  <2>1. PICK R : R = auction'.ledger OBVIOUS
  <2>2. R = [r \in DOMAIN Node.capacity |-> R[r]] BY <1>2, <1>7, <2>1 DEF Remaining
  <2>3. \A r \in DOMAIN Node.capacity : R[r] \in Nat BY <1>8, <2>1
  <2>4. auction'.ledger \in [DOMAIN Node.capacity -> Nat] BY <2>1, <2>2, <2>3
  <2> QED BY <1>8, <2>4 DEF LedgerIsFree
<1> QED BY <1>3, <1>9, <1>10 DEF CapacityInv

LEMMA CapacityStep ==
  ASSUME IsFiniteSet(Tasks), IsFiniteSet(Bids), CapacityInv, [Next]_vars
  PROVE  CapacityInv'
<1>0. /\ MarketInv' /\ RecordForEveryBidder
      /\ status \in [Bids -> Status] /\ activation \in [Bids -> Activation]
      /\ host \in [Tasks -> {"away", "claimed", "counted"}]
      /\ ClaimedIsActivated
      /\ \A b \in Bids : TaskOf(b) \in Tasks
  BY MarketStep, MarketAssumption DEF CapacityInv, MarketInv, RecordsType, HostType, TaskOf
<1>e. \A b \in Bids : Expired(status)[b] \in Active => status[b] \in Active
  BY <1>0, ExpiredStatus DEF Active
<1>c. ASSUME NEW b \in Bids, status[b] # "none"
      PROVE  \A c \in Bids : Cancelled(status, b)[c] \in Active => status[c] \in Active
  BY <1>0, <1>c, CancelledStatus DEF Active
<1>1. ASSUME NEW b \in Bids, Submit(b) PROVE CapacityInv'
  <2>1. /\ status' = [status EXCEPT ![b] = "pending"]
        /\ host' = host /\ activation' = activation /\ auction' = auction
    BY <1>1 DEF Submit
  <2>2. \A c \in Bids : status'[c] \in Active => status[c] \in Active
    BY <1>0, <2>1 DEF Active
  <2> QED BY <1>0, <2>1, <2>2, LeasesOnly
<1>2. ASSUME NEW b \in Bids, Poll(b) \/ Renew(b) PROVE CapacityInv'
  <2>1. /\ status' = Expired(status)
        /\ host' = host /\ activation' = activation /\ auction' = auction
    BY <1>2 DEF Poll, Renew
  <2> QED BY <1>0, <1>e, <2>1, LeasesOnly
<1>3. ASSUME NEW b \in Bids, Release(b) PROVE CapacityInv'
  <2>1. /\ status' = status \/ status' = Cancelled(status, b)
        /\ host' = host /\ activation' = activation /\ auction' = auction
        /\ bidder[b] = "holding"
    BY <1>3 DEF Release
  <2>2. status[b] # "none" BY <1>0, <2>1 DEF RecordForEveryBidder
  <2>3. \A c \in Bids : status'[c] \in Active => status[c] \in Active BY <1>c, <2>1, <2>2
  <2> QED BY <1>0, <2>1, <2>3, LeasesOnly
<1>4. ASSUME NEW b \in Bids, BeginActivation(b) PROVE CapacityInv'
  <2>1. /\ status' = [Expired(status) EXCEPT ![b] = "activating"]
        /\ Expired(status)[b] = "accepted" /\ activation[b] = "none"
        /\ activation' = [activation EXCEPT ![b] = "begun"]
        /\ host' = host /\ auction' = auction
    BY <1>4 DEF BeginActivation
  <2>2. Expired(status) \in [Bids -> Status] BY <1>0, ExpiredStatus
  <2>3. \A c \in Bids : status'[c] \in Active => status[c] \in Active
    BY <1>e, <2>1, <2>2 DEF Active
  <2>4. \A c \in Bids : /\ activation[c] # "none" => activation'[c] # "none"
                        /\ activation[c] = "claimed" => activation'[c] = "claimed"
    BY <1>0, <2>1
  <2> QED BY <1>0, <2>1, <2>3, <2>4, LeasesOnly
<1>5. ASSUME NEW b \in Bids, Claim(b) PROVE CapacityInv'
  <2>1. /\ activation[b] = "begun" /\ activation' = [activation EXCEPT ![b] = "claimed"]
        /\ host' = [host EXCEPT ![TaskOf(b)] = "claimed"]
        /\ status' = status /\ auction' = auction
    BY <1>5 DEF Claim, store
  <2>2. HostType' BY <1>0, <2>1 DEF HostType
  <2>3. ClaimedIsActivated' BY <1>0, <2>1 DEF ClaimedIsActivated
  <2>4. Entitled' \subseteq Entitled BY <1>0, <2>1 DEF Entitled
  <2> QED BY <1>0, <2>1, <2>2, <2>3, <2>4, NothingPromised
<1>6. ASSUME NEW b \in Bids, Started(b) PROVE CapacityInv'
  <2>1. /\ activation[b] = "claimed" /\ activation' = [activation EXCEPT ![b] = "running"]
        /\ host' = [host EXCEPT ![TaskOf(b)] = "counted"]
        /\ status' = status /\ auction' = auction
    BY <1>6 DEF Started, store
  <2>2. HostType' BY <1>0, <2>1 DEF HostType
  <2>3. ClaimedIsActivated' BY <1>0, <2>1 DEF ClaimedIsActivated
  <2>4. Entitled' \subseteq Entitled BY <1>0, <2>1 DEF Entitled
  <2> QED BY <1>0, <2>1, <2>2, <2>3, <2>4, NothingPromised
<1>7. ASSUME NEW b \in Bids, Consume(b) PROVE CapacityInv'
  <2>1. /\ activation[b] = "running" /\ activation' = [activation EXCEPT ![b] = "none"]
        /\ status[b] = "activating" /\ status' = [status EXCEPT ![b] = "consumed"]
        /\ host' = host /\ auction' = auction
    BY <1>7 DEF Consume
  <2>2. HostType' BY <1>0, <2>1 DEF HostType
  <2>3. ClaimedIsActivated' BY <1>0, <2>1 DEF ClaimedIsActivated
  <2>4. Entitled' \subseteq Entitled BY <1>0, <2>1 DEF Entitled, Active
  <2> QED BY <1>0, <2>1, <2>2, <2>3, <2>4, NothingPromised
<1>8. ASSUME NEW b \in Bids, Abort(b) PROVE CapacityInv'
  <2>1. /\ activation[b] # "none" /\ activation' = [activation EXCEPT ![b] = "none"]
        /\ host' = [host EXCEPT ![TaskOf(b)] = "away"]
        /\ status' = Cancelled(status, b) /\ auction' = auction
    BY <1>8 DEF Abort
  <2>2. status[b] # "none" BY <1>0, <2>1 DEF RecordForEveryBidder
  <2>3. \A c \in Bids : status'[c] \in Active => status[c] \in Active BY <1>c, <2>1, <2>2
  <2>4. HostType' BY <1>0, <2>1 DEF HostType
  <2>5. ClaimedIsActivated' BY <1>0, <2>1 DEF ClaimedIsActivated
  <2>6. Entitled' \subseteq Entitled BY <1>0, <2>1, <2>3 DEF Entitled
  <2> QED BY <1>0, <2>1, <2>4, <2>5, <2>6, NothingPromised
<1>9. ASSUME NEW t \in Tasks, Leave(t) PROVE CapacityInv'
  <2>1. /\ host' = [host EXCEPT ![t] = "away"]
        /\ UNCHANGED <<status, activation, auction>>
    BY <1>9 DEF Leave, store
  <2>2. HostType' BY <1>0, <2>1 DEF HostType
  <2>3. ClaimedIsActivated' BY <1>0, <2>1 DEF ClaimedIsActivated
  <2>4. Entitled' \subseteq Entitled BY <1>0, <2>1 DEF Entitled
  <2> QED BY <1>0, <2>1, <2>2, <2>3, <2>4, NothingPromised
<1>10. ASSUME ExpireReservations PROVE CapacityInv'
  <2>1. status' = Expired(status) /\ UNCHANGED <<host, activation, auction>>
    BY <1>10 DEF ExpireReservations, users
  <2> QED BY <1>0, <1>e, <2>1, LeasesOnly
<1>11. ASSUME NEW b \in Bids, DecideReject(b) PROVE CapacityInv'
  <2>1. /\ auction.on /\ status' = [status EXCEPT ![b] = "rejected"]
        /\ UNCHANGED <<host, activation>>
    BY <1>11 DEF DecideReject, users
  <2>2. auction'.on /\ auction'.ledger = auction.ledger
    BY <1>11 DEF DecideReject, CapacityInv, MarketInv, RecordsType
  <2>3. \A c \in Bids : status'[c] \in Active => status[c] \in Active
    BY <1>0, <2>1 DEF Active
  <2> QED BY <1>0, <2>1, <2>2, <2>3, LeasesOnly
<1>12. ASSUME EndAuction \/ Restart PROVE CapacityInv'
  <2>1. auction'.on = FALSE /\ UNCHANGED <<status, host, activation>>
    BY <1>12 DEF EndAuction, Restart, users, NoAuction
  <2> QED BY <1>0, <2>1, LeasesOnly
<1>13. CASE UNCHANGED <<status, host, activation, auction>> BY <1>0, <1>13, LeasesOnly
<1>14. ASSUME NEW b \in Bids, GiveUp(b) PROVE CapacityInv' BY <1>13, <1>14 DEF GiveUp, store
<1>15. ASSUME Tick PROVE CapacityInv' BY <1>13, <1>15 DEF Tick, users
<1>16. CASE UNCHANGED vars BY <1>13, <1>16 DEF vars
<1>17. ASSUME StartAuction PROVE CapacityInv' BY <1>0, <1>17, CapacityAtStart
<1>18. ASSUME NEW b \in Bids, DecideAccept(b) PROVE CapacityInv'
  BY <1>0, <1>18, CapacityAtDecision
<1> QED
  BY <1>1, <1>2, <1>3, <1>4, <1>5, <1>6, <1>7, <1>8, <1>9, <1>10, <1>11, <1>12, <1>14, <1>15,
     <1>16, <1>17, <1>18
     DEF Next, Bidders, Activations, Arbiter, Decide

(* Whatever finite numbers of tasks and bids there are, at a node whose own tasks
   fit to begin with what leases and commits give away always fits, as an auction
   goes on and between auctions, whatever expires, is cancelled, aborted or
   restarted (bidding/store.py, bidding/arbiter.py, bidding/resources.py). *)
THEOREM CapacityIsPromisedOnce ==
  ASSUME IsFiniteSet(Tasks), IsFiniteSet(Bids),
         \A r \in DOMAIN Node.capacity : Total(Need, Resident)[r] <= Node.capacity[r]
  PROVE  Spec => []CapacityPromisedOnce
<1>1. Init => CapacityInv BY MarketInit, CapacityInit
<1>2. CapacityInv /\ [Next]_vars => CapacityInv' BY CapacityStep
<1>3. CapacityInv => CapacityPromisedOnce BY DEF CapacityInv
<1> QED BY <1>1, <1>2, <1>3, PTL DEF Spec

(* --------------- An auction: nobody loses to a lesser bid -------------- *)

(* What an auction has taken and what it has still to decide. *)
RankedInTurn ==
    auction.on =>
       /\ auction.ledger \in [DOMAIN Node.capacity -> Nat]
       /\ auction.todo \subseteq Bids /\ auction.lost \subseteq Bids
       /\ auction.accepted \subseteq Bids
       /\ \A c \in auction.accepted : \A b \in auction.todo : LexLess(SortKey(c), SortKey(b))

FairInv == MarketInv /\ RankedInTurn /\ AuctionIsFair

LEMMA RemainingType ==
  ASSUME NEW R, NEW l \in [R -> Nat], NEW n, \A r \in R : n[r] \in Nat
  PROVE  /\ Remaining(l, n) \in [R -> Nat]
         /\ \A r \in R : Remaining(l, n)[r] <= l[r]
<1>1. PICK m : m = Remaining(l, n) OBVIOUS
<1>2. m = [r \in R |-> m[r]]
      /\ \A r \in R : m[r] = IF n[r] > l[r] THEN 0 ELSE l[r] - n[r]
  BY <1>1 DEF Remaining
<1>3. ASSUME NEW r \in R PROVE m[r] \in Nat /\ m[r] <= l[r]
  <2>1. PICK i, j \in Nat : i = n[r] /\ j = l[r] OBVIOUS
  <2>2. m[r] = IF i > j THEN 0 ELSE j - i BY <1>2, <2>1
  <2> QED BY <2>1, <2>2
<1>4. m \in [R -> Nat] BY <1>2, <1>3
<1> QED BY <1>1, <1>3, <1>4

(* A step that leaves the auction and what it ranks by. *)
LEMMA FairAsItWas ==
  ASSUME FairInv, MarketInv', auction' = auction, ~auction.on \/ age' = age
  PROVE  FairInv'
<1>1. RankedInTurn' BY DEF FairInv, RankedInTurn, SortKey
<1>2. AuctionIsFair' BY DEF FairInv, AuctionIsFair, SortKey, Fits
<1> QED BY <1>1, <1>2 DEF FairInv

LEMMA FairAtStart ==
  ASSUME IsFiniteSet(Tasks), IsFiniteSet(Bids), FairInv, MarketInv', StartAuction
  PROVE  FairInv'
<1>1. /\ auction'.ledger = Remaining(Node.capacity, Used(Expired(status)))
      /\ auction'.todo = InWindow(Expired(status))
      /\ auction'.lost = {} /\ auction'.accepted = {}
  BY DEF StartAuction
<1>2. PICK c : c = [r \in DOMAIN Node.capacity |-> Node.capacity[r]] OBVIOUS
<1>3. DOMAIN c = DOMAIN Node.capacity /\ c \in [DOMAIN Node.capacity -> Nat]
      /\ \A r \in DOMAIN Node.capacity : c[r] = Node.capacity[r]
  BY <1>2, MarketAssumption
<1>4. \A r \in DOMAIN Node.capacity : Used(Expired(status))[r] \in Nat
  BY UsedCovers, MarketAssumption
<1>5. Remaining(c, Used(Expired(status))) \in [DOMAIN Node.capacity -> Nat]
  BY <1>3, <1>4, RemainingType
<1>6. Remaining(Node.capacity, Used(Expired(status))) = Remaining(c, Used(Expired(status)))
  BY <1>3 DEF Remaining
<1>7. auction'.todo \subseteq Bids BY <1>1 DEF InWindow, Pending
<1>8. RankedInTurn' BY <1>1, <1>5, <1>6, <1>7 DEF RankedInTurn
<1>9. AuctionIsFair' BY <1>1 DEF AuctionIsFair
<1> QED BY <1>8, <1>9 DEF FairInv

LEMMA FairAtDecision ==
  ASSUME FairInv, MarketInv', NEW b \in Bids, DecideAccept(b) \/ DecideReject(b)
  PROVE  FairInv'
<1>1. /\ auction.on /\ auction'.on /\ b \in auction.todo /\ NextRanked(b)
      /\ auction'.todo = auction.todo \ {b}
      /\ auction'.credits = auction.credits /\ age' = age
  BY DEF DecideAccept, DecideReject, FairInv, MarketInv, RecordsType
<1>2. /\ auction.ledger \in [DOMAIN Node.capacity -> Nat]
      /\ auction.todo \subseteq Bids /\ auction.lost \subseteq Bids
      /\ auction.accepted \subseteq Bids
      /\ \A c \in auction.accepted : \A d \in auction.todo : LexLess(SortKey(c), SortKey(d))
  BY <1>1 DEF FairInv, RankedInTurn
<1>3. /\ \A d \in auction.lost :
           /\ ~Fits(d)
           /\ \A c \in auction.accepted :
                (\A r \in Resources : Need[TaskOf(c)][r] >= Need[TaskOf(d)][r])
                   => LexLess(SortKey(c), SortKey(d))
  BY <1>1 DEF FairInv, AuctionIsFair
<1>4. \A d : SortKey(d)' = SortKey(d) BY <1>1 DEF SortKey
<1>5. \A d \in Bids : \A r \in Resources : Need[TaskOf(d)][r] \in Nat
  BY MarketAssumption DEF TaskOf
<1>6. DOMAIN Node.capacity \subseteq Resources /\ DOMAIN auction.ledger = DOMAIN Node.capacity
  BY <1>2, MarketAssumption
<1>7. CASE DecideAccept(b)
  <2>1. /\ auction'.ledger = Remaining(auction.ledger, Need[TaskOf(b)])
        /\ auction'.accepted = auction.accepted \cup {b}
        /\ auction'.lost = auction.lost /\ Fits(b)
    BY <1>7 DEF DecideAccept, FairInv, MarketInv, RecordsType
  <2>2. /\ auction'.ledger \in [DOMAIN Node.capacity -> Nat]
        /\ \A r \in DOMAIN Node.capacity : auction'.ledger[r] <= auction.ledger[r]
    <3>1. PICK R, l, n : R = DOMAIN Node.capacity /\ l = auction.ledger /\ n = Need[TaskOf(b)]
      OBVIOUS
    <3>2. l \in [R -> Nat] /\ \A r \in R : n[r] \in Nat BY <1>2, <1>5, <1>6, <3>1
    <3>3. Remaining(l, n) \in [R -> Nat] /\ \A r \in R : Remaining(l, n)[r] <= l[r]
      BY <3>2, RemainingType
    <3> QED BY <2>1, <3>1, <3>3
  <2>3. RankedInTurn'
    <3>1. \A c \in auction'.accepted : \A d \in auction'.todo : LexLess(SortKey(c), SortKey(d))
      BY <1>1, <1>2, <2>1 DEF NextRanked
    <3>2. (\A c \in auction.accepted : \A d \in auction.todo : LexLess(SortKey(c), SortKey(d)))'
      BY <1>4, <3>1 DEF LexLess
    <3> QED BY <1>1, <1>2, <2>1, <2>2, <3>2 DEF RankedInTurn
  <2>4. ASSUME NEW d \in auction.lost PROVE \E r \in DOMAIN Node.capacity :
                   ~(Need[TaskOf(d)][r] <= auction.ledger[r])
    BY <1>3, <1>6 DEF Fits, FitsIn
  <2>5. ASSUME NEW d \in auction.lost PROVE ~Fits(d)'
    <3>1. PICK r \in DOMAIN Node.capacity : ~(Need[TaskOf(d)][r] <= auction.ledger[r])
      BY <2>4
    <3>2. PICK i, j, k \in Nat : i = Need[TaskOf(d)][r] /\ j = auction.ledger[r]
                                 /\ k = auction'.ledger[r]
      BY <1>2, <1>5, <1>6, <2>2
    <3>3. ~(i <= j) /\ k <= j BY <2>2, <3>1, <3>2
    <3>4. ~(i <= k) BY <3>2, <3>3
    <3>5. r \in DOMAIN auction'.ledger BY <2>2
    <3> QED BY <3>2, <3>4, <3>5 DEF Fits, FitsIn
  <2>6. ASSUME NEW d \in auction.lost,
               \A r \in Resources : Need[TaskOf(b)][r] >= Need[TaskOf(d)][r]
        PROVE  FALSE
    <3>1. PICK r \in DOMAIN Node.capacity : ~(Need[TaskOf(d)][r] <= auction.ledger[r])
      BY <2>4
    <3>2. PICK i, j, k \in Nat : i = Need[TaskOf(d)][r] /\ j = auction.ledger[r]
                                 /\ k = Need[TaskOf(b)][r]
      BY <1>2, <1>5, <1>6
    <3>3. k <= j BY <1>6, <2>1, <3>2 DEF Fits, FitsIn
    <3>4. k >= i BY <1>6, <2>6, <3>2
    <3> QED BY <3>1, <3>2, <3>3, <3>4
  <2>7. ASSUME NEW d \in auction.lost, NEW c \in auction'.accepted,
               \A r \in Resources : Need[TaskOf(c)][r] >= Need[TaskOf(d)][r]
        PROVE  LexLess(SortKey(c), SortKey(d))'
    <3>1. c \in auction.accepted BY <2>1, <2>6, <2>7
    <3>2. LexLess(SortKey(c), SortKey(d)) BY <1>3, <2>7, <3>1
    <3> QED BY <1>4, <3>2 DEF LexLess
  <2>8. AuctionIsFair' BY <2>1, <2>5, <2>7 DEF AuctionIsFair
  <2> QED BY <2>3, <2>8 DEF FairInv
<1>8. CASE DecideReject(b)
  <2>1. /\ auction'.ledger = auction.ledger /\ auction'.accepted = auction.accepted
        /\ \/ auction'.lost = auction.lost
           \/ auction'.lost = auction.lost \cup {b} /\ ~Fits(b)
    BY <1>8 DEF DecideReject, Lost, FairInv, MarketInv, RecordsType
  <2>2. RankedInTurn'
    <3>1. (\A c \in auction.accepted : \A d \in auction.todo : LexLess(SortKey(c), SortKey(d)))'
      BY <1>1, <1>2, <1>4, <2>1 DEF LexLess
    <3> QED BY <1>1, <1>2, <2>1, <3>1 DEF RankedInTurn
  <2>3. ASSUME NEW d \in auction'.lost PROVE ~Fits(d)' BY <1>3, <2>1 DEF Fits
  <2>4. ASSUME NEW d \in auction'.lost, NEW c \in auction'.accepted,
               \A r \in Resources : Need[TaskOf(c)][r] >= Need[TaskOf(d)][r]
        PROVE  LexLess(SortKey(c), SortKey(d))'
    <3>1. LexLess(SortKey(c), SortKey(d)) BY <1>1, <1>2, <1>3, <2>1, <2>4
    <3> QED BY <1>4, <3>1 DEF LexLess
  <2>5. AuctionIsFair' BY <2>3, <2>4 DEF AuctionIsFair
  <2> QED BY <2>2, <2>5 DEF FairInv
<1> QED BY <1>7, <1>8

LEMMA FairStep ==
  ASSUME IsFiniteSet(Tasks), IsFiniteSet(Bids), FairInv, [Next]_vars
  PROVE  FairInv'
<1>0. MarketInv' BY MarketStep DEF FairInv
<1>1. CASE auction' = auction /\ (~auction.on \/ age' = age) BY <1>0, <1>1, FairAsItWas
<1>2. ASSUME NEW b \in Bids,
             \/ Submit(b) \/ Poll(b) \/ GiveUp(b) \/ Renew(b) \/ Release(b)
             \/ BeginActivation(b) \/ Claim(b) \/ Started(b) \/ Consume(b) \/ Abort(b)
      PROVE  FairInv'
  <2>1. auction' = auction /\ age' = age
    BY <1>2 DEF Submit, Poll, GiveUp, Renew, Release, BeginActivation, Claim, Started, Consume,
                Abort, store
  <2> QED BY <1>1, <2>1
<1>3. ASSUME NEW t \in Tasks, Leave(t) PROVE FairInv' BY <1>1, <1>3 DEF Leave, store
<1>4. ASSUME StartAuction PROVE FairInv' BY <1>0, <1>4, FairAtStart
<1>5. ASSUME ExpireReservations PROVE FairInv' BY <1>1, <1>5 DEF ExpireReservations
<1>6. ASSUME NEW b \in Bids, DecideAccept(b) \/ DecideReject(b) PROVE FairInv'
  BY <1>0, <1>6, FairAtDecision
<1>7. ASSUME EndAuction \/ Restart PROVE FairInv'
  <2>1. ~auction'.on BY <1>7 DEF EndAuction, Restart, NoAuction
  <2> QED BY <1>0, <2>1 DEF FairInv, RankedInTurn, AuctionIsFair
<1>8. ASSUME Tick PROVE FairInv'
  <2>1. auction' = auction /\ ~auction.on BY <1>8 DEF Tick, Awake
  <2> QED BY <1>1, <2>1
<1>9. CASE UNCHANGED vars BY <1>1, <1>9 DEF vars
<1> QED
  BY <1>2, <1>3, <1>4, <1>5, <1>6, <1>7, <1>8, <1>9
     DEF Next, Bidders, Activations, Arbiter, Decide

(* With any strategy and any finite number of bids: who loses an auction does
   not lose it to a bid that ranks after it and needs as much, and what it
   needs is not left when the auction ends (bidding/arbiter.py: run_once, with
   bidding/ranking.py and resources.py). *)
THEOREM AuctionsAreFair ==
  ASSUME IsFiniteSet(Tasks), IsFiniteSet(Bids)
  PROVE  Spec => []AuctionIsFair
<1>1. Init => FairInv
  BY MarketInit DEF Init, NoAuction, FairInv, RankedInTurn, AuctionIsFair
<1>2. FairInv /\ [Next]_vars => FairInv' BY FairStep
<1>3. FairInv => AuctionIsFair BY DEF FairInv
<1> QED BY <1>1, <1>2, <1>3, PTL DEF Spec

(* ---------------------- Credit is for those who lost ------------------- *)

(* Who lost could have been served, is rejected, and asked for a task for which
   nothing was accepted. *)
LosersAreRejected ==
    auction.on =>
       \A b \in auction.lost :
          /\ Feasible(b) /\ status[b] = "rejected"
          /\ \A c \in auction.accepted : TaskOf(c) # TaskOf(b)

CreditInv == FairInv /\ credit \in [Tasks -> Nat] /\ LosersAreRejected

CreditStep ==
    \A t \in Tasks : credit'[t] > credit[t]
       => /\ \E b \in Bids : TaskOf(b) = t /\ Feasible(b) /\ status[b] = "rejected"
          /\ \A b \in auction.accepted : TaskOf(b) # t

LEMMA ShareIsNoMore ==
  ASSUME NEW n \in Nat, NEW d \in 0 .. 100
  PROVE  (n * d) \div 100 \in Nat /\ (n * d) \div 100 <= n
<1>1. PICK e \in Nat : d = 100 - e /\ d \in Nat
  <2>1. 100 - d \in Nat /\ d = 100 - (100 - d) OBVIOUS
  <2> QED BY <2>1
<1>2. PICK m \in Nat : m = n * d BY <1>1
<1>3. m <= 100 * n
  <2>1. n * e \in Nat OBVIOUS
  <2>2. n * d = 100 * n - n * e BY <1>1
  <2> QED BY <1>2, <2>1, <2>2
<1>4. m \div 100 \in Nat /\ m \div 100 <= n BY <1>3
<1> QED BY <1>2, <1>4

LEMMA SettledCreditBounds ==
  ASSUME IsFiniteSet(Bids), CreditInv, auction.on, NEW t \in Tasks
  PROVE  /\ SettledCredit(t) \in Nat
         /\ (\A b \in auction.lost : TaskOf(b) # t) => SettledCredit(t) <= credit[t]
<1> DEFINE L == {b \in auction.lost : TaskOf(b) = t}
           won == \E b \in auction.accepted : TaskOf(b) = t
<1>0. credit[t] \in Nat /\ Policy.max \in Nat /\ Policy.increment \in Nat
      /\ Policy.decay \in 0 .. 100
  BY MarketAssumption DEF CreditInv
<1>1. L \subseteq Bids BY DEF CreditInv, FairInv, RankedInTurn
<1>2. IsFiniteSet(L) /\ Cardinality(L) \in Nat BY <1>1, FS_Subset, FS_CardinalityType
<1>3. PICK base : base = IF won THEN (credit[t] * Policy.decay) \div 100 ELSE credit[t]
  OBVIOUS
<1>4. base \in Nat /\ base <= credit[t]
  <2>1. (credit[t] * Policy.decay) \div 100 \in Nat
        /\ (credit[t] * Policy.decay) \div 100 <= credit[t]
    BY <1>0, ShareIsNoMore
  <2>2. credit[t] <= credit[t] BY <1>0
  <2> QED BY <1>0, <1>3, <2>1, <2>2
<1>5. SettledCredit(t) = IF Cardinality(L) = 0 THEN base
                         ELSE Min({Policy.max, base + Cardinality(L) * Policy.increment})
  BY <1>3 DEF SettledCredit
<1> HIDE DEF L
<1>6. \A i, j \in Nat : Min({i, j}) \in Nat
  <2> SUFFICES ASSUME NEW i \in Nat, NEW j \in Nat PROVE Min({i, j}) \in Nat OBVIOUS
  <2>1. \E x \in {i, j} : \A y \in {i, j} : x <= y
    <3>1. CASE i <= j BY <3>1
    <3>2. CASE ~(i <= j)
      <4>1. j <= i BY <3>2
      <4> QED BY <4>1
    <3> QED BY <3>1, <3>2
  <2>2. Min({i, j}) \in {i, j} BY <2>1 DEF Min
  <2> QED BY <2>2
<1>7. base + Cardinality(L) * Policy.increment \in Nat
  <2>1. Cardinality(L) * Policy.increment \in Nat BY <1>0, <1>2
  <2> QED BY <1>4, <2>1
<1>8. SettledCredit(t) \in Nat BY <1>0, <1>4, <1>5, <1>6, <1>7
<1>9. ASSUME \A b \in auction.lost : TaskOf(b) # t PROVE SettledCredit(t) <= credit[t]
  <2>1. L = {} BY <1>9 DEF L
  <2>2. Cardinality(L) = 0 BY <2>1, FS_EmptySet
  <2> QED BY <1>4, <1>5, <2>2
<1> QED BY <1>8, <1>9

LEMMA CreditAtDecision ==
  ASSUME CreditInv, FairInv', NEW b \in Bids, DecideAccept(b) \/ DecideReject(b)
  PROVE  LosersAreRejected'
<1>1. /\ auction.on /\ auction'.on /\ b \in auction.todo
  BY DEF DecideAccept, DecideReject, CreditInv, FairInv, MarketInv, RecordsType
<1>2. /\ status \in [Bids -> Status] /\ status[b] = "pending" /\ auction.lost \subseteq Bids
      /\ \A d \in auction.lost :
           /\ Feasible(d) /\ status[d] = "rejected"
           /\ \A c \in auction.accepted : TaskOf(c) # TaskOf(d)
  BY <1>1 DEF CreditInv, LosersAreRejected, FairInv, MarketInv, RecordsType, TodoIsPending,
              RankedInTurn
<1>3. CASE DecideAccept(b)
  <2>1. /\ status' = [status EXCEPT ![b] = "accepted"] /\ Fits(b)
        /\ auction'.accepted = auction.accepted \cup {b} /\ auction'.lost = auction.lost
    BY <1>3 DEF DecideAccept, CreditInv, FairInv, MarketInv, RecordsType
  <2>2. ASSUME NEW d \in auction.lost PROVE TaskOf(b) # TaskOf(d)
    <3>1. ~Fits(d) BY <1>1 DEF CreditInv, FairInv, AuctionIsFair
    <3> QED BY <2>1, <3>1 DEF Fits
  <2>3. \A d \in auction.lost : status'[d] = "rejected" BY <1>2, <2>1
  <2>4. \A d \in auction.lost : Feasible(d)' BY <1>2 DEF Feasible
  <2> QED BY <1>2, <2>1, <2>2, <2>3, <2>4 DEF LosersAreRejected
<1>4. CASE DecideReject(b)
  <2>1. /\ status' = [status EXCEPT ![b] = "rejected"]
        /\ auction'.accepted = auction.accepted
        /\ \/ auction'.lost = auction.lost
           \/ auction'.lost = auction.lost \cup {b} /\ Lost(b)
    BY <1>4 DEF DecideReject, CreditInv, FairInv, MarketInv, RecordsType
  <2>2. Lost(b) => Feasible(b) /\ \A c \in auction.accepted : TaskOf(c) # TaskOf(b)
    BY DEF Lost, Duplicate
  <2>3. \A d \in auction'.lost : status'[d] = "rejected" BY <1>2, <2>1
  <2>4. \A d \in auction'.lost : Feasible(d)' BY <1>2, <2>1, <2>2 DEF Feasible
  <2> QED BY <1>2, <2>1, <2>2, <2>3, <2>4 DEF LosersAreRejected
<1> QED BY <1>3, <1>4

LEMMA CreditKept ==
  ASSUME IsFiniteSet(Tasks), IsFiniteSet(Bids), CreditInv, [Next]_vars
  PROVE  CreditInv' /\ [CreditStep]_vars
<1>0. FairInv' /\ credit \in [Tasks -> Nat] BY FairStep DEF CreditInv
<1>1. CASE credit' = credit /\ auction' = auction /\ (~auction.on \/ status' = status)
  <2>1. LosersAreRejected' BY <1>1 DEF CreditInv, LosersAreRejected, Feasible
  <2>2. CreditStep BY <1>0, <1>1 DEF CreditStep
  <2> QED BY <1>0, <1>1, <2>1, <2>2 DEF CreditInv
<1>2. ASSUME NEW b \in Bids,
             \/ Submit(b) \/ Poll(b) \/ GiveUp(b) \/ Renew(b) \/ Release(b)
             \/ BeginActivation(b) \/ Claim(b) \/ Started(b) \/ Consume(b) \/ Abort(b)
      PROVE  CreditInv' /\ CreditStep
  <2>1. credit' = credit /\ auction' = auction /\ (~auction.on \/ status' = status)
    BY <1>2 DEF Submit, Poll, GiveUp, Renew, Release, BeginActivation, Claim, Started, Consume,
                Abort, Awake, store
  <2>2. CreditStep BY <1>0, <2>1 DEF CreditStep
  <2> QED BY <1>1, <2>1, <2>2
<1>3. ASSUME NEW b \in Bids, DecideAccept(b) \/ DecideReject(b)
      PROVE  CreditInv' /\ CreditStep
  <2>1. credit' = credit BY <1>3 DEF DecideAccept, DecideReject
  <2>2. LosersAreRejected' BY <1>0, <1>3, CreditAtDecision
  <2>3. CreditStep BY <1>0, <2>1 DEF CreditStep
  <2> QED BY <1>0, <2>1, <2>2, <2>3 DEF CreditInv
<1>4. ASSUME NEW t \in Tasks, Leave(t) PROVE CreditInv' /\ CreditStep
  <2>1. credit' = credit /\ auction' = auction /\ status' = status BY <1>4 DEF Leave, store
  <2>2. CreditStep BY <1>0, <2>1 DEF CreditStep
  <2> QED BY <1>1, <2>1, <2>2
<1>5. ASSUME StartAuction PROVE CreditInv' /\ CreditStep
  <2>1. credit' = credit /\ auction'.lost = {} BY <1>5 DEF StartAuction
  <2>2. CreditStep BY <1>0, <2>1 DEF CreditStep
  <2>3. LosersAreRejected' BY <2>1 DEF LosersAreRejected
  <2> QED BY <1>0, <2>1, <2>2, <2>3 DEF CreditInv
<1>6. ASSUME ExpireReservations \/ Tick PROVE CreditInv' /\ CreditStep
  <2>1. credit' = credit /\ auction' = auction /\ ~auction.on
    BY <1>6 DEF ExpireReservations, Tick, Awake
  <2>2. CreditStep BY <1>0, <2>1 DEF CreditStep
  <2> QED BY <1>1, <2>1, <2>2
<1>7. ASSUME EndAuction PROVE CreditInv' /\ CreditStep
  <2>1. /\ auction.on /\ ~auction'.on
        /\ credit' = [t \in Tasks |-> SettledCredit(t)]
    BY <1>7 DEF EndAuction, NoAuction
  <2>2. \A t \in Tasks :
          /\ SettledCredit(t) \in Nat
          /\ (\A b \in auction.lost : TaskOf(b) # t) => SettledCredit(t) <= credit[t]
    BY <2>1, SettledCreditBounds
  <2>3. credit' \in [Tasks -> Nat] /\ \A t \in Tasks : credit'[t] = SettledCredit(t)
    BY <2>1, <2>2
  <2>4. LosersAreRejected' BY <2>1 DEF LosersAreRejected
  <2>5. ASSUME NEW t \in Tasks, credit'[t] > credit[t]
        PROVE  /\ \E b \in Bids : TaskOf(b) = t /\ Feasible(b) /\ status[b] = "rejected"
               /\ \A b \in auction.accepted : TaskOf(b) # t
    <3>1. PICK i, j \in Nat : i = credit'[t] /\ j = credit[t] BY <1>0, <2>3
    <3>2. ~(i <= j) BY <2>5, <3>1
    <3>3. PICK b \in auction.lost : TaskOf(b) = t BY <2>2, <2>3, <3>1, <3>2
    <3>4. /\ b \in Bids /\ Feasible(b) /\ status[b] = "rejected"
          /\ \A c \in auction.accepted : TaskOf(c) # TaskOf(b)
      BY <2>1 DEF CreditInv, LosersAreRejected, FairInv, RankedInTurn
    <3> QED BY <3>3, <3>4
  <2>6. CreditStep BY <2>5 DEF CreditStep
  <2> QED BY <1>0, <2>3, <2>4, <2>6 DEF CreditInv
<1>8. ASSUME Restart PROVE CreditInv' /\ CreditStep
  <2>1. credit' = credit /\ ~auction'.on BY <1>8 DEF Restart, NoAuction
  <2>2. CreditStep BY <1>0, <2>1 DEF CreditStep
  <2>3. LosersAreRejected' BY <2>1 DEF LosersAreRejected
  <2> QED BY <1>0, <2>1, <2>2, <2>3 DEF CreditInv
<1>9. CASE UNCHANGED vars
  <2>1. credit' = credit /\ auction' = auction /\ status' = status BY <1>9 DEF vars
  <2> QED BY <1>1, <2>1
<1> QED
  BY <1>2, <1>3, <1>4, <1>5, <1>6, <1>7, <1>8, <1>9
     DEF Next, Bidders, Activations, Arbiter, Decide

(* Credit grows only with an auction that the task lost to others: one of its
   bids was rejected that the node could have served, and none of its bids was
   accepted (bidding/arbiter.py: run_once, store.py: apply_credit_outcomes). *)
THEOREM CreditIsForLosers ==
  ASSUME IsFiniteSet(Tasks), IsFiniteSet(Bids)
  PROVE  Spec => CreditOnlyForLosers
<1>1. Init => CreditInv
  BY MarketInit
     DEF Init, NoAuction, CreditInv, FairInv, RankedInTurn, AuctionIsFair, LosersAreRejected
<1>2. CreditInv /\ [Next]_vars => CreditInv' /\ [CreditStep]_vars BY CreditKept
<1>3. CreditOnlyForLosers <=> [][CreditStep]_vars BY PTL DEF CreditOnlyForLosers, CreditStep
<1> QED BY <1>1, <1>2, <1>3, PTL DEF Spec
===============================================================================
