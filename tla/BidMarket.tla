------------------------------- MODULE BidMarket ------------------------------
(***************************************************************************)
(* One destination's market for its capacity: the bid store                *)
(* (src/magellan/bidding/store.py), the arbiter (bidding/arbiter.py), the  *)
(* clients of the bidders (bidding/client.py) and, seen from the market,   *)
(* the activations and the local tasks that use the capacity.              *)
(*                                                                         *)
(* The store's methods never await while they hold the lock and run_once   *)
(* awaits nothing else, so an auction runs without another call in between *)
(* -- but it writes the store once per decision, so the daemon may die     *)
(* between two of them.  Time passes in ticks: a lease has ticks left and  *)
(* a bid has an age.                                                       *)
(***************************************************************************)
EXTENDS Admission, FiniteSets

CONSTANTS Tasks,        \* tasks that run or may run at this node
          Resident,     \* those it owns to begin with
          Bids,         \* numbers of the bids that may be made
          Offer,        \* [Bids -> what the bid says], see Offers
          Need,         \* [Tasks -> [Resources -> Nat]]   resource_request
          Node,         \* [capacity, accelerators, capabilities] of the node
          Policy,       \* [strategy, increment, max, decay (percent), window, floor]
          Ttl,          \* ticks of a lease
          Window,       \* ticks of the bid window
          MaxAge,       \* bound: ticks that a bid waits for an arbiter that runs
          MaxRestarts,  \* bound: restarts of the daemon
          MaxRenewals   \* bound: renewals of a lease by its heartbeat

ASSUME MarketAssumption ==
    /\ Resident \subseteq Tasks
    /\ Bids \subseteq Nat
    /\ \A b \in Bids : Offer[b].task \in Tasks
    /\ Need \in [Tasks -> [Resources -> Nat]]
    /\ DOMAIN Node.capacity \subseteq Resources
    /\ \A r \in DOMAIN Node.capacity : Node.capacity[r] \in Nat
    /\ Policy.max \in Nat /\ Policy.increment \in Nat /\ Policy.decay \in 0 .. 100
    /\ Ttl \in Nat \ {0}
    /\ Window \in Nat /\ MaxAge \in Nat /\ MaxRestarts \in Nat /\ MaxRenewals \in Nat

Status == {"none", "pending", "accepted", "activating", "consumed", "rejected",
           "cancelled", "expired"}
Active == {"accepted", "activating"}            \* _ACTIVE_RESERVATION_STATUSES
Final  == {"consumed", "rejected", "cancelled", "expired"}

VARIABLES status,     \* [Bids -> Status]              records of the store
          left,       \* [Bids -> 0 .. Ttl]            reservation_expires_at_utc
          age,        \* [Bids -> 0 .. MaxAge]         received_at_utc
          credit,     \* [Tasks -> Nat]                credits of the store
          host,       \* [Tasks -> ...]   how the registry sees the task
          bidder,     \* [Bids -> ...]    submit_and_wait, then migrate, of the bid
          activation, \* [Bids -> ...]    activate_incoming for the bid
          auction,    \* the auction in progress: the local variables of run_once
          bounds      \* restarts and renewals left

vars == <<status, left, age, credit, host, bidder, activation, auction, bounds>>
store == <<status, left, age, credit>>
users == <<host, bidder, activation>>

TaskOf(b) == Offer[b].task
NoAuction == [on |-> FALSE, todo |-> {}, accepted |-> {}, lost |-> {},
              credits |-> [t \in Tasks |-> 0],
              ledger |-> Node.capacity]

(* "claimed" is a task that claim_local made this node's but left STOPPED,
   which is not a status that counts against the capacity. *)
TypeOK ==
    /\ status \in [Bids -> Status]
    /\ left \in [Bids -> 0 .. Ttl]
    /\ age \in [Bids -> 0 .. MaxAge]
    /\ credit \in [Tasks -> 0 .. Policy.max]
    /\ host \in [Tasks -> {"away", "claimed", "counted"}]
    /\ bidder \in [Bids -> {"new", "waiting", "holding", "gone"}]
    /\ activation \in [Bids -> {"none", "begun", "claimed", "running"}]
    /\ auction.on \in BOOLEAN
    /\ auction.todo \subseteq Bids /\ auction.accepted \subseteq Bids /\ auction.lost \subseteq Bids
    /\ bounds \in [restarts : 0 .. MaxRestarts, renewals : 0 .. MaxRenewals]

Init ==
    /\ status = [b \in Bids |-> "none"]
    /\ left = [b \in Bids |-> 0]
    /\ age = [b \in Bids |-> 0]
    /\ credit = [t \in Tasks |-> 0]
    /\ host = [t \in Tasks |-> IF t \in Resident THEN "counted" ELSE "away"]
    /\ bidder = [b \in Bids |-> "new"]
    /\ activation = [b \in Bids |-> "none"]
    /\ auction = NoAuction
    /\ bounds = [restarts |-> MaxRestarts, renewals |-> MaxRenewals]

(* ------------------------------ the store ------------------------------ *)

(* _expire_locked: the leases that are over, whoever looks at the store. *)
Expired(s) == [b \in Bids |-> IF s[b] \in Active /\ left[b] = 0 THEN "expired" ELSE s[b]]

Awake == ~auction.on      \* no auction has the event loop

(* submit: POST /bids.  The answer may be lost, then submit_and_wait raises and
   the bidder is gone; if the request is lost, nothing happens here. *)
Submit(b) ==
    /\ Awake /\ bidder[b] = "new" /\ host[TaskOf(b)] = "away"
    /\ \A c \in Bids : TaskOf(c) = TaskOf(b) => bidder[c] \in {"new", "gone"}
    /\ status' = [status EXCEPT ![b] = "pending"]
    /\ \E answered \in BOOLEAN :
          bidder' = [bidder EXCEPT ![b] = IF answered THEN "waiting" ELSE "gone"]
    /\ UNCHANGED <<left, age, credit, host, activation, auction, bounds>>

(* A poll of GET /bids/{id}, which expires what is due before it looks. *)
Poll(b) ==
    LET now == Expired(status) IN
    /\ Awake /\ bidder[b] = "waiting"
    /\ status' = now
    /\ bidder' = [bidder EXCEPT ![b] = CASE now[b] = "pending"  -> "waiting"
                                         [] now[b] = "accepted" -> "holding"
                                         [] OTHER               -> "gone"]
    /\ UNCHANGED <<left, age, credit, host, activation, auction, bounds>>

(* The deadline of submit_and_wait, or a poll that fails. *)
GiveUp(b) ==
    /\ bidder[b] = "waiting"
    /\ bidder' = [bidder EXCEPT ![b] = "gone"]
    /\ UNCHANGED <<store, host, activation, auction, bounds>>

(* renew, by the heartbeat of the source; it raises for a lease that is over. *)
Renew(b) ==
    /\ Awake /\ bidder[b] = "holding" /\ bounds.renewals > 0
    /\ status' = Expired(status)
    /\ left' = IF status'[b] \in Active THEN [left EXCEPT ![b] = Ttl] ELSE left
    /\ bounds' = [bounds EXCEPT !.renewals = @ - 1]
    /\ UNCHANGED <<age, credit, host, bidder, activation, auction>>

Cancelled(s, b) == IF s[b] \in Final THEN s ELSE [s EXCEPT ![b] = "cancelled"]

(* The source's migration fails or is rolled back: POST /bids/{id}/cancel,
   which may be lost; the source's heartbeat ends either way. *)
Release(b) ==
    /\ Awake /\ bidder[b] = "holding"
    /\ bidder' = [bidder EXCEPT ![b] = "gone"]
    /\ \E sent \in BOOLEAN : status' = IF sent THEN Cancelled(status, b) ELSE status
    /\ left' = [left EXCEPT ![b] = IF status'[b] = "cancelled" THEN 0 ELSE @]
    /\ UNCHANGED <<age, credit, host, activation, auction, bounds>>

(* ------------------- activation, as the market sees it ----------------- *)

(* begin_activation.  Its request may come when the source has given it up. *)
BeginActivation(b) ==
    /\ Awake /\ bidder[b] \in {"holding", "gone"} /\ activation[b] = "none"
    /\ host[TaskOf(b)] = "away"
    /\ \A c \in Bids : TaskOf(c) = TaskOf(b) => activation[c] = "none"
    /\ LET now == Expired(status) IN
       /\ now[b] = "accepted"
       /\ status' = [now EXCEPT ![b] = "activating"]
    /\ activation' = [activation EXCEPT ![b] = "begun"]
    /\ UNCHANGED <<left, age, credit, host, bidder, auction, bounds>>

(* claim_local and the start of the process, in threads: an auction may be on. *)
Claim(b) ==
    /\ activation[b] = "begun"
    /\ activation' = [activation EXCEPT ![b] = "claimed"]
    /\ host' = [host EXCEPT ![TaskOf(b)] = "claimed"]
    /\ UNCHANGED <<store, bidder, auction, bounds>>

Started(b) ==
    /\ activation[b] = "claimed"
    /\ activation' = [activation EXCEPT ![b] = "running"]
    /\ host' = [host EXCEPT ![TaskOf(b)] = "counted"]
    /\ UNCHANGED <<store, bidder, auction, bounds>>

(* Mutant: the lease is not looked at again. *)
Consume_Unchecked(b) ==
    /\ Awake /\ activation[b] = "running"
    /\ status' = [status EXCEPT ![b] = "consumed"]
    /\ left' = [left EXCEPT ![b] = 0]
    /\ activation' = [activation EXCEPT ![b] = "none"]
    /\ UNCHANGED <<age, credit, host, bidder, auction, bounds>>

(* consume: only an activating lease; it does not expire leases itself. *)
Consume(b) ==
    /\ Awake /\ activation[b] = "running" /\ status[b] = "activating"
    /\ status' = [status EXCEPT ![b] = "consumed"]
    /\ left' = [left EXCEPT ![b] = 0]
    /\ activation' = [activation EXCEPT ![b] = "none"]
    /\ UNCHANGED <<age, credit, host, bidder, auction, bounds>>

(* Any failure of the activation, a lease that expired meanwhile being one;
   also the reconciliation after a restart that finds it incomplete. *)
Abort(b) ==
    /\ Awake /\ activation[b] # "none"
    /\ activation' = [activation EXCEPT ![b] = "none"]
    /\ host' = [host EXCEPT ![TaskOf(b)] = "away"]
    /\ status' = Cancelled(status, b)
    /\ left' = [left EXCEPT ![b] = IF status'[b] = "cancelled" THEN 0 ELSE @]
    /\ UNCHANGED <<age, credit, bidder, auction, bounds>>

(* A task that runs here completes, or is given to another node. *)
Leave(t) ==
    /\ host[t] = "counted"
    /\ \A b \in Bids : TaskOf(b) = t => activation[b] = "none"
    /\ host' = [host EXCEPT ![t] = "away"]
    /\ UNCHANGED <<store, bidder, activation, auction, bounds>>

(* ------------------------------ the arbiter ---------------------------- *)

Pending(s) == {b \in Bids : s[b] = "pending"}

(* Once it is decided nobody looks at when a bid came. *)
AgeOfPending == [b \in Bids |-> IF status[b] = "pending" THEN age[b] ELSE 0]

(* _available_resources: what the registry counts and what is reserved.  A
   task that is both is counted twice. *)
Used(s) ==
    [r \in Resources |->
        Total(Need, {t \in Tasks : host[t] = "counted"})[r]
        + MapThenSumSet(LAMBDA b : Need[TaskOf(b)][r], {b \in Bids : s[b] \in Active})]

(* The window is that of the oldest pending bid, the later bids wait. *)
InWindow(s) ==
    LET oldest == Max({age[b] : b \in Pending(s)})
    IN  {b \in Pending(s) : oldest - age[b] <= Window}

(* Mutant: no auction while the node is full. *)
StartAuction_WhenFree ==
    LET now == Expired(status) IN
    /\ Awake /\ Pending(now) # {}
    /\ Max({age[b] : b \in Pending(now)}) >= Window
    /\ \A r \in DOMAIN Node.capacity : Remaining(Node.capacity, Used(now))[r] > 0
    /\ status' = now
    /\ auction' = [on |-> TRUE, todo |-> InWindow(now), accepted |-> {}, lost |-> {},
                   credits |-> credit, ledger |-> Remaining(Node.capacity, Used(now))]
    /\ UNCHANGED <<left, age, credit, users, bounds>>

(* run_once, up to the loop over the ranked bids. *)
StartAuction ==
    LET now == Expired(status) IN
    /\ Awake /\ Pending(now) # {}
    /\ Max({age[b] : b \in Pending(now)}) >= Window
    /\ status' = now
    /\ auction' = [on |-> TRUE, todo |-> InWindow(now), accepted |-> {}, lost |-> {},
                   credits |-> credit, ledger |-> Remaining(Node.capacity, Used(now))]
    /\ UNCHANGED <<left, age, credit, users, bounds>>

(* Mutant: the scan returns early when nothing is pending. *)
ExpireReservations_WhenAsked ==
    LET now == Expired(status) IN
    /\ Awake /\ Pending(status) # {}
    /\ now # status
    /\ status' = now
    /\ UNCHANGED <<left, age, credit, users, auction, bounds>>

(* The scan that finds nothing to decide still expires what is due. *)
ExpireReservations ==
    LET now == Expired(status) IN
    /\ Awake
    /\ now # status
    /\ status' = now
    /\ UNCHANGED <<left, age, credit, users, auction, bounds>>

SortKey(b) ==
    LET t == TaskOf(b) IN
    <<RankKey(Policy.strategy, Node.capacity, Policy, Offer[b], Need[t], auction.credits[t], age[b]),
      Offer[b].score, -age[b], b>>

(* Mutant: the best bid is decided last. *)
NextRanked_Worst(b) == \A c \in auction.todo \ {b} : LexLess(SortKey(c), SortKey(b))

NextRanked(b) == \A c \in auction.todo \ {b} : LexLess(SortKey(b), SortKey(c))

(* A bid the node could never serve, however little it has to do. *)
Feasible(b) ==
    /\ Compatible(Offer[b].wants, Node.capabilities)
    /\ AcceleratorFits(Node, Offer[b], Need[TaskOf(b)])
    /\ FitsIn(Node.capacity, Need[TaskOf(b)])

Duplicate(b) == \E c \in auction.accepted : TaskOf(c) = TaskOf(b)

Fits(b) == FitsIn(auction.ledger, Need[TaskOf(b)])

(* One turn of run_once's loop, with the store's decide. *)
DecideAccept(b) ==
    /\ auction.on /\ b \in auction.todo /\ NextRanked(b)
    /\ ~Duplicate(b) /\ Feasible(b) /\ Fits(b)
    /\ status' = [status EXCEPT ![b] = "accepted"]
    /\ left' = [left EXCEPT ![b] = Ttl]
    /\ auction' = [auction EXCEPT !.todo = @ \ {b}, !.accepted = @ \cup {b},
                                  !.ledger = Remaining(@, Need[TaskOf(b)])]
    /\ UNCHANGED <<age, credit, users, bounds>>

(* Mutant: whoever is rejected earns credit. *)
Lost_Everybody(b) == TRUE

(* Only a bid that would have been served without its competitors. *)
Lost(b) == ~Duplicate(b) /\ Feasible(b) /\ ~Fits(b)

DecideReject(b) ==
    /\ auction.on /\ b \in auction.todo /\ NextRanked(b)
    /\ Duplicate(b) \/ ~Feasible(b) \/ ~Fits(b)
    /\ status' = [status EXCEPT ![b] = "rejected"]
    /\ auction' = [auction EXCEPT !.todo = @ \ {b},
                                  !.lost = IF Lost(b) THEN @ \cup {b} ELSE @]
    /\ UNCHANGED <<left, age, credit, users, bounds>>

(* What apply_credit_outcomes leaves a task: decay for each bid that won,
   then the increment, up to the maximum, for each that lost. *)
SettledCredit(t) ==
    LET won    == \E b \in auction.accepted : TaskOf(b) = t
        losses == Cardinality({b \in auction.lost : TaskOf(b) = t})
        base   == IF won THEN (credit[t] * Policy.decay) \div 100 ELSE credit[t]
    IN  IF losses = 0 THEN base ELSE Min({Policy.max, base + losses * Policy.increment})

(* apply_credit_outcomes, written once, after all the decisions. *)
EndAuction ==
    /\ auction.on /\ auction.todo = {}
    /\ credit' = [t \in Tasks |-> SettledCredit(t)]
    /\ auction' = NoAuction
    /\ age' = AgeOfPending
    /\ UNCHANGED <<status, left, users, bounds>>

(* ------------------------- the daemon and the time --------------------- *)

(* Mutant: what was decided before the crash is decided again. *)
Restart_Undecided ==
    /\ bounds.restarts > 0
    /\ bounds' = [bounds EXCEPT !.restarts = @ - 1]
    /\ auction' = NoAuction
    /\ status' = [b \in Bids |-> IF b \in auction.accepted THEN "pending" ELSE status[b]]
    /\ UNCHANGED <<left, age, credit, users>>

(* Records and credits survive, the auction does not. *)
Restart ==
    /\ bounds.restarts > 0
    /\ bounds' = [bounds EXCEPT !.restarts = @ - 1]
    /\ auction' = NoAuction
    /\ age' = AgeOfPending
    /\ UNCHANGED <<status, left, credit, users>>

(* A tick makes every lease shorter and every bid older.  The arbiter scans
   every quarter of a second, so that no bid gets older than MaxAge. *)
Tick ==
    /\ Awake
    /\ \A b \in Pending(status) : age[b] < MaxAge
    /\ left' = [b \in Bids |-> IF left[b] > 0 THEN left[b] - 1 ELSE 0]
    /\ age' = [b \in Bids |-> IF status[b] = "pending" THEN age[b] + 1 ELSE 0]
    /\ left' # left \/ age' # age
    /\ UNCHANGED <<status, credit, users, auction, bounds>>

Bidders == \E b \in Bids : Submit(b) \/ Poll(b) \/ GiveUp(b) \/ Renew(b) \/ Release(b)
Activations == \E b \in Bids : BeginActivation(b) \/ Claim(b) \/ Started(b) \/ Consume(b) \/ Abort(b)
Decide == \E b \in Bids : DecideAccept(b) \/ DecideReject(b)
Arbiter == StartAuction \/ ExpireReservations \/ Decide \/ EndAuction

Next ==
    \/ Bidders
    \/ Activations
    \/ \E t \in Tasks : Leave(t)
    \/ Arbiter
    \/ Restart
    \/ Tick

Spec == Init /\ [][Next]_vars

(* The arbiter's loop runs, time passes, an activation ends in one way or the
   other.  Nothing is assumed of bidders and of tasks that run here. *)
FairSpec ==
    /\ Spec
    /\ WF_vars(Arbiter)
    /\ WF_vars(Tick)
    /\ \A b \in Bids : WF_vars(Consume(b) \/ Abort(b))

(* ------------------------------ properties ----------------------------- *)

(* A task uses the capacity that an active lease, or a commit, gave it.  An
   activation that runs on after its lease has expired, or was cancelled by
   its source, uses what it has no right to: consume will refuse it. *)
Entitled ==
    {t \in Tasks :
       \/ \E b \in Bids : TaskOf(b) = t /\ status[b] \in Active
       \/ host[t] # "away" /\ \A b \in Bids : TaskOf(b) = t => activation[b] = "none"}

(* Capacity is promised once: what leases and commits give away fits the node,
   whatever expires, is cancelled, aborted or restarted in between, and a late
   activation never turns into a commit beside the one that replaced it. *)
CapacityPromisedOnce ==
    \A r \in DOMAIN Node.capacity : Total(Need, Entitled)[r] <= Node.capacity[r]

(* A bid goes from pending to a decision to an end and never back, whoever
   calls the store in whatever order and whenever the daemon dies. *)
Successors ==
    [s \in Status |->
       CASE s = "none"       -> {"pending"}
         [] s = "pending"    -> {"accepted", "rejected", "cancelled"}
         [] s = "accepted"   -> {"activating", "cancelled", "expired"}
         [] s = "activating" -> {"consumed", "cancelled", "expired"}
         [] OTHER            -> {}]
DecidedOnce == [][\A b \in Bids : status'[b] # status[b] => status'[b] \in Successors[status[b]]]_vars

(* Nobody loses to a bid that ranks after it and needs at least as much, and
   nobody is refused capacity that is still there when the auction ends. *)
AuctionIsFair ==
    auction.on =>
       \A b \in auction.lost :
          /\ ~Fits(b)
          /\ \A c \in auction.accepted :
                (\A r \in Resources : Need[TaskOf(c)][r] >= Need[TaskOf(b)][r])
                   => LexLess(SortKey(c), SortKey(b))

(* Credit is for those who lost to others: a task whose requests the node can
   never serve earns none, and a winner never comes out with more. *)
CreditOnlyForLosers ==
    [][\A t \in Tasks : credit'[t] > credit[t]
          => /\ \E b \in Bids : TaskOf(b) = t /\ Feasible(b) /\ status[b] = "rejected"
             /\ \A b \in auction.accepted : TaskOf(b) # t]_vars

(* A promise ends, also when the bidder that got it is gone for good. *)
LeaseEnds == \A b \in Bids : status[b] \in Active ~> status[b] \in Final

(* Every bid is decided, restarts or not. *)
BidDecided == \A b \in Bids : status[b] = "pending" ~> status[b] # "pending"
===============================================================================
