\* Three bids of two tasks for two cores, each task needing both.
SPECIFICATION FairSpec
CONSTANTS
  Tasks <- MCTasks
  Resident = {}
  Bids <- MCBids
  Offer <- MCOffer
  Need <- MCNeed
  Node <- MCNode
  Policy <- MCPolicy
  Ttl = 2
  Window = 1
  MaxAge = 1
  MaxRestarts = 1
  MaxRenewals = 1
INVARIANTS
  CapacityPromisedOnce
  AuctionIsFair
PROPERTIES
  DecidedOnce
  CreditOnlyForLosers
  LeaseEnds
  BidDecided
CHECK_DEADLOCK FALSE
