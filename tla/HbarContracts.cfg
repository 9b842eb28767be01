SPECIFICATION Spec
CONSTANTS
  Accounts = {a, b, p}
  Programs = {p}
  NoOne = NoOne
  Unlimited = Unlimited
  Revealed = Revealed
  MaxTime = 4
  MaxDepth = 2
  MaxDonated = 1
  Approvals = {1, Unlimited}
  MaxBids = 3
  Amounts = {1, 2}
  Proposals = {0, 1}
  MaxFunds = 3
  Deployments <- Networks
  Offers <- SomeOffers
  BiddingTime = 1
  RevealTime = 2
  Duration = 2
INVARIANTS TypeOK WhbarBacked WhbarSupplyHeld BidsReturnable BlindBidsReturnable
  PurchaseSettles ChannelPaysOnce EachVoiceCounts
PROPERTIES WhbarIsErc20 ChannelHolds
SYMMETRY Externals
CHECK_DEADLOCK FALSE
