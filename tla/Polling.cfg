SPECIFICATION FairSpec
CONSTANTS
  Amounts = {0, 1, 2}
  Unset = Unset
  MaxRetries = {Unset, 2, 3}
  Lag = 2
  MaxOps = 2
  MaxFaults = 1
INVARIANTS TypeOK SeesOwnChange GivesUpOnlyIfLate
PROPERTY CallEnds

