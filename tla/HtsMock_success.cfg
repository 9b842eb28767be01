SPECIFICATION Spec
CONSTANTS
    Accounts = {"alice", "bob", "carol"}
    Nobody = "nobody"
    Token = "token"
    Creations <- ManyCreations
    Keyrings <- Handovers
    Screened = {"bob"}
    Grants <- SomeGrants
    Heirs = {"bob"}
    Amounts = {1}
    Approvals = {0, 1, Unlimited}
    Unlimited = Unlimited
    MaxSupply = 2
    MaxSerial = 2
INVARIANTS
    SuccessMeansMoved
