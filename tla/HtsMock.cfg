SPECIFICATION Spec
CONSTANTS
    Accounts = {"alice", "bob", "carol"}
    Nobody = "nobody"
    Token = "token"
    Creations <- ManyCreations
    Keyrings <- Handovers
    Screened = {"bob"}
    Grants <- SomeGrants
    Heirs = {"bob"}
    Amounts = {1, 2}
    Approvals = {0, 1, 2, Unlimited}
    Unlimited = Unlimited
    MaxSupply = 2
    MaxSerial = 2
INVARIANTS
    TypeOK
    HoldersAssociated
    BooksAgree
    SupplyIsHeld
PROPERTIES
    SpentByAuthority
    DeletedStays
CHECK_DEADLOCK FALSE
