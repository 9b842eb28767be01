SPECIFICATION FairSpec
CONSTANTS
    Page <- FourPage
    Standards <- ThreeStandards
    Fields <- TwoFields
    Matches <- FourMatches
    Incomplete = {14}
    Undecodable <- OneUndecodable
    MaxFaults = 2
INVARIANTS
    ListsAscend
    ReturnsWhatArrived
PROPERTIES
    Returns
CHECK_DEADLOCK FALSE
