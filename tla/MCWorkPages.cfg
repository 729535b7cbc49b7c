SPECIFICATION FairSpec
CONSTANTS
    Requests = {r1, r2}
    Listings = {l1}
    WorkIds = {i1, i2, i3, i4, i5}
    NoId = NoId
    NoListing = NoListing
    Nothing = Nothing
    MaxItems = 3
INVARIANTS
    SuccessorContinues
    NoElementTwice
    LoadedIsOfPage
PROPERTY
    ListingEnds
