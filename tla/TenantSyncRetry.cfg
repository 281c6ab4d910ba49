SPECIFICATION FairSyncSpec
CONSTANTS
    g1 = g1  g2 = g2  acme = acme  beta = beta
    NoGroup = NoGroup
    Groups <- MCGroups
    Names <- MCNames
    Name <- FreshNames
    MaxFailures = 1
    MaxCrashes = 0
PROPERTY
    EventuallyProvisioned
