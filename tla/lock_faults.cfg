SPECIFICATION FairSpec
CONSTANTS
    c1 = c1
    c2 = c2
    c3 = c3
    None = None
    Clients <- TwoClients
    Patient <- OnePatient
    TTL = 4
    Interval = 2
    MaxLag = 1
    MaxFaults = 1
    MaxRenewFaults = 1
    MaxCrashes = 1
INVARIANT TypeOK
PROPERTY OnlyHolderOrTime
PROPERTY KeyFreed
PROPERTY LeaseSpec
