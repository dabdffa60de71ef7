CONSTANTS
    None = None
    Instances = {"first", "second"}
    Runs = {1, 2, 3}
    Host <- OldAndNew
    Skew <- TickApart
    TTL = 4
    MaxGap = 2
    Floor <- LongLapsed
    MaxFailures = 2
SPECIFICATION FairSpec
INVARIANTS LeaseTypeOK OneSweeper SweeperHoldsLease
PROPERTIES UnexpiredLeaseIsKept DeadLeaseEnds SweepsGoOn
