\* Four experts searched, six proposed, three in tables that may be refused.
CONSTANTS
    Jobs <- MCJobs
    Cost <- SearchCost
    Bisected <- Mincuts
    Chained <- Chain
    Shuffle <- Outermost
    Replays <- MCReplays
SPECIFICATION Spec
CHECK_DEADLOCK FALSE
INVARIANTS
    SeedsSound
    LayoutSound
    FetchedAsPlanned
