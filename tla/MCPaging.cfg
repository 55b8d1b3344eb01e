SPECIFICATION FairSpec
CONSTANTS
    MaxId = 5
    PageSize = 2
INVARIANTS
    TypeOK
    SkippedOnlyBehindLeaver
    DuplicateOnlyBehindEntrant
PROPERTY
    PagingEnds
CHECK_DEADLOCK FALSE
