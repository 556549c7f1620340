SPECIFICATION LoadSpec
CONSTANTS
    None = None
    Edits = 2
    Rank <- MCRank
    Unreadable <- MCUnreadable
    Long <- MCLong
    Document <- MCDocument
INVARIANTS
    TypeOK
    NumbersApart
    NumbersAsDefined
    CyclesReported
    
    ForwardsApart
PROPERTIES
    NumbersAssigned
    LoadEnds
CHECK_DEADLOCK FALSE
