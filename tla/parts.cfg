SPECIFICATION Spec
INVARIANTS
    BooksMatchVenue
    
    
    PaperLedger
    
    GoIsMeasured
    OwnerKept
    WatchTells
    EntriesSound
    ReplaysHonest
    LadderEdgesPay
    LedgerExact
    ProtocolKept
    FoldsHonest
    SignalsSound
    BooksDeliverable
    
    
PROPERTIES
    BrakesHold
    PanelSound
CHECK_DEADLOCK FALSE
