SPECIFICATION Spec
CONSTANTS
    h1 = h1
    h2 = h2
    Chat <- MCChat
    Carriers <- MCCarriers
CONSTRAINT Bounded
INVARIANTS OneAtATime RepliesSettle AttachmentsAreKept
PROPERTIES HistoryIsKept DeletedStaysDeleted
