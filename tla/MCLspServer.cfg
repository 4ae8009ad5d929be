CONSTANTS
    Parts = {"quick", "slow"}
    BadTexts = {1, 3}
    Files = {"main", "other", "lib"}
    Imports <- MCImports
    MaxText = 3
    MaxMessages = 5
    MaxHandlers = 3
    Kinds = {"open", "change", "save", "close", "disk"}
SPECIFICATION MCSpec
INVARIANTS
    OwnFresh
    MarkersRight
PROPERTIES
    ReadsNewest
    CatchesUp
    NewestAnalysedSlow
