SPECIFICATION Spec
CONSTANTS
    N = 3
    New = {2, 3}
INVARIANTS
    TrailTellsTheTree
PROPERTIES
    RefusalUndoesEverything
    EditsSurvive
