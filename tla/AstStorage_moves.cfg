CONSTANTS
    Kinds = {Group}
    Labels = {la}
    Values = {v1}
    NaNs = {}
    IdMod = 8
    MaxCalls = 4
    MaxMoves = 1
SPECIFICATION Spec
INVARIANT ParentOfListsChild
CHECK_DEADLOCK FALSE
