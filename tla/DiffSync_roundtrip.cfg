CONSTANTS
    Kinds = {Group}
    Labels = {la, lb}
    Values = {v1}
    NaNs = {}
    MaxEdits = 3
SPECIFICATION Spec
INVARIANT PatchReproducesTree
CHECK_DEADLOCK FALSE
