CONSTANTS
    Kinds = {Group}
    Labels = {la}
    Values = {v1}
    NaNs = {}
    IdMod = 4
    MaxCalls = 6
    MaxMoves = 1
SPECIFICATION Spec
INVARIANTS TypeOK IndexIsExact
PROPERTIES Implements ListsStayAgreed OrphansStay OnlySelfCloses
CHECK_DEADLOCK FALSE
