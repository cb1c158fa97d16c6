CONSTANTS
    Kinds = {Group, Parameter}
    Labels = {la, lb}
    Values = {v1, nan}
    NaNs = {nan}
    MaxEdits = 3
SPECIFICATION Spec
SYMMETRY NameSymmetry
INVARIANTS TypeOK SilentIffSame PullCarries OpsHitLiveNodes CoherentOnTarget
PROPERTIES PullConverges
CHECK_DEADLOCK FALSE
