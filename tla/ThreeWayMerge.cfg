CONSTANTS
    group = group
    la = la
    lb = lb
    v1 = v1
    nan = nan
    Kinds = {group}
    Labels = {la, lb}
    Values = {v1, nan}
    NaNs = {nan}
    Sessions <- WideAndDeep
SPECIFICATION Spec
INVARIANTS TypeOK ConflictsAreClashes CleanMergeIsThreeWay ResolutionIsPicked MergeCommutes
CHECK_DEADLOCK FALSE
