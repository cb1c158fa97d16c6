CONSTANTS
    Trees = {t1, t2}
    Repos = {r1}
    Addresses = {a1, a2}
    Null = Null
    Kinds = {group}
    Labels = {la, lb}
    Values = {NaN}
    NaNs = {NaN}
    NotText = NotText
    MaxId = 9
    MaxNodes = 4
SPECIFICATION BindingSpec
INVARIANTS FreedByOwner NothingLeaks HeldCallsAreValid OneOwner FailuresLeaveNoTrace
PROPERTIES BoxesDieWithOwners IdsKeepMeaning
CHECK_DEADLOCK FALSE
