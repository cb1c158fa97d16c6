CONSTANTS
    group = group
    la = la
    lb = lb
    v1 = v1
    v2 = v2
    Kinds = {group}
    Labels = {la, lb}
    Values = {v1, v2}
    NaNs = {}
    EmptyTree <- NewTree
    InputTrees <- Drawings
    BranchNames = {main, dev}
    Main = main
    TreeHash <- SymbolicTreeHash
    Mix <- SymbolicMix
    NoHash <- ZeroHash
    Diff <- DiffTrees
    Merges <- MergePatches
    Apply <- ApplyPatch
    MaxCommits = 5
SPECIFICATION Spec
INVARIANTS Resolvable MergeFailsOnlyAtRoot HistoryIsRooted MergeHashIsDeterministic
PROPERTIES HeadsMoveForward HistoryIsStable OnlyResetLoses
CHECK_DEADLOCK FALSE
