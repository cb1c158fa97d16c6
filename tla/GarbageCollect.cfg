CONSTANTS
    Hashes = {h1, h2, h3}
    MaxParents = 2
    MaxRoots = 1
SPECIFICATION Spec
INVARIANTS GcInv MarkIsExact SweepIsExact ResultIsExact
PROPERTIES CallsReturn Implements
