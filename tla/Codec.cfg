CONSTANTS
    Base = 4
    IdMod = 32
    Groups = 3
    FixedLen = 2
    KindCodes = {0, 5}
    Ops <- SampleOps
    MaxOps = 2
    MaxBytes = 5
SPECIFICATION Spec
INVARIANTS RoundTrip SelfDelimiting AcceptedIsWritable
CHECK_DEADLOCK FALSE
