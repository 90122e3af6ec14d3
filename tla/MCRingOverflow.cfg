CONSTANTS
    Capacity = 3
    MaxBlock = 4
    MaxSamples = 12
SPECIFICATION Spec
INVARIANT OverwritesOnlyOldest
