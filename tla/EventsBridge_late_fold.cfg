\* A fold between the two manifests of a catch-up.
SPECIFICATION EventsSpec
CONSTANTS
    Bridges = {b1}
    MaxSeq = 3
    MaxFaults = 1
INVARIANTS NoSilentGap
