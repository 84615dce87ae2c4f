CONSTANTS
    RTTs = {1, 3, 12}
    Infinity = 99
    Period = 4
    Span = 2
    Gaps = {0, 1, 3, 5}
    MaxSamples = 5
SPECIFICATION Spec
INVARIANTS TypeOK ReportsExtreme EstimatesOrdered WindowInvariant
