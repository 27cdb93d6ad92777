SPECIFICATION Spec

CONSTANTS
    d1 = d1
    d2 = d2
    b1 = b1
    b2 = b2
    c1 = c1
    c2 = c2
    Cloners = {c1}
    Disks = {d1, d2}
    Pairs <- OneWay
    Blocks = {b1, b2}
    Values = {0, 1}
    Flaky = {b1}
    Busy = FALSE
    NoMap = NoMap
    NoCloner = NoCloner

INVARIANTS
    CompleteIsAlwaysTwin
