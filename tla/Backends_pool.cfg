SPECIFICATION Spec
CONSTANTS
    Backend = {10, 17}
    Sender = {s1, s2}
    MaxChange = 1
    Null = Null
CONSTRAINT Bound
INVARIANT PoolServesTheList
PROPERTIES NotifiedIsRead SilenceStaysLocal
