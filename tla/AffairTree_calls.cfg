SPECIFICATION Spec
CONSTANTS
    Request   = {r1, r2}
    MaxAffair = 4
    MaxTask   = 1
    MaxIndex  = 3
    Place     = {1, 2, 4}
    NoRow     = NoRow
SYMMETRY Symmetry
CONSTRAINT Bound
INVARIANTS TypeOK PathsFollowParents PathsTellDescent NoCycle
PROPERTY DisableIsTheSubtree
