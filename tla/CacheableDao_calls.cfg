SPECIFICATION Spec
CONSTANTS
    Request    = {r1, r2}
    Field      = {state, name}
    Value      = {valid, invalid}
    Missing    = Missing
    NoRow      = NoRow
    Mark       = Mark
    StateField = state
    Disabled   = invalid
SYMMETRY Symmetry
INVARIANT CoherentUnless
PROPERTY AnswerIsTheRow
