SPECIFICATION Spec
CONSTANTS
    Request    = {r1, r2}
    creator    = creator
    partner    = partner
    colleague  = colleague
    first      = first
    second     = second
    Role       <- Roles
    Creator    = creator
    Alliance   = {first, second}
    AllianceOf <- AllianceOfRole
    Content    = {blank, text}
    Blank      = blank
    NoRow      = NoRow
    Deleted    = Deleted
SYMMETRY Symmetry
CONSTRAINT Bound
CHECK_DEADLOCK FALSE
INVARIANTS ValidIsSigned EndedIsAgreed StartedIsConfirmed ContractSumsUp
PROPERTY InForceIsKept
