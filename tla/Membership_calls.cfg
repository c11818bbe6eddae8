SPECIFICATION Spec
CONSTANTS
    Request   = {r1, r2}
    creator   = creator
    director  = director
    guest     = guest
    owner     = owner
    person    = person
    stranger  = stranger
    Role      <- Roles
    User      = {owner, person, stranger}
    UserOf    <- UserOfRole
    Inside    = {creator, director}
    Director  = {creator, director}
    Creator   = creator
    Lists     = {{}, {director, guest}, {guest}}
    NoRole    = NoRole
    NoUser    = NoUser
SYMMETRY Symmetry
CONSTRAINT Bound
INVARIANTS MemberOnce MemberHasUser AgreedHasEntered WaitsOnce MemberWasAdmitted
