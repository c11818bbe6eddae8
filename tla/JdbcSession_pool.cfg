SPECIFICATION Spec
CONSTANTS
    Thread = {t1, t2}
    Conn = {c1}
    NoConn = NoConn
    Write = {w1, w2}
    MaxDepth = 2
    MaxLevel = 4
SYMMETRY Symmetry
INVARIANTS AtomicUnlessStarved InvisibleUntilCommit ConnectionsAccounted
