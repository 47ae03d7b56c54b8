SPECIFICATION Spec
CONSTANTS
    Runs = {r1, r2}
    Execs = {e1, e2, e3}
    None = None
    Pullers = {p1, p2}
    Chunk = 2
    Exclusive = TRUE
SYMMETRY Symmetry
INVARIANTS MirrorFaithful PullDelivers
PROPERTIES RecordStands PullKeepsPromise
CHECK_DEADLOCK FALSE
