CONSTANTS
    Producers = {p1, p2}
    Consumers = {s}
    Entries = {m1, m2}
    Nodes = {n1, n2, n3}
    NULL = NULL
    NoThread = NoThread
SYMMETRY Symmetry
SPECIFICATION Spec
INVARIANTS WellLinked FreedOnce
PROPERTY ImplementsFifo
