SPECIFICATION Spec
CONSTANTS
    p1 = p1
    p2 = p2
    d1 = d1
    d2 = d2
    None = None
    Prerequisites = {p1, p2}
    Dependents = {d1, d2}
    Needs <- MCNeeds
    Cancelable = {p1}
INVARIANT
    NodesStayWhileInserting
CHECK_DEADLOCK FALSE
