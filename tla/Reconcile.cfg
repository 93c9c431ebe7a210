SPECIFICATION ReconcileSpec
CONSTANTS
    a = a
    b = b
    Missing = missing
    Attempts = {c1, c2, c3}
    Scopes = {s1, s2}
    Refs = {a, b}
    Statements <- MCStatements
SYMMETRY MCSymmetry
INVARIANTS
    RunsAddUp
    DifferencesStayOpen
CHECK_DEADLOCK FALSE
