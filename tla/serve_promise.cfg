SPECIFICATION Spec
CONSTANTS
    good = good
    other = other
    bad = bad
    c1 = c1
    c2 = c2
    None = None
    Decl = {good, other, bad}
    Valid = {good, other}
    Client = {c1, c2}
    Faults = {"plan", "disk", "read", "crash"}
INVARIANTS TypeOK TrialIsTimed CommandsTowardSpec
PROPERTY KeepsPromise
