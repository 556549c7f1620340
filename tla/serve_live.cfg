SPECIFICATION FairSpec
CONSTANTS
    good = good
    other = other
    bad = bad
    c1 = c1
    c2 = c2
    None = None
    Decl = {good, bad}
    Valid = {good}
    Client = {c1}
    Faults = {"plan", "read", "crash", "address", "netlink"}
INVARIANT TrialIsReported
PROPERTIES EveryMessageHandled DeadlineEndsTrial EveryChangeSeen
