SPECIFICATION Spec
CONSTANTS
    net = net
    link = link
    opts = opts
    unit = unit
    conf = conf
    dunit = dunit
    session = session
    dnsmasq = dnsmasq
    one = one
    two = two
    gone = gone
    bare = bare
    v1 = v1
    v2 = v2
    a1 = a1
    a2 = a2
    None = None
    Decl = {one, gone}
    Version = {v1, v2}
    File = {opts, unit}
    NetFile = {}
    LinkFile = {}
    UnitFile = {unit}
    PathRank <- MCPathRank
    Service = {session}
    Dnsmasq = {}
    Inputs <- MCInputs
    UnitOf <- MCUnitOf
    Place <- MCPlace
    Want <- MCWant
    Ruleset <- MCRuleset
    Forward <- MCForward
    Levels = 1
    Delay <- MCDelay
    Derived = {}
    Address = {}
    Records = FALSE
    ProbeFaults = TRUE
    Causes = {"submit", "loop", "crash", "reboot"}
INVARIANT NothingForgotten
PROPERTIES UnattendedTakesNothingDown
