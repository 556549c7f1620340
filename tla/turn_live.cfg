SPECIFICATION FairSpec
CONSTANTS
    net = net
    link = link
    opts = opts
    unit = unit
    conf = conf
    dunit = dunit
    session = session
    dnsmasq = dnsmasq
    one = one
    two = two
    gone = gone
    bare = bare
    v1 = v1
    v2 = v2
    a1 = a1
    a2 = a2
    None = None
    Decl = {one}
    Version = {v1, v2}
    File = {net, opts, unit}
    NetFile = {net}
    LinkFile = {}
    UnitFile = {unit}
    PathRank <- MCPathRank
    Service = {session}
    Dnsmasq = {}
    Inputs <- MCInputs
    UnitOf <- MCUnitOf
    Place <- MCPlace
    Want <- MCWant
    Ruleset <- MCRuleset
    Forward <- MCForward
    Levels = 2
    Delay <- MCDelay
    Derived = {}
    Address = {a1, a2}
    Records = FALSE
    ProbeFaults = FALSE
    Causes = {"submit", "loop", "line"}
PROPERTIES  SetFollowsLine 
