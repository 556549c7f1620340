SPECIFICATION Spec
CONSTANTS
    net = net
    link = link
    opts = opts
    unit = unit
    conf = conf
    dunit = dunit
    session = session
    dnsmasq = dnsmasq
    one = one
    two = two
    gone = gone
    bare = bare
    v1 = v1
    v2 = v2
    a1 = a1
    a2 = a2
    None = None
    Decl = {one, gone}
    Version = {v1, v2}
    File = {opts, unit, conf, dunit}
    NetFile = {}
    LinkFile = {}
    UnitFile = {unit, dunit}
    PathRank <- MCPathRank
    Service = {session, dnsmasq}
    Dnsmasq = {dnsmasq}
    Inputs <- MCInputs
    UnitOf <- MCUnitOf
    Place <- MCPlace
    Want <- MCWant
    Ruleset <- MCRuleset
    Forward <- MCForward
    Levels = 2
    Delay <- MCDelay
    Derived = {}
    Address = {a1}
    Records = TRUE
    ProbeFaults = FALSE
    Causes = {"submit", "line", "drift"}
INVARIANT QuietAfterAttended
