SPECIFICATION Spec
CONSTANTS
    s1 = s1
    s2 = s2
    Device = {s1, s2}
    SlowSessions = FALSE
    MaxPolls = 0
    home = home
    work = work
    alpha = alpha
    beta = beta
    None = None
    Profile = {home}
    Server = {alpha, beta}
    HalfOf <- MCHalfOf
    ServerOf <- MCServerOf
    HasIpv6 <- MCNoIpv6
    OriginalTable <- MCOriginalTable
    Refusable = {}
INVARIANTS
    ConnectedProfileShown
