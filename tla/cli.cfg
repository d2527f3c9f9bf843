SPECIFICATION FairSpec
CONSTANTS
    d1 = d1
    d2 = d2
    Device = {d1, d2}
    home = home
    work = work
    alpha = alpha
    beta = beta
    None = None
    Profile = {home, work}
    Server = {alpha, beta}
    HalfOf <- MCHalfOf
    ServerOf <- MCServerOf
    HasIpv6 <- MCHasIpv6
    OriginalTable <- MCUserRoute
    Refusable = {"gateway", "host", "half", "delete"}
INVARIANTS
    CliTypeOK
    ServerOutsideTunnel
    TunnelProbedOnlyAfterKill
    RunningTunnelIntact
    HealsAfterKill
    ExitLeavesMachine
PROPERTIES
    CtrlCEnds
