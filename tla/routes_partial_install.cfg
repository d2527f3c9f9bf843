SPECIFICATION Spec
CONSTANTS
    d1 = d1
    d2 = d2
    Device = {d1}
    home = home
    work = work
    alpha = alpha
    beta = beta
    None = None
    Profile = {home}
    Server = {alpha, beta}
    HalfOf <- MCHalfOf
    ServerOf <- MCServerOf
    HasIpv6 <- MCHasIpv6
    OriginalTable <- MCOriginalTable
    Refusable = {"half"}
CHECK_DEADLOCK FALSE
INVARIANTS
    AllInstalledRoutesRemoved
