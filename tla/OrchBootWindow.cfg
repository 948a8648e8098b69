SPECIFICATION Spec

CONSTANTS
    Uuids = {u1, u2}
    IPs = {ip1, ip2}
    NoUuid = NoUuid
    NoIp = NoIp
    Ttl = 1
    BootTimeout = 2
    MaxInstancesPerIp = 1
    MaxTotalInstances = 2
    Killers = {k1}
    OperatorKills = FALSE
    MaxCrashes = 1
    BootsInTime = FALSE
    PromptLoop = FALSE
    Faults = {}

SYMMETRY Symmetry

INVARIANT BootWindowProtected

CHECK_DEADLOCK FALSE
