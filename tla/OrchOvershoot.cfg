SPECIFICATION Spec

CONSTANTS
    Uuids = {u1, u2}
    IPs = {ip1, ip2}
    NoUuid = NoUuid
    NoIp = NoIp
    Ttl = 2
    BootTimeout = 1
    MaxInstancesPerIp = 1
    MaxTotalInstances = 1
    Killers = {k1}
    OperatorKills = FALSE
    MaxCrashes = 1
    BootsInTime = TRUE
    PromptLoop = FALSE
    Faults = {}

SYMMETRY Symmetry

INVARIANT LiveWithinCap

CHECK_DEADLOCK FALSE
