SPECIFICATION Spec

CONSTANTS
    Uuids = {u1, u2}
    IPs = {ip1, ip2}
    NoUuid = NoUuid
    NoIp = NoIp
    Ttl = 2
    BootTimeout = 1
    MaxInstancesPerIp = 1
    MaxTotalInstances = 2
    Killers = {k1, k2}
    OperatorKills = FALSE
    MaxCrashes = 1
    BootsInTime = FALSE
    PromptLoop = FALSE
    Faults = {"launch", "poll", "raise", "list"}

SYMMETRY Symmetry

PROPERTY EndsForAReason
PROPERTY ReconcileRestores

CHECK_DEADLOCK FALSE
