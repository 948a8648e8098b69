SPECIFICATION Spec

CONSTANTS
    Uuids = {u1, u2, u3}
    IPs = {ip1, ip2}
    NoUuid = NoUuid
    NoIp = NoIp
    Ttl = 1
    BootTimeout = 1
    MaxInstancesPerIp = 1
    MaxTotalInstances = 2
    Killers = {k1}
    OperatorKills = FALSE
    MaxCrashes = 1
    BootsInTime = TRUE
    PromptLoop = FALSE
    Faults = {"poll"}

SYMMETRY Symmetry

INVARIANT TypeOK
INVARIANT CapRespected
INVARIANT BootOwnsRow
INVARIANT NoOrphan
INVARIANT CapBoundsContainers
INVARIANT NoGhost
PROPERTY KillDestroys
PROPERTY ImplementsSlots
PROPERTY ImplementsLifecycle

CHECK_DEADLOCK FALSE
