SPECIFICATION FairSpec

CONSTANTS
    Uuids = {u1}
    IPs = {ip1}
    NoUuid = NoUuid
    NoIp = NoIp
    Ttl = 1
    BootTimeout = 1
    MaxInstancesPerIp = 1
    MaxTotalInstances = 1
    Killers = {k1, k2}
    OperatorKills = TRUE
    MaxCrashes = 2
    BootsInTime = FALSE
    PromptLoop = TRUE
    Faults = {"poll"}

PROPERTY SpawnResolves
PROPERTY SlotFreed
PROPERTY ContainerCollected

CHECK_DEADLOCK FALSE
