SPECIFICATION FairSpec

CONSTANTS
    RpcTries = 90
    GasTries = 40
    PublishTries = 4
    PublishSleep = 3
    Steps = 2
    Grants = 3
    BootTimeout = 360

INVARIANT BootTypeOK
INVARIANT ReadyIsComplete
INVARIANT BudgetKept
PROPERTY BootEnds

CHECK_DEADLOCK FALSE
