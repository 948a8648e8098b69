SPECIFICATION Spec

CONSTANTS
    Conns = {c1, c2, c3}
    IPs = {ip1, ip2, ip3}
    NoIp = NoIp
    MaxConn = 2
    MaxConnPerIp = 1
    MaxBuffered = 1
    MaxAttempts = 2
    ByteBits = 3
    DigestBytes = 3

SYMMETRY Symmetry

INVARIANT NcTypeOK
INVARIANT CountersTrue
INVARIANT HeartbeatStops
INVARIANT PowAgrees
PROPERTY EverySpawnPaid
