SPECIFICATION FairSpec

CONSTANTS
    Conns = {c1}
    IPs = {ip1}
    NoIp = NoIp
    MaxConn = 1
    MaxConnPerIp = 1
    MaxBuffered = 3
    MaxAttempts = 2
    ByteBits = 3
    DigestBytes = 3

PROPERTY QuietSessionEnds
