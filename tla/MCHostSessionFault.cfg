SPECIFICATION Spec
CONSTANTS
    s1 = s1
    s2 = s2
    plain = plain
    mac = mac
    wrap = wrap
    header = header
    NULL = NULL
    Sessions = {s1, s2}
    Commands <- MCCommands
    perso_info <- MCPerso
    HeaderOnly <- MCHeaderOnly
    DeviceTypes <- MCDeviceTypes
    WireModulus <- MCWireModulus
    HostModulus = 8
    MaxPollingRetry = 2
INVARIANT NoFault
