SPECIFICATION MCDeadSpec
CONSTANTS
    m1 = m1
    m2 = m2
    m3 = m3
    h = h
    s = s
    x = x
    g = g
    Devices <- MCDevices
    ModbusDevices <- MCModbus
    Unsupported <- MCUnsupported
    Gateways = {g, h}
    GatewayOf <- MCGatewayOf
    ModbusWorkers = {w1, w2}
    SnmpWorkers = {v1, v2}
    Nobody = Nobody
    Limit = 2
    Interval = 3
    Jitter = 0
    SoftLimit = 2
    HardLimit = 3
    DeviceLockTimeout = 6
    GatewayLockTimeout = 1
    MaxQueue = 1
    Unreliable <- MCUnreliable
    MaxFaults = 0
    MaxFlips = 1
PROPERTIES DownIsNoticed
CHECK_DEADLOCK FALSE
