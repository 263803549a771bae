SPECIFICATION Spec
CONSTANTS
    m1 = m1
    m2 = m2
    k1 = k1
    Msgs = {m1, m2}
    Consumers = {k1}
    None = None
    Cap = 1
    MaxConns = 6
    MaxDrops = 1
INVARIANT NoConnectionLeak
PROPERTIES
    ImplementsDelivery
    CloseReleases
    CallsSettle
CHECK_DEADLOCK FALSE
