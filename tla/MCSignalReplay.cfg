\* ConnectAndReplay drops a value, with a single emitting thread and one client.
CONSTANTS
    p1 = p1
    p2 = p2
    c1 = c1
    c2 = c2
    Nobody = Nobody
    Publishers = {p1}
    Clients = {c1}
    MaxToken = 2
    MaxValue = 2
SPECIFICATION Spec
INVARIANT NoValueDropped

CHECK_DEADLOCK FALSE
