\* Two emitting threads and two client threads; slots disconnect slots.
\* One that does so while it is replayed to blocks its thread, and then every
\* other thread may come to a stop behind it.
CONSTANTS
    p1 = p1
    p2 = p2
    c1 = c1
    c2 = c2
    Nobody = Nobody
    Publishers = {p1, p2}
    Clients = {c1, c2}
    MaxToken = 2
    MaxValue = 2
SPECIFICATION FairSpec
INVARIANTS TypeOK ReplayComesFirst StableDelivery HolderRuns
PROPERTIES CallsReturn
CHECK_DEADLOCK FALSE
