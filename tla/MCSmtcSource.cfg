\* Two sessions one after another; two pool threads raise events.
CONSTANTS
    t1 = t1
    t2 = t2
    Owner = Owner
    MaxSession = 2
    PoolThreads = {t1, t2}
    MaxChanges = 2
SPECIFICATION FairSpec
CONSTRAINT Orderly
INVARIANTS TypeOK SubscribedToSession NothingLost
PROPERTIES FollowsSession
\* A stopped source on a quiet system has nothing left to do.
CHECK_DEADLOCK FALSE
