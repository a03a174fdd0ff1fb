\* One session; Stop while Windows raises events on one pool thread.
CONSTANTS
    t1 = t1
    t2 = t2
    Owner = Owner
    MaxSession = 1
    PoolThreads = {t1}
    MaxChanges = 2
SPECIFICATION Spec
CONSTRAINT Faultless
PROPERTIES QuietAfterStop
CHECK_DEADLOCK FALSE
