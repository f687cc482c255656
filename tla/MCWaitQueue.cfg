SPECIFICATION FairWaitSpec
CONSTANTS
    t1 = t1
    t2 = t2
    t3 = t3
    qm = qm
    qu = qu
    qi = qi
    None = None
    Sleepers = {t1, t2, t3}
    UQueues = {qm}
    IQueues = {qi}
    Masked = {qm}
INVARIANTS
    NoLostSleeper
PROPERTIES
    WakeUpReachesAll
