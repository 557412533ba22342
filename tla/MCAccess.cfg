SPECIFICATION MCSpec
CONSTANTS
    ann = ann  bob = bob  cy = cy  dan = dan
    t1 = t1  t2 = t2  t3 = t3  t4 = t4  t5 = t5
    s1 = s1  s2 = s2  e1 = e1  e2 = e2
    Areas = {"members", "logins"}
    Users = {ann, bob, cy, dan}
    Inactive = {dan}
    Txs = {t1, t2, t3, t4}
    Asks <- MixedAsks
    Free = Free
    Subjects = {s1, s2}
    Emails = {e1, e2}
    Seeds <- MCSeeds
    Wishes <- MCWishes
    Budget = 3
    None = None
INVARIANTS AccessIsSound
PROPERTIES LockedWriteKeepsAnOwner LockedWriteReplacesWhatItRead EverythingEnds
CHECK_DEADLOCK FALSE
