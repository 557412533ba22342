SPECIFICATION MCSpec
CONSTANTS
    t1 = t1  t2 = t2  a = a  b = b
    u1 = u1  u2 = u2
    Areas = {"projects"}
    Tabs = {t1, t2}
    Edits = {a, b}
    Fills <- MCFills
    Calls <- MCCalls
    Required = {a}
    Budget = 1
    Users = {u1, u2}
    Names <- MCNames
    Wishes <- MCWishes
    Base <- MCBase
    Chars <- MCChars
    Digit <- MCDigit
    MaxSuffix = 5
    Width = 5
    WorkspaceSlugs = {s1, s2}
    Budget2 = 2
    None = None
PROPERTIES EveryCreationEnds
CHECK_DEADLOCK FALSE
