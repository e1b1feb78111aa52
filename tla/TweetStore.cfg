CONSTANTS
    s1 = s1  s2 = s2
    Session = {s1, s2}
    lower = lower  upper = upper
    Tag <- MCTag
    Lower <- MCLower
    Ward <- MCWard
    TicksPerHour = 1
    HoursPerDay = 1
    MaxNow <- MCMaxNow
    MaxTweets = 2
    MaxRels = 3
    None = None
SPECIFICATION Spec
INVARIANTS StoreInv TagQueriesExact WardListsComplete
SYMMETRY MCSymmetry
CHECK_DEADLOCK FALSE
