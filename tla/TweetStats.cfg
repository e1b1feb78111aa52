CONSTANTS
    s1 = s1  s2 = s2  tag = tag
    Session = {s1, s2}
    Tag = {tag}
    Lower <- MCLower
    Ward <- MCWard
    TicksPerHour = 2
    HoursPerDay = 2
    DaysPerWeek = 2
    MaxNow <- MCMaxNow
    MaxTweets = 3
    MaxRels = 0
    None = None
SPECIFICATION StatsSpec
INVARIANTS WardRowsAddUp OneBarPerHour
PROPERTY BarsSettle
SYMMETRY MCSymmetry
CHECK_DEADLOCK FALSE
