CONSTANTS
    h1 = h1  h2 = h2  t1 = t1  t2 = t2
    None = None
    Handler <- MCHandlers
    Flaky <- MCFlaky
    Tweet <- MCTweets
    MaxTicks = 2
    MaxLog = 3
SPECIFICATION DSpec
INVARIANTS GapFree LagBound
PROPERTY ImplementsBroadcast
CHECK_DEADLOCK FALSE
