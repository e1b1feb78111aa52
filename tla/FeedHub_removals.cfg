CONSTANTS
    h1 = h1  h2 = h2  t1 = t1  t2 = t2
    None = None
    Handler <- MCHandlers
    Flaky <- MCFlaky
    Tweet <- MCOneTweet
    MaxTicks = 2
SPECIFICATION FairSpec
PROPERTY RemovalsHandled
