CONSTANTS
    t1 = t1  t2 = t2  t3 = t3  t4 = t4
    None = None
    Tweet <- MCTweets
    ReconnectDelay = 1
    Lifetime = 3
SPECIFICATION FairSpec
INVARIANTS PageInv OneConnection
PROPERTY TweetsLeave
