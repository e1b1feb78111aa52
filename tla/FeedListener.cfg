CONSTANTS
    MaxSockets <- MCMaxSockets
    MaxTweet <- MCMaxTweet
    MaxFaults <- MCMaxFaults
    MaxEmpty <- MCMaxEmpty
SPECIFICATION FairSpec
INVARIANT ListenerInv
PROPERTIES LostForGood ArrivedIsPublished
CHECK_DEADLOCK FALSE
