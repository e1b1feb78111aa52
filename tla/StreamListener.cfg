CONSTANTS
    MaxTweet <- MCMaxTweet
    MaxFaults <- MCMaxFaults
SPECIFICATION Spec
INVARIANTS ListenerInv GapsAreTold
PROPERTY LeftForGood
CHECK_DEADLOCK FALSE
