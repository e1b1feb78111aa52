CONSTANTS
    Limit <- MCLimit
    Restart <- MCRestart
    MaxErrors <- MCMaxErrors
    ClosesDone = FALSE
    MaxTweet <- MCMaxTweet
    MaxFaults <- MCMaxFaults
SPECIFICATION PSpec
INVARIANTS LossesLeaveFrames InOrder AllAccountedFor
PROPERTIES StuckIsForever OneFaultSilences ImplementsReceiver
CHECK_DEADLOCK FALSE
