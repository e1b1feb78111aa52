CONSTANTS
    Digit <- MCDigit
    Bits32 <- MCBits32
    Bits64 <- MCBits64
    Mask <- MCMask
    Type <- MCType
    Older <- MCOlder
    Samples <- MCSamples
    MaxValues <- MCMaxValues
SPECIFICATION Spec
INVARIANTS Delivered MissingIsTold SizeExact CutsAreHonest
CHECK_DEADLOCK FALSE
