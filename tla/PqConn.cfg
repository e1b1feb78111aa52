SPECIFICATION Spec
CONSTANTS
    Texts <- MCTexts
    Simple <- MCSimple
    Extended <- MCExtended
    MaxRequests = 4
    MaxRows = 2
INVARIANTS ConnInv NoMixing SuccessIsTrue
PROPERTIES CallsReturn
CHECK_DEADLOCK FALSE
