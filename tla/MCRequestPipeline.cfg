\* Every operation of the three services, strict mode, --oauth basic.
CONSTANTS
    Missing = Missing
    Requests <- AllRequests
    Settings <- AllSettings
    Undispatched = {"PageBlob_GetPageRangesDiff"}
    Loose = FALSE
    OAuth = TRUE
    SkipApiVersionCheck = FALSE
    MaxTime = 2
SPECIFICATION Spec
INVARIANTS
    DispatchesToOperation
    AnswerTellsOutcome
    GrantSuitsOperation
    GrantWasInForce
    SignatureBindsTerms
    PreflightIsHonoured
