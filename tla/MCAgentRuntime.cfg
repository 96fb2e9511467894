SPECIFICATION Spec
CONSTANTS
    Requests <- MCRequests
    Locators <- MCLocators
    Contents <- MCContents
    Outputs <- MCOutputs
    Candidates <- MCCandidates
    MaxPromptBytes = 2
    MaxEntries = 1
    MaxItemBytes = 2
INVARIANTS
    NoInternalError
    ResultIsGrounded
CHECK_DEADLOCK FALSE
