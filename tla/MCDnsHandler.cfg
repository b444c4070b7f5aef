SPECIFICATION Spec
CONSTANTS
    Request = {r1, r2}
    Chains <- MCChains
    Middlewares <- MCMiddlewares
    XdpEnabled = TRUE
    MaxRecords = 2
    CursorModulus = 2
SYMMETRY RequestSymmetry
INVARIANTS TypeOK OutcomeIsWhatWasSent BytesAreTheResponse FailureIsNeverAdmitted
    ZoneNeverLeaks NegativesCarrySoa InFlightCountsRequests
