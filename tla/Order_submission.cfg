CONSTANTS
    Task = {t1, t2}
    btc = btc
    Symbol = {btc}
    NoTask = NoTask
    MaxVersion = 2
    MaxSpare = 1
    MaxLate = 1
    MaxIntents = 2
    Absent = Absent
    MaxAttempts = 2
    InitialDelay = 1
    MaxDelay = 3
    named = named
    careful = careful
    rash = rash
    cancel = cancel
    Create = {named, careful, rash}
    Cancel = {cancel}
    Named = {named}
    NoIntent = NoIntent
    Request <- MCRequest
    Position <- MCPosition
    RulesOf <- MCRulesOf
    RetryableCodes <- MCRetryableCodes
    AnyCode = AnyCode
    Statuses = {408, 429, 500}
    RetryAfters = {5}
SPECIFICATION SubmissionSpec
SYMMETRY TaskSymmetry
INVARIANTS SubmissionTypeOK RulesNeverRegress LoadsAreShared AppliedOnce OneRequestPerAttempt RefusedIsNotApplied
PROPERTY OutcomeImplemented
