SPECIFICATION Spec
CONSTANTS
    NULL = NULL
    bits_errno = 2
    bits_facility = 1
    bits_reserved = 1
    bits_severity = 1
    bits_err = 1
    ENOMEM = 1
    EINVAL = 3
    Address = {a1, a2}
    Accounts <- MCAccounts
    Keys <- MCKeys
    Errnos <- MCErrnos
INVARIANTS
    RecordsAreAccounts
    OkMeansFound
    FailureChangesNothing
    HandleIsLive
    FailureCarriesErrno
    FieldsAreApart
