SPECIFICATION LinkSpec
CONSTANTS
    NULL = NULL
    short = short
    full = full
    long = long
    longest = longest
    Text <- MCText
    Length <- MCLength
    FirstSize = 1
    ENOENT = 1
    EINVAL = 2
    EACCES = 3
    ENOMEM = 4
    bits_errno = 3
    bits_facility = 1
    bits_reserved = 1
    bits_severity = 1
    bits_err = 1
INVARIANTS
    LinkTypeOK
    TargetWholeOrUntouched
    OnlyReadlinkFailsUnnoticed
PROPERTY
    Returns
