SPECIFICATION Spec
CONSTANTS
    NULL = NULL
    BadOption = BadOption
    Word <- MCWord
    CommandLines <- MCCommandLines
    Fields <- MCFields
    TooLong <- MCTooLong
    UmaskWords <- MCUmaskWords
    Passwd <- MCPasswd
    GroupsOf <- MCGroupsOf
    Callers <- MCCallers
    Argv0 <- MCArgv0
    MayFail = {"nomem", "lookup", "setgid", "initgroups", "setuid", "execve"}
CHECK_DEADLOCK FALSE
INVARIANTS
    TypeOK
    BackendRunsAsRequestedUser
    ServesRestricted
    GroupsDropped
    ListsTerminated
    NoSpuriousRefusal
PROPERTY ImplementsRemoteShell
