SPECIFICATION Spec
CONSTANTS
    NULL = NULL
    BadOption = BadOption
    client = client
    init = init
    other = other
    Procs = {client, init, other}
    Client = client
    Reaper = init
    Pids = {1, 10, 11}
    Word <- MCWord
    CommandLines <- MCCommandLines
    Fields <- MCFields
    UmaskWords <- MCUmaskWords
    Passwd <- MCPasswd
    GroupsOf <- MCGroupsOf
    Callers <- MCCallers
    Argv0 <- MCArgv0
    VecMin = 2
CHECK_DEADLOCK FALSE
CONSTANT Cmdline <- MCCmdline
INVARIANT RootBecomesUser
