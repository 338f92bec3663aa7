------------------------------ MODULE BorgRsh ------------------------------
(* src/borg-rsh-local.c, step by step, from main to its call of execve(2),    *)
(* with the process table changing under it (ProcTable).                      *)
(*                                                                            *)
(* One action is one kernel call, one check or one append to a list.  Every   *)
(* call of main is wrapped in Fail_ or False_, so a result other than ok ends *)
(* the program.  A string that the program puts together from several words   *)
(* is the sequence of those words; words fit the first block of their charvec *)
(* (how a charvec grows is the subject of Charvec).  faults records the calls *)
(* the environment has made fail; no action reads it.                         *)
EXTENDS ProcTable, Integers, Sequences

CONSTANTS Word,         \* the strings of a run
          CommandLines, \* the command lines: [opts, args]
          BadOption,    \* an option for which getopt returns '?'
          Fields,       \* word -> its parts between '@'s
          UmaskWords,   \* the words that begin with --umask=
          Passwd,       \* login -> its account
          Callers,      \* the credentials the program may be started with
          NULL,
          Argv0,        \* argv[0] of the program
          GroupsOf,     \* login -> its supplementary groups in the group file
          Cmdline,      \* process -> the words of its command line
          VecMin        \* elements a strvec holds before it must grow

VARIABLES pc,     \* where main is
          cmd,    \* the command line
          caller, \* the credentials it was started with
          cred,   \* its credentials now
          r,      \* main's remote_t
          loc,    \* locals of the function being run
          faults  \* kinds of calls that the environment has made fail

progVars == <<pc, cmd, caller, cred, r, loc, faults>>
vars     == <<pc, cmd, caller, cred, r, loc, faults, life, pid>>

Account    == [uid : Nat, gid : Nat, dir : Word]
Credential == [uid : Nat, gid : Nat, groups : SUBSET Nat]
FaultKinds == {"nomem", "lookup", "setgid", "initgroups", "setuid", "procfs", "execve"}

\* The words that the program itself contributes.
Literals == {"borg", "serve", "--umask", "077", "--restrict-to-path", "USER", "LOGNAME",
             "HOME", "SHELL", "/bin/sh", "LANG", "C", "SSH_ORIGINAL_COMMAND"}

ASSUME BorgRshAssumption ==
    /\ Literals \subseteq Word
    /\ NULL \notin Word
    /\ \A c \in CommandLines :
          /\ DOMAIN c = {"opts", "args"}
          /\ c.opts \in Seq({BadOption} \cup Word)
          /\ c.args \in Seq(Word)
          /\ c.args # <<>> => /\ Fields[c.args[1]] \in Seq(Word)
                              /\ Fields[c.args[1]] # <<>>
    /\ \A login \in DOMAIN Passwd : Passwd[login] \in Account /\ GroupsOf[login] \subseteq Nat
    /\ Callers \subseteq Credential
    /\ Argv0 \in Word
    /\ \A p \in Procs : Cmdline[p] \in Seq(Word)
    /\ VecMin \in Nat \ {0, 1}

----------------------------------------------------------------------------
(* State *)

Superuser == 0

Remote0 == [restrict_path |-> NULL, argv |-> NULL, user |-> NULL, host |-> NULL,
            ssh_original_command |-> NULL, pw |-> NULL, environ |-> NULL,
            nargv |-> NULL, borg_path |-> NULL]

\* k counts what a loop has consumed, vec is the list it builds.
Loc0 == [k |-> 0, vec |-> <<>>, ppid |-> 0, file |-> NULL]

Init == /\ pc = "getopt"
        /\ cmd \in CommandLines
        /\ caller \in Callers
        /\ cred = caller
        /\ r = Remote0
        /\ loc = Loc0
        /\ faults = {}
        /\ ProcInit

----------------------------------------------------------------------------
(* Ways to continue.  Each leaves the process table alone. *)

\* A function returns ok with its result in remote_t.
Return(remote, next) == /\ r' = remote
                        /\ pc' = next
                        /\ loc' = Loc0
                        /\ UNCHANGED <<cmd, caller, cred, faults>>

\* A call of main has not returned ok: exit (EXIT_FAILURE).
Refuse == Return(r, "exited")

\* The same, because the environment made a call fail.
Fail(kind) == /\ pc' = "exited"
              /\ loc' = Loc0
              /\ faults' = faults \cup {kind}
              /\ UNCHANGED <<cmd, caller, cred, r>>

\* A condition is checked and nothing else is done.
Check(holds, next) == Return(r, IF holds THEN next ELSE "exited")

\* One round of building a list, element by element.
AppendNext(list) == /\ loc' = [loc EXCEPT !.vec = Append(@, list[Len(@) + 1])]
                    /\ UNCHANGED <<pc, cmd, caller, cred, r, faults>>

\* Mutant of Build: what could be appended before memory ran out is kept.
BuildPartial(list, remote, next) ==
    \/ /\ Len(loc.vec) < Len(list)
       /\ \/ AppendNext(list)
          \/ /\ r' = remote /\ pc' = next /\ loc' = Loc0
             /\ faults' = faults \cup {"nomem"}
             /\ UNCHANGED <<cmd, caller, cred>>
    \/ Len(loc.vec) = Len(list) /\ Return(remote, next)

\* A function that builds a list and then stores it in remote_t: an append
\* that cannot be allocated abandons the list.
Build(list, remote, next) ==
    \/ Len(loc.vec) < Len(list) /\ (AppendNext(list) \/ Fail("nomem"))
    \/ Len(loc.vec) = Len(list) /\ Return(remote, next)

----------------------------------------------------------------------------
(* process_argv, verify_argv, remote_parse, host_is_local *)

\* while ((opt = getopt (argc, argv, "+r:")) != EOF && result == ok)
Getopt ==
    /\ pc = "getopt"
    /\ LET opts == cmd.opts IN
       \/ /\ loc.k < Len(opts)
          /\ opts[loc.k + 1] # BadOption
          /\ r' = [r EXCEPT !.restrict_path = opts[loc.k + 1]]
          /\ loc' = [loc EXCEPT !.k = @ + 1]
          /\ UNCHANGED <<pc, cmd, caller, cred, faults>>
       \/ /\ loc.k < Len(opts)
          /\ opts[loc.k + 1] = BadOption
          /\ Refuse
       \/ /\ loc.k = Len(opts)
          /\ Return(r, "process_argv")

\* rargv is argv[0] followed by what getopt left.
ProcessArgv ==
    /\ pc = "process_argv"
    /\ Build(<<Argv0>> \o cmd.args, [r EXCEPT !.argv = loc.vec], "verify_argv")

\* Mutant of ExpectedArgv: the --umask= argument is required.
ExpectedArgvFive(argv) == /\ Len(argv) = 5
                          /\ argv[3] = "borg"
                          /\ argv[4] = "serve"
                          /\ argv[5] \in UmaskWords

\* [0]ssh [1]user@host [2]borg [3]serve [4]--umask=077
ExpectedArgv(argv) == /\ Len(argv) \in {4, 5}
                      /\ argv[3] = "borg"
                      /\ argv[4] = "serve"
                      /\ Len(argv) = 5 => argv[5] \in UmaskWords

VerifyArgv == pc = "verify_argv" /\ Check(ExpectedArgv(r.argv), "remote_parse")

\* The word is split at its first '@'.
RemoteParse ==
    /\ pc = "remote_parse"
    /\ LET fields == Fields[r.argv[2]] IN
       \/ /\ Len(fields) > 1
          /\ \/ Return([r EXCEPT !.user = Head(fields), !.host = Tail(fields)], "host_is_local")
             \/ Fail("nomem")
       \/ Len(fields) = 1 /\ Refuse

HostIsLocal ==
    /\ pc = "host_is_local"
    /\ Check(r.host \in {<<"localhost">>, <<"127.0.0.1">>, <<"0.0.0.0">>},
             "make_ssh_original_command")

----------------------------------------------------------------------------
(* make_ssh_original_command, lookup_user, become_user *)

BORGOFF == 2

MakeSshOriginalCommand ==
    /\ pc = "make_ssh_original_command"
    /\ Build(SubSeq(r.argv, BORGOFF + 1, Len(r.argv)),
             [r EXCEPT !.ssh_original_command = loc.vec], "lookup_user")

LookupUser ==
    /\ pc = "lookup_user"
    /\ \/ /\ r.user \in DOMAIN Passwd
          /\ \/ Return([r EXCEPT !.pw = Passwd[r.user]], "become_user")
             \/ \E kind \in {"lookup", "nomem"} : Fail(kind)
       \/ r.user \notin DOMAIN Passwd /\ Refuse

\* Mutant of BecomeUser: whoever is not root may continue.
BecomeUserUnchecked ==
    /\ pc = "become_user"
    /\ \/ cred.uid = Superuser /\ Check(r.pw.uid # Superuser, "setgid")
       \/ cred.uid # Superuser /\ Return(r, "setup_environ")

BecomeUser ==
    /\ pc = "become_user"
    /\ \/ cred.uid = Superuser /\ Check(r.pw.uid # Superuser, "setgid")
       \/ cred.uid # Superuser /\ Check(r.pw.uid = cred.uid, "setup_environ")

\* Calls that only root may make and that may fail even for root.  What they
\* return is not looked at.
Denied(call) ==
    /\ faults' = faults \cup (IF cred.uid = Superuser THEN {call} ELSE {})
    /\ UNCHANGED cred

\* Mutant of Setgid: initgroups is forgotten.
SetgidOnly ==
    /\ pc = "setgid"
    /\ pc' = "setuid"
    /\ \/ /\ cred.uid = Superuser
          /\ cred' = [cred EXCEPT !.gid = r.pw.gid]
          /\ UNCHANGED faults
       \/ Denied("setgid")
    /\ UNCHANGED <<cmd, caller, r, loc>>

Setgid ==
    /\ pc = "setgid"
    /\ pc' = "initgroups"
    /\ \/ /\ cred.uid = Superuser
          /\ cred' = [cred EXCEPT !.gid = r.pw.gid]
          /\ UNCHANGED faults
       \/ Denied("setgid")
    /\ UNCHANGED <<cmd, caller, r, loc>>

Initgroups ==
    /\ pc = "initgroups"
    /\ pc' = "setuid"
    /\ \/ /\ cred.uid = Superuser
          /\ cred' = [cred EXCEPT !.groups = GroupsOf[r.user] \cup {r.pw.gid}]
          /\ UNCHANGED faults
       \/ Denied("initgroups")
    /\ UNCHANGED <<cmd, caller, r, loc>>

\* The one whose result counts.
Setuid ==
    /\ pc = "setuid"
    /\ \/ /\ cred' = [cred EXCEPT !.uid = r.pw.uid]
          /\ pc' = "setup_environ"
          /\ loc' = Loc0
          /\ UNCHANGED <<cmd, caller, r, faults>>
       \/ Fail("setuid")

----------------------------------------------------------------------------
(* setup_environ, setup_nargv and the check of the uid *)

Environ == << <<"USER", <<r.user>>>>,
              <<"LOGNAME", <<r.user>>>>,
              <<"HOME", <<r.pw.dir>>>>,
              <<"SHELL", <<"/bin/sh">>>>,
              <<"LANG", <<"C">>>>,
              <<"SSH_ORIGINAL_COMMAND", r.ssh_original_command>> >>

SetupEnviron ==
    /\ pc = "setup_environ"
    /\ Build(Environ, [r EXCEPT !.environ = loc.vec], "setup_nargv")

\* Mutant of ForcedCommand: whether there was a -r is not tested.
ForcedCommandUntested ==
    <<"borg", "serve", "--umask", "077", "--restrict-to-path", r.restrict_path>>

ForcedCommand ==
    <<"borg", "serve", "--umask", "077">>
    \o IF r.restrict_path = NULL THEN <<>>
       ELSE <<"--restrict-to-path", r.restrict_path>>

SetupNargv ==
    /\ pc = "setup_nargv"
    /\ Build(ForcedCommand, [r EXCEPT !.nargv = loc.vec], "final_check")

FinalCheck == pc = "final_check" /\ Check(cred.uid # Superuser, "getppid")

----------------------------------------------------------------------------
(* getparent_borg, str_getargv_pid, str_execve *)

Getppid == /\ pc = "getppid"
           /\ pc' = "fopen"
           /\ loc' = [loc EXCEPT !.ppid = pid[Parent]]
           /\ UNCHANGED <<cmd, caller, cred, r, faults>>

\* fopen ("/proc/<ppid>/cmdline"): whatever process has the pid by now.
Fopen ==
    /\ pc = "fopen"
    /\ \/ \E p \in Holding :
             /\ pid[p] = loc.ppid
             /\ loc' = [loc EXCEPT !.file = p]
             /\ pc' = "getdelim"
             /\ UNCHANGED <<cmd, caller, cred, r, faults>>
       \/ (\A p \in Holding : pid[p] # loc.ppid) /\ Refuse
       \/ \E kind \in {"nomem", "procfs"} : Fail(kind)

\* The loop that reads the arguments.  The command line of a process that has
\* exited reads as empty, unless a part of it has been buffered before.
\* Neither the copy of an argument nor its append to the list is checked: the
\* one leaves a null element, the other, if the list had to grow, drops it.
MoreArgs == /\ loc.k < Len(Cmdline[loc.file])
            /\ life[loc.file] = "running" \/ loc.k > 0

NextArg == /\ MoreArgs
           /\ loc' = [loc EXCEPT !.k = @ + 1,
                                 !.vec = Append(@, Cmdline[loc.file][loc.k + 1])]
           /\ UNCHANGED <<pc, cmd, caller, cred, r, faults>>

SpoiltArg == /\ MoreArgs
             /\ \E vec \in {Append(loc.vec, NULL)}
                           \cup {v \in {loc.vec} : Len(v) >= VecMin} :
                   loc' = [loc EXCEPT !.k = @ + 1, !.vec = vec]
             /\ faults' = faults \cup {"nomem"}
             /\ UNCHANGED <<pc, cmd, caller, cred, r>>

\* Mutant of EndOfArgs: a read that fails does not end the loop.
EndOfArgsOnlyAtEnd == /\ loc.k = Len(Cmdline[loc.file])
                      /\ pc' = "get_borg"
                      /\ UNCHANGED <<cmd, caller, cred, r, loc, faults>>

EndOfArgs == /\ pc' = "get_borg"
             /\ \/ /\ \/ loc.k = Len(Cmdline[loc.file])
                      \/ life[loc.file] # "running"
                   /\ UNCHANGED faults
                \/ faults' = faults \cup {"nomem"} \* getdelim: ENOMEM
             /\ UNCHANGED <<cmd, caller, cred, r, loc>>

Getdelim == pc = "getdelim" /\ (NextArg \/ SpoiltArg \/ EndOfArgs)

\* Mutant of GetBorg: argv[0] of the parent.
GetBorgArgv0 ==
    /\ pc = "get_borg"
    /\ \/ /\ Len(loc.vec) > 1
          /\ Return([r EXCEPT !.borg_path = loc.vec[1]], "execve")
       \/ Len(loc.vec) <= 1 /\ Refuse
       \/ Fail("nomem")

\* argv[1] of the parent: its argv[0] is the interpreter.
GetBorg ==
    /\ pc = "get_borg"
    /\ \/ /\ Len(loc.vec) > 1
          /\ Return([r EXCEPT !.borg_path = loc.vec[2]], "execve")
       \/ Len(loc.vec) <= 1 /\ Refuse
       \/ Fail("nomem")

Execve ==
    /\ pc = "execve"
    /\ \/ r.borg_path = NULL /\ Refuse
       \/ /\ r.borg_path # NULL
          /\ \/ Return(r, "backend")
             \/ \E kind \in {"nomem", "execve"} : Fail(kind)

----------------------------------------------------------------------------
Main == \/ Getopt \/ ProcessArgv \/ VerifyArgv \/ RemoteParse \/ HostIsLocal
        \/ MakeSshOriginalCommand \/ LookupUser
        \/ BecomeUser \/ Setgid \/ Initgroups \/ Setuid
        \/ SetupEnviron \/ SetupNargv \/ FinalCheck
        \/ Getppid \/ Fopen \/ Getdelim \/ GetBorg \/ Execve

Step == Main /\ UNCHANGED procVars

Next == Step \/ (ProcNext /\ UNCHANGED progVars)

\* The program has one thread that runs whenever it can; nothing makes other
\* processes do anything.
Spec == Init /\ [][Next]_vars /\ WF_vars(Step)

----------------------------------------------------------------------------
(* Correctness *)

Promise == INSTANCE RemoteShell
           WITH uid     <- cred.uid,
                session <- CASE pc = "backend" -> "serving"
                             [] pc = "exited"  -> "refused"
                             [] OTHER          -> "connecting",
                served  <- IF pc = "backend"
                           THEN [argv |-> r.nargv, env |-> r.environ] ELSE NULL

PCs == {"getopt", "process_argv", "verify_argv", "remote_parse", "host_is_local",
        "make_ssh_original_command", "lookup_user", "become_user", "setgid",
        "initgroups", "setuid", "setup_environ", "setup_nargv", "final_check",
        "getppid", "fopen", "getdelim", "get_borg", "execve", "backend", "exited"}

EnvEntry == Word \X Seq(Word)

Remote == [restrict_path : {NULL} \cup Word, argv : {NULL} \cup Seq(Word),
           user : {NULL} \cup Word, host : {NULL} \cup Seq(Word),
           ssh_original_command : {NULL} \cup Seq(Word), pw : {NULL} \cup Account,
           environ : {NULL} \cup Seq(EnvEntry), nargv : {NULL} \cup Seq(Word),
           borg_path : {NULL} \cup Word]

Elements(at) == IF at = "setup_environ" THEN EnvEntry
                ELSE IF at \in {"getdelim", "get_borg"} THEN {NULL} \cup Word
                ELSE Word

Locals(at) == [k : Nat, vec : Seq(Elements(at)), ppid : Pids \cup {0},
               file : {NULL} \cup Procs]

\* The type of every variable.  A list of words is complete or still being
\* built, but only the parent's command line may have null elements: an
\* argument vector or environment with one would be cut short by execve.
TypeOK ==
    /\ pc \in PCs
    /\ cmd \in CommandLines
    /\ caller \in Callers
    /\ cred \in Credential
    /\ r \in Remote
    /\ loc \in Locals(pc)
    /\ faults \subseteq FaultKinds
    /\ ProcTypeOK

\* The backend runs as the user that the first argument names, and never as
\* root: become_user and the final check of main, whoever the caller was.
BackendRunsAsRequestedUser ==
    pc = "backend" =>
        /\ Promise!Acceptable(cmd)
        /\ cred.uid = Promise!Account(cmd).uid
        /\ cred.uid # Superuser

\* A backend that root started has the gid and the groups of its user, each
\* unless the one call that sets it has failed, and then it has root's: of two
\* results that become_user does not look at, neither spoils what the other
\* call has done.  A backend that its user started keeps the groups it had.
GroupsDropped ==
    pc = "backend" =>
        IF caller.uid = Superuser
        THEN /\ cred.gid = IF "setgid" \in faults THEN caller.gid
                           ELSE Promise!Account(cmd).gid
             /\ cred.groups = IF "initgroups" \in faults THEN caller.groups
                              ELSE GroupsOf[Promise!Login(cmd)] \cup {Promise!Account(cmd).gid}
        ELSE cred = caller

\* As long as the client runs, the backend is the script that the client is
\* running, whatever else happens to processes, pids and memory on the way
\* (getparent_borg, str_getargv_pid).
BackendIsClientsScript ==
    pc = "backend" /\ life[Client] = "running" => r.borg_path = Cmdline[Client][2]

\* Of the lines [-r path] user@host borg serve [--umask=xxx], in which host is
\* written localhost, 127.0.0.1 or 0.0.0.0, user has an account and no word is
\* missing, added or split in two, the program turns one down only because a
\* call failed, the client is gone or names no script, or the caller may not
\* become the user (every Fail_ of main).  Of all other lines nothing is said
\* here, although borg and the README have some: a host by its name, as in
\* dumpuser@repohost (README:42), and --umask 077 in two words (README:12).
NoSpuriousRefusal ==
    pc = "exited" =>
        \/ faults # {}
        \/ life[Client] # "running"
        \/ Len(Cmdline[Client]) < 2
        \/ ~Promise!Acceptable(cmd)
        \/ ~Promise!MayServe(caller.uid, cmd)

\* The program does what a remote shell promises: it is RemoteShell, with the
\* uid of the process, and execve and exit as its ends.
ImplementsRemoteShell == Promise!Spec

\* A client is never left waiting: the backend is executed or the program
\* exits, whatever the process table does meanwhile.
Decides == <>(pc \in {"backend", "exited"})

----------------------------------------------------------------------------
(* What the documentation says, without its exceptions *)

\* "If root(uid==0) drop privilege to become "remote" user" (become_user).
RootBecomesUser ==
    pc = "backend" /\ caller.uid = Superuser =>
        cred.gid = Promise!Account(cmd).gid /\ Superuser \notin cred.groups

\* "Retrieve the borg command (python script) from parent's command line"
\* (getparent_borg): the parent is the borg client that started the program.
BorgPathIsParents == pc = "backend" => r.borg_path = Cmdline[Client][2]
=============================================================================
