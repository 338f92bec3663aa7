------------------------------ MODULE Original ------------------------------
(* original/borg-rsh-local.c, the program as it was before it got its         *)
(* library: one file, fixed buffers, lists of pointers of its own.            *)
(*                                                                            *)
(* A call of main that does not return ok ends the program (Fail_, False_).   *)
(* What differs from src/borg-rsh-local.c: strvec_append always returns ok,   *)
(* the words of the command line are counted and not compared, and the        *)
(* backend is /bin/borg.  Strings are as in BorgRsh: a word is a value and a  *)
(* string put together from words is the sequence of them.                    *)
EXTENDS Integers, Sequences, FiniteSetsExt

CONSTANTS Word,         \* the strings of a run
          CommandLines, \* the command lines: [opts, args]
          BadOption,    \* an option for which getopt returns '?'
          Fields,       \* word -> its parts between '@'s
          TooLong,      \* words that do not fit user, host or dir of remote_t
          UmaskWords,   \* the words that begin with --umask=
          Passwd,       \* login -> its account
          Callers,      \* the credentials the program may be started with
          NULL,
          Argv0,        \* argv[0] of the program
          GroupsOf,     \* login -> its supplementary groups in the group file
          MayFail       \* kinds of calls that the environment may make fail

VARIABLES pc,     \* where main is
          cmd,    \* the command line
          caller, \* the credentials it was started with
          cred,   \* its credentials now
          r,      \* main's remote_t
          k,      \* how many options or elements a loop has consumed
          faults  \* kinds of calls that the environment has made fail

vars == <<pc, cmd, caller, cred, r, k, faults>>

Account    == [uid : Nat, gid : Nat, dir : Word]
Credential == [uid : Nat, gid : Nat, groups : SUBSET Nat]

Literals == {"borg", "serve", "--umask", "077", "--restrict-to-path", "/bin/sh", "C",
             "USER", "LOGNAME", "HOME", "SHELL", "LANG", "SSH_ORIGINAL_COMMAND"}

\* The names of the host fit remote_t.host.
ASSUME OriginalAssumption ==
    /\ \A c \in CommandLines :
          /\ DOMAIN c = {"opts", "args"}
          /\ c.opts \in Seq({BadOption} \cup Word)
          /\ c.args \in Seq(Word)
          /\ \A i \in DOMAIN c.args : /\ Fields[c.args[i]] \in Seq(Word)
                                      /\ Fields[c.args[i]] # <<>>
    /\ \A login \in DOMAIN Passwd : Passwd[login] \in Account /\ GroupsOf[login] \subseteq Nat
    /\ Callers \subseteq Credential
    /\ {Argv0} \cup Literals \subseteq Word
    /\ NULL \notin Word /\ NULL \notin Word \X Seq(Word)
    /\ {"localhost", "127.0.0.1", "0.0.0.0"} \cap TooLong = {}
    /\ MayFail \subseteq {"nomem", "lookup", "setgid", "initgroups", "setuid", "execve"}

----------------------------------------------------------------------------
(* strvec_t: count elements in a block of cells, which is NULL at first *)

REQ_STEP == 16

\* Mutant of policy_size: no more than was requested.
policy_size_exact(req) == req

\* POLICY_SIZE_STEP has rq, and not the larger of rq and min, rounded up.
policy_size(req) == ((req + REQ_STEP - 1) \div REQ_STEP) * REQ_STEP

STRVEC_INIT == [count |-> 0, cells |-> <<>>]

\* Mutant of strvec_grow: what is new is not cleared.
strvec_grow_uncleared(sv, request) ==
    LET size == policy_size(request + 1)
    IN  [sv EXCEPT !.cells = [i \in 1 .. size |-> IF i <= sv.count THEN @[i] ELSE Argv0]]

\* +1 for final NULL
strvec_grow(sv, request) ==
    LET size == policy_size(request + 1)
    IN  [sv EXCEPT !.cells = [i \in 1 .. size |-> IF i <= sv.count THEN @[i] ELSE NULL]]

Put(sv, s) == [count |-> sv.count + 1, cells |-> [sv.cells EXCEPT ![sv.count + 1] = s]]

\* Mutant of strvec_append: what cannot be appended is counted.
strvec_append_counting(sv, s) ==
    {[sv |-> IF sv.count < Len(sv.cells) THEN Put(sv, s) ELSE [sv EXCEPT !.count = @ + 1],
      nomem |-> FALSE]}

\* The outcomes [sv, nomem]: if the list is full and cannot be made larger, s
\* is left out, and the result is ok all the same.
strvec_append(sv, s) ==
    IF sv.count < Len(sv.cells) THEN {[sv |-> Put(sv, s), nomem |-> FALSE]}
    ELSE {[sv |-> Put(strvec_grow(sv, sv.count), s), nomem |-> FALSE]}
         \cup IF "nomem" \in MayFail THEN {[sv |-> sv, nomem |-> TRUE]} ELSE {}

----------------------------------------------------------------------------
(* Ways to continue *)

Superuser == 0

Remote0 == [argv |-> STRVEC_INIT, nargv |-> STRVEC_INIT, environ |-> STRVEC_INIT,
            restrict_path |-> NULL, user |-> NULL, host |-> NULL, pw |-> NULL,
            ssh_original_command |-> NULL]

Init == /\ pc = "getopt"
        /\ cmd \in CommandLines
        /\ caller \in Callers
        /\ cred = caller
        /\ r = Remote0
        /\ k = 0
        /\ faults = {}

Return(remote, next) == /\ r' = remote
                        /\ pc' = next
                        /\ k' = 0
                        /\ UNCHANGED <<cmd, caller, cred, faults>>

\* exit (EXIT_FAILURE), for a reason found in what the program was given, and
\* because the environment made a call fail.
Refuse == Return(r, "exited")

Fail(kind) == /\ kind \in MayFail
              /\ pc' = "exited"
              /\ k' = 0
              /\ faults' = faults \cup {kind}
              /\ UNCHANGED <<cmd, caller, cred, r>>

Check(holds, next) == Return(r, IF holds THEN next ELSE "exited")

\* One round of appending the elements of list to r.<field>.
AppendNext(field, list) ==
    /\ k < Len(list)
    /\ \E o \in strvec_append(r[field], list[k + 1]) :
          /\ r' = [r EXCEPT ![field] = o.sv]
          /\ faults' = IF o.nomem THEN faults \cup {"nomem"} ELSE faults
    /\ k' = k + 1
    /\ UNCHANGED <<pc, cmd, caller, cred>>

AppendAll(field, list, next) == \/ AppendNext(field, list)
                                \/ k = Len(list) /\ Return(r, next)

----------------------------------------------------------------------------
(* process_argv, remote_parse, host_is_local, make_ssh_original_command *)

Getopt ==
    /\ pc = "getopt"
    /\ LET opts == cmd.opts IN
       \/ /\ k < Len(opts)
          /\ opts[k + 1] # BadOption
          /\ r' = [r EXCEPT !.restrict_path = opts[k + 1]]
          /\ k' = k + 1
          /\ UNCHANGED <<pc, cmd, caller, cred, faults>>
       \/ k < Len(opts) /\ opts[k + 1] = BadOption /\ Refuse
       \/ k = Len(opts) /\ Return(r, "process_argv")

ProcessArgv == /\ pc = "process_argv"
               /\ AppendAll("argv", <<Argv0>> \o cmd.args, "count")

CountArgs == pc = "count" /\ Check(r.argv.count = 5, "remote_parse")

\* The word is split at its first '@', if both parts fit.
RemoteParse ==
    /\ pc = "remote_parse"
    /\ LET fields == Fields[r.argv.cells[2]]
           fits   == \A i \in DOMAIN fields : fields[i] \notin TooLong
       IN  \/ /\ Len(fields) > 1 /\ fits
              /\ Return([r EXCEPT !.user = Head(fields), !.host = Tail(fields)], "host_is_local")
           \/ ~(Len(fields) > 1 /\ fits) /\ Refuse

\* Mutant of HostIsLocal: one of the names is missing.
HostIsLocalTwo ==
    pc = "host_is_local" /\ Check(r.host \in {<<"localhost">>, <<"127.0.0.1">>},
                                  "make_ssh_original_command")

HostIsLocal ==
    pc = "host_is_local" /\ Check(r.host \in {<<"localhost">>, <<"127.0.0.1">>, <<"0.0.0.0">>},
                                  "make_ssh_original_command")

BORGOFF == 2

\* The length is known before the one allocation.
MakeSshOriginalCommand ==
    /\ pc = "make_ssh_original_command"
    /\ \/ Return([r EXCEPT !.ssh_original_command =
                     SubSeq(r.argv.cells, BORGOFF + 1, r.argv.count)], "lookup_user")
       \/ Fail("nomem")

----------------------------------------------------------------------------
(* lookup_user, become_user *)

LookupUser ==
    /\ pc = "lookup_user"
    /\ \/ /\ r.user \in DOMAIN Passwd
          /\ \/ /\ Passwd[r.user].dir \notin TooLong
                /\ Return([r EXCEPT !.pw = Passwd[r.user]], "become_user")
             \/ Passwd[r.user].dir \in TooLong /\ Refuse
             \/ Fail("lookup")
       \/ r.user \notin DOMAIN Passwd /\ Refuse

\* Mutant of BecomeUser: whoever is not root may continue.
BecomeUserUnchecked ==
    /\ pc = "become_user"
    /\ \/ cred.uid = Superuser /\ Check(r.pw.uid # Superuser, "setgid")
       \/ cred.uid # Superuser /\ Return(r, "setup_environ")

BecomeUser ==
    /\ pc = "become_user"
    /\ \/ cred.uid = Superuser /\ Check(r.pw.uid # Superuser, "setgid")
       \/ cred.uid # Superuser /\ Check(r.pw.uid = cred.uid, "setup_environ")

\* setgid and initgroups: what they return is not looked at.
Changes(call, next, credential) ==
    /\ \/ cred' = credential /\ UNCHANGED faults
       \/ call \in MayFail /\ faults' = faults \cup {call} /\ UNCHANGED cred
    /\ pc' = next
    /\ UNCHANGED <<cmd, caller, r, k>>

\* Mutant of Setgid: initgroups is forgotten.
SetgidOnly == pc = "setgid" /\ Changes("setgid", "setuid", [cred EXCEPT !.gid = r.pw.gid])

Setgid == pc = "setgid" /\ Changes("setgid", "initgroups", [cred EXCEPT !.gid = r.pw.gid])

Initgroups ==
    /\ pc = "initgroups"
    /\ Changes("initgroups", "setuid",
               [cred EXCEPT !.groups = GroupsOf[r.user] \cup {r.pw.gid}])

Setuid ==
    /\ pc = "setuid"
    /\ \/ /\ cred' = [cred EXCEPT !.uid = r.pw.uid]
          /\ pc' = "setup_environ"
          /\ UNCHANGED <<cmd, caller, r, k, faults>>
       \/ Fail("setuid")

----------------------------------------------------------------------------
(* setup_environ, setup_nargv, execve *)

Environ == << <<"USER", <<r.user>>>>,
              <<"LOGNAME", <<r.user>>>>,
              <<"HOME", <<r.pw.dir>>>>,
              <<"SHELL", <<"/bin/sh">>>>,
              <<"LANG", <<"C">>>>,
              <<"SSH_ORIGINAL_COMMAND", r.ssh_original_command>> >>

\* The buffer of an entry is checked, the append of the entry is not.
SetupEnviron ==
    /\ pc = "setup_environ"
    /\ \/ AppendAll("environ", Environ, "setup_nargv")
       \/ k < Len(Environ) /\ Fail("nomem")

\* Mutant of ForcedCommand: of two -r the path is not the last one's.
ForcedCommandFirst ==
    <<"borg", "serve", "--umask", "077">>
    \o IF r.restrict_path = NULL THEN <<>> ELSE <<"--restrict-to-path", cmd.opts[1]>>

ForcedCommand ==
    <<"borg", "serve", "--umask", "077">>
    \o IF r.restrict_path = NULL THEN <<>> ELSE <<"--restrict-to-path", r.restrict_path>>

SetupNargv == pc = "setup_nargv" /\ AppendAll("nargv", ForcedCommand, "final_check")

FinalCheck == pc = "final_check" /\ Check(cred.uid # Superuser, "execve")

Execve == pc = "execve" /\ (Return(r, "backend") \/ Fail("execve"))

----------------------------------------------------------------------------
Next == \/ Getopt \/ ProcessArgv \/ CountArgs \/ RemoteParse \/ HostIsLocal
        \/ MakeSshOriginalCommand \/ LookupUser
        \/ BecomeUser \/ Setgid \/ Initgroups \/ Setuid
        \/ SetupEnviron \/ SetupNargv \/ FinalCheck \/ Execve

Spec == Init /\ [][Next]_vars

----------------------------------------------------------------------------
(* Correctness *)

Lists == {"argv", "nargv", "environ"}

Terminated(sv) == \E i \in DOMAIN sv.cells : sv.cells[i] = NULL

\* What execve reads of a list: up to the first null, or all its block if there
\* is none, and more.  A null list is empty.
Seen(sv) ==
    SubSeq(sv.cells, 1, Min({i \in DOMAIN sv.cells : sv.cells[i] = NULL} \cup {Len(sv.cells) + 1}) - 1)

Promise == INSTANCE RemoteShell
           WITH uid     <- cred.uid,
                session <- CASE pc = "backend" -> "serving"
                             [] pc = "exited"  -> "refused"
                             [] OTHER          -> "connecting",
                served  <- IF pc = "backend"
                           THEN [argv |-> Seen(r.nargv), env |-> Seen(r.environ)] ELSE NULL

PCs == {"getopt", "process_argv", "count", "remote_parse", "host_is_local",
        "make_ssh_original_command", "lookup_user", "become_user", "setgid", "initgroups",
        "setuid", "setup_environ", "setup_nargv", "final_check", "execve", "backend", "exited"}

Strvec(Elem) == {sv \in [count : Nat, cells : Seq({NULL} \cup Elem)] : sv.count <= Len(sv.cells)}

\* The type of every variable.  No element in use of a list is null.
TypeOK ==
    /\ pc \in PCs
    /\ cmd \in CommandLines
    /\ caller \in Callers
    /\ cred \in Credential
    /\ \A field \in {"argv", "nargv"} : r[field] \in Strvec(Word)
    /\ r.environ \in Strvec(Word \X Seq(Word))
    /\ \A field \in Lists : \A i \in 1 .. r[field].count : r[field].cells[i] # NULL
    /\ {r.restrict_path, r.user} \subseteq {NULL} \cup Word
    /\ r.pw \in {NULL} \cup Account
    /\ {r.host, r.ssh_original_command} \subseteq {NULL} \cup Seq(Word)
    /\ k \in Nat
    /\ faults \subseteq MayFail

\* The user named by the fourth word from the end.
Named(c) == Fields[c.args[Len(c.args) - 3]][1]

\* The backend never runs as root, and runs as the user that the fourth word
\* from the end names, whatever words went missing on the way: only the foremost
\* can have.  That is the first word of borg's lines; of a longer one it is
\* another, and such a line gets this far only if memory ran out while its words
\* were counted (become_user, the count and the final check of main).
BackendRunsAsRequestedUser ==
    pc = "backend" =>
        /\ cred.uid = Passwd[Named(cmd)].uid
        /\ cred.uid # Superuser
        /\ Len(cmd.args) = 4 \/ "nomem" \in faults

\* A backend that root started has the gid and the groups of its user, each
\* unless the one call that sets it has failed, and then it has root's; one that
\* its user started keeps the groups it had (become_user).
GroupsDropped ==
    pc = "backend" =>
        IF caller.uid = Superuser
        THEN /\ cred.gid = IF "setgid" \in faults THEN caller.gid ELSE Passwd[Named(cmd)].gid
             /\ cred.groups = IF "initgroups" \in faults THEN caller.groups
                              ELSE GroupsOf[Named(cmd)] \cup {Passwd[Named(cmd)].gid}
        ELSE cred = caller

\* A backend that is told to serve is told what it is restricted to: the
\* appends of setup_nargv that were lost, and not noticed, are the first ones.
\* (Unless the path has the name of the command and takes its place.)
ServesRestricted ==
    pc = "backend" /\ cmd.opts # <<>> /\ cmd.opts[Len(cmd.opts)] # "serve" =>
        \A i \in DOMAIN Seen(r.nargv) :
            Seen(r.nargv)[i] = "serve" =>
                SubSeq(Seen(r.nargv), i, Len(Seen(r.nargv))) = Tail(Promise!BackendArgv(cmd))

\* execve finds the ends of both its lists, although strvec_append keeps no
\* room for a null.
ListsTerminated ==
    pc = "execve" => \A field \in {"nargv", "environ"} :
                        r[field].cells # <<>> => Terminated(r[field])

\* Of the lines [-r path] user@host borg serve --umask=xxx, in which host is
\* written localhost, 127.0.0.1 or 0.0.0.0 and user has an account, the program
\* turns one down only because a call failed, something is too long, or the
\* caller may not become the user.  Of all other lines nothing is said here,
\* the README's with a host by its name among them.
NoSpuriousRefusal ==
    pc = "exited" =>
        \/ faults # {}
        \/ Len(cmd.args) # 4
        \/ ~Promise!Acceptable(cmd)
        \/ ~Promise!MayServe(caller.uid, cmd)
        \/ Promise!Login(cmd) \in TooLong
        \/ Promise!Account(cmd).dir \in TooLong

BorgLine(c) == Len(c.args) = 4 => /\ c.args[2] = "borg" /\ c.args[3] = "serve"
                                   /\ c.args[4] \in UmaskWords

\* As long as memory lasts and on the command lines of borg, the original does
\* what its successor does: it is RemoteShell.  (Of others only the words are
\* counted; without memory arguments of the backend may be left out.)
ImplementsRemoteShell ==
    Promise!Init /\ [][Promise!Next \/ "nomem" \in faults' \/ ~BorgLine(cmd)]_Promise!vars
=============================================================================
