--------------------------- MODULE BorgRsh_proofs ---------------------------
(* What BorgRsh keeps true for every set of command lines, accounts, callers  *)
(* and processes.                                                             *)
EXTENDS BorgRsh, SequenceTheorems, TLAPS

----------------------------------------------------------------------------
(* The inductive invariant: what the locals of main's functions and remote_t  *)
(* hold, by how far main has come.  From<f> is the states of a program that   *)
(* has come to f and has not exited.                                          *)

FromSetup   == {"setup_environ", "setup_nargv", "final_check", "getppid", "fopen",
                "getdelim", "get_borg", "execve", "backend"}
FromBecome  == {"become_user", "setgid", "initgroups", "setuid"} \cup FromSetup
FromLookup  == {"lookup_user"} \cup FromBecome
FromCommand == {"make_ssh_original_command"} \cup FromLookup
FromHost    == {"host_is_local"} \cup FromCommand
FromParse   == {"remote_parse"} \cup FromHost
FromVerify  == {"verify_argv"} \cup FromParse

WholeArgv == <<Argv0>> \o cmd.args

\* The options getopt has delivered so far are good, all of them in the end.
OptionsGood ==
    /\ pc = "getopt" => /\ loc.k <= Len(cmd.opts)
                        /\ \A i \in 1 .. loc.k : cmd.opts[i] # BadOption
    /\ pc \in {"process_argv"} \cup FromVerify =>
          \A i \in 1 .. Len(cmd.opts) : cmd.opts[i] # BadOption

\* rargv is a prefix of the words of the command line, then all of them.
ArgvWhole ==
    /\ pc = "process_argv" =>
          /\ Len(loc.vec) <= Len(WholeArgv)
          /\ \A i \in 1 .. Len(loc.vec) : loc.vec[i] = WholeArgv[i]
    /\ pc \in FromVerify => r.argv = WholeArgv

\* What verify_argv, remote_parse and host_is_local have found out.
Destination == Fields[cmd.args[1]]

RequestParsed ==
    /\ pc \in FromParse => ExpectedArgv(r.argv)
    /\ pc \in FromHost => /\ Len(Destination) > 1
                          /\ r.user = Head(Destination)
                          /\ r.host = Tail(Destination)
    /\ pc \in FromCommand => r.host \in {<<"localhost">>, <<"127.0.0.1">>, <<"0.0.0.0">>}
    /\ pc \in FromLookup => r.ssh_original_command \in Seq(Word)

\* What lookup_user and become_user have.
AccountHeld ==
    /\ pc \in FromBecome => r.user \in DOMAIN Passwd /\ r.pw = Passwd[r.user]
    /\ pc \in {"setgid", "initgroups", "setuid"} => r.pw.uid # Superuser
    /\ pc \in FromSetup => cred.uid = r.pw.uid /\ cred.uid # Superuser

FileOpen == pc = "getdelim" => loc.file \in Procs

IInv == TypeOK /\ OptionsGood /\ ArgvWhole /\ RequestParsed /\ AccountHeld /\ FileOpen

----------------------------------------------------------------------------
(* Lemmas *)

\* What the constants promise of a command line that has been given.
LEMMA CmdType ==
  ASSUME cmd \in CommandLines
  PROVE  /\ cmd.opts \in Seq({BadOption} \cup Word)
         /\ cmd.args \in Seq(Word)
         /\ cmd.args # <<>> => Destination \in Seq(Word) /\ Destination # <<>>
  BY BorgRshAssumption DEF Destination

\* The words main works with are argv[0] and those of the command line.
LEMMA WholeArgvType ==
  ASSUME cmd \in CommandLines
  PROVE  /\ WholeArgv \in Seq(Word)
         /\ Len(WholeArgv) = Len(cmd.args) + 1
         /\ \A i \in 1 .. Len(cmd.args) : WholeArgv[i + 1] = cmd.args[i]
  <1>1. cmd.args \in Seq(Word) /\ Argv0 \in Word
    BY CmdType, BorgRshAssumption
  <1> QED
    BY <1>1 DEF WholeArgv

\* A command line that passes verify_argv has three or four words.
LEMMA WholeArgvExpected ==
  ASSUME cmd \in CommandLines, ExpectedArgv(WholeArgv)
  PROVE  /\ Len(cmd.args) \in {3, 4} /\ cmd.args # <<>>
         /\ WholeArgv[2] = cmd.args[1]
  <1> DEFINE n == Len(cmd.args)
  <1>1. cmd.args \in Seq(Word) /\ Len(WholeArgv) = n + 1 /\ n \in Nat
    BY WholeArgvType, CmdType
  <1>2. n + 1 \in {4, 5}
    BY <1>1 DEF ExpectedArgv
  <1>3. n \in {3, 4}
    <2> HIDE DEF n
    <2> QED
      BY <1>1, <1>2
  <1>4. WholeArgv[1 + 1] = cmd.args[1]
    BY <1>1, <1>3, WholeArgvType
  <1> QED
    BY <1>1, <1>3, <1>4

\* A function that returns, in whatever way, leaves every variable typed.
LEMMA ReturnType ==
  ASSUME TypeOK, UNCHANGED procVars,
         NEW remote \in Remote, NEW next \in PCs, Return(remote, next)
  PROVE  TypeOK'
  <1>1. /\ r' = remote /\ pc' = next /\ loc' = Loc0
        /\ UNCHANGED <<cmd, caller, cred, faults, life, pid>>
    BY DEF Return, procVars
  <1>2. Loc0 \in Locals(next)
    BY DEF Loc0, Locals
  <1> QED
    BY <1>1, <1>2 DEF TypeOK, ProcTypeOK

\* A program that gives up keeps the invariant, which asks little of one that
\* has exited.
LEMMA ExitKeeps ==
  ASSUME IInv, UNCHANGED procVars,
         Refuse \/ \E kind \in FaultKinds : Fail(kind)
  PROVE  IInv'
  <1>1. /\ pc' = "exited" /\ loc' = Loc0
        /\ UNCHANGED <<cmd, caller, cred, r, life, pid>>
        /\ faults' \subseteq FaultKinds
    BY DEF Refuse, Return, Fail, procVars, IInv, TypeOK
  <1>2. Loc0 \in Locals("exited") /\ "exited" \in PCs
    BY DEF Loc0, Locals, PCs
  <1>3. TypeOK'
    BY <1>1, <1>2 DEF IInv, TypeOK, ProcTypeOK
  <1> QED
    BY <1>1, <1>3 DEF IInv, OptionsGood, ArgvWhole, RequestParsed, AccountHeld, FileOpen,
       FromVerify, FromParse, FromHost, FromCommand, FromLookup, FromBecome, FromSetup

\* Appending the next element of a list disturbs only what the invariant says
\* of the list that process_argv builds.
LEMMA AppendKeeps ==
  ASSUME IInv, UNCHANGED procVars,
         NEW list \in Seq(Elements(pc)), Len(loc.vec) < Len(list), AppendNext(list)
  PROVE  /\ TypeOK' /\ OptionsGood' /\ RequestParsed' /\ AccountHeld' /\ FileOpen'
         /\ pc # "process_argv" => ArgvWhole'
  <1>1. /\ loc' = [loc EXCEPT !.vec = Append(loc.vec, list[Len(loc.vec) + 1])]
        /\ UNCHANGED <<pc, cmd, caller, cred, r, faults, life, pid>>
    BY DEF AppendNext, procVars
  <1>2. loc \in Locals(pc)
    BY DEF IInv, TypeOK
  <1>3. Append(loc.vec, list[Len(loc.vec) + 1]) \in Seq(Elements(pc))
    <2>1. loc.vec \in Seq(Elements(pc))
      BY <1>2 DEF Locals
    <2> HIDE DEF Elements
    <2> QED
      BY <2>1
  <1>4. loc' \in Locals(pc) /\ loc'.k = loc.k /\ loc'.file = loc.file
    BY <1>1, <1>2, <1>3 DEF Locals
  <1>5. TypeOK'
    BY <1>1, <1>4 DEF IInv, TypeOK, ProcTypeOK
  <1> QED
    BY <1>1, <1>4, <1>5 DEF IInv, OptionsGood, ArgvWhole, RequestParsed, AccountHeld, FileOpen,
       FromVerify, FromParse, FromHost, FromCommand, FromLookup, FromBecome, FromSetup,
       WholeArgv, Destination

\* When only the process table moves the program's state is untouched.
LEMMA ProcKeeps ==
  ASSUME IInv, ProcNext, UNCHANGED progVars
  PROVE  IInv'
  <1>1. ProcTypeOK'
    BY DEF IInv, TypeOK, ProcTypeOK, ProcNext, Exits, Reap, Spawn, Lives
  <1>2. TypeOK'
    BY <1>1 DEF IInv, TypeOK, progVars
  <1> QED
    BY <1>2 DEF IInv, progVars, OptionsGood, ArgvWhole, RequestParsed, AccountHeld, FileOpen,
       WholeArgv, Destination

----------------------------------------------------------------------------
(* Every step of main keeps the invariant *)

\* The states after each function, for the steps that follow.
USE DEF FromVerify, FromParse, FromHost, FromCommand, FromLookup, FromBecome, FromSetup

LEMMA GetoptKeeps == ASSUME IInv, Getopt, UNCHANGED procVars PROVE IInv'
  <1> USE DEF IInv
  <1>1. CASE loc.k < Len(cmd.opts) /\ cmd.opts[loc.k + 1] # BadOption
    <2>1. /\ r' = [r EXCEPT !.restrict_path = cmd.opts[loc.k + 1]]
          /\ loc' = [loc EXCEPT !.k = loc.k + 1]
          /\ UNCHANGED <<pc, cmd, caller, cred, faults, life, pid>>
      BY <1>1 DEF Getopt, Return, Refuse, procVars, TypeOK, Locals
    <2>2. loc \in Locals(pc) /\ r \in Remote
      BY DEF TypeOK
    <2>3. cmd.opts[loc.k + 1] \in Word
      BY <1>1, <2>2, CmdType DEF TypeOK, Locals
    <2>4. r' \in Remote
      BY <2>1, <2>2, <2>3 DEF Remote
    <2>5. loc' \in Locals(pc) /\ loc'.k = loc.k + 1
      BY <2>1, <2>2 DEF Locals
    <2>6. TypeOK'
      BY <2>1, <2>4, <2>5 DEF TypeOK, ProcTypeOK
    <2>7. OptionsGood'
      BY <1>1, <2>1, <2>2, <2>5 DEF Getopt, OptionsGood, Locals
    <2> QED
      BY <2>1, <2>6, <2>7 DEF Getopt, ArgvWhole, RequestParsed, AccountHeld, FileOpen
  <1>2. CASE loc.k < Len(cmd.opts) /\ cmd.opts[loc.k + 1] = BadOption
    BY <1>2, ExitKeeps DEF Getopt, TypeOK, Locals
  <1>3. CASE loc.k = Len(cmd.opts)
    <2>1. Return(r, "process_argv") /\ pc = "getopt"
      BY <1>3, CmdType DEF Getopt, TypeOK
    <2>2. TypeOK'
      BY <2>1, ReturnType DEF TypeOK, PCs
    <2>3. ArgvWhole'
      BY <2>1, WholeArgvType DEF TypeOK, ArgvWhole, Return, Loc0, WholeArgv
    <2> QED
      BY <1>3, <2>1, <2>2, <2>3 DEF Return, OptionsGood, RequestParsed, AccountHeld, FileOpen
  <1> QED
    BY <1>1, <1>2, <1>3 DEF Getopt

LEMMA ProcessArgvKeeps == ASSUME IInv, ProcessArgv, UNCHANGED procVars PROVE IInv'
  <1> USE DEF IInv
  <1>1. pc = "process_argv" /\ WholeArgv \in Seq(Word) /\ loc.vec \in Seq(Word)
    BY WholeArgvType DEF ProcessArgv, TypeOK, Locals, Elements
  <1>2. Build(WholeArgv, [r EXCEPT !.argv = loc.vec], "verify_argv")
    BY DEF ProcessArgv, WholeArgv
  <1>3. CASE Len(loc.vec) < Len(WholeArgv) /\ AppendNext(WholeArgv)
    <2>1. WholeArgv \in Seq(Elements(pc))
      BY <1>1 DEF Elements
    <2>2. /\ TypeOK' /\ OptionsGood' /\ RequestParsed' /\ AccountHeld' /\ FileOpen'
      BY <1>3, <2>1, AppendKeeps
    <2>3. /\ loc'.vec = Append(loc.vec, WholeArgv[Len(loc.vec) + 1])
          /\ UNCHANGED <<pc, cmd>>
      BY <1>3 DEF AppendNext, TypeOK, Locals
    <2>4. ArgvWhole'
      BY <1>1, <1>3, <2>3 DEF ArgvWhole, WholeArgv
    <2> QED
      BY <2>2, <2>4
  <1>4. CASE Fail("nomem")
    BY <1>4, ExitKeeps DEF FaultKinds
  <1>5. CASE Len(loc.vec) = Len(WholeArgv) /\ Return([r EXCEPT !.argv = loc.vec], "verify_argv")
    <2>1. loc.vec = WholeArgv
      BY <1>1, <1>5 DEF ArgvWhole
    <2>2. [r EXCEPT !.argv = loc.vec] \in Remote /\ [r EXCEPT !.argv = loc.vec].argv = loc.vec
      BY <1>1 DEF TypeOK, Remote
    <2>3. TypeOK'
      BY <1>5, <2>2, ReturnType DEF PCs
    <2> QED
      BY <1>1, <1>5, <2>1, <2>2, <2>3 DEF Return, OptionsGood, ArgvWhole, WholeArgv,
         RequestParsed, AccountHeld, FileOpen
  <1> QED
    BY <1>2, <1>3, <1>4, <1>5 DEF Build

LEMMA VerifyArgvKeeps == ASSUME IInv, VerifyArgv, UNCHANGED procVars PROVE IInv'
  <1> USE DEF IInv
  <1>1. CASE ExpectedArgv(r.argv)
    <2>1. Return(r, "remote_parse") /\ pc = "verify_argv"
      BY <1>1 DEF VerifyArgv, Check
    <2>2. TypeOK'
      BY <2>1, ReturnType DEF TypeOK, PCs
    <2> QED
      BY <1>1, <2>1, <2>2 DEF Return, OptionsGood, ArgvWhole, WholeArgv, RequestParsed, AccountHeld, FileOpen
  <1>2. CASE ~ExpectedArgv(r.argv)
    BY <1>2, ExitKeeps DEF VerifyArgv, Check, Refuse
  <1> QED
    BY <1>1, <1>2

LEMMA RemoteParseKeeps == ASSUME IInv, RemoteParse, UNCHANGED procVars PROVE IInv'
  <1> USE DEF IInv
  <1>1. /\ pc = "remote_parse"
        /\ r.argv[2] = cmd.args[1]
        /\ Destination \in Seq(Word)
    <2>1. r.argv = WholeArgv /\ ExpectedArgv(WholeArgv)
      BY DEF RemoteParse, ArgvWhole, RequestParsed
    <2>2. cmd.args # <<>> /\ WholeArgv[2] = cmd.args[1]
      BY <2>1, WholeArgvExpected DEF TypeOK
    <2> QED
      BY <2>1, <2>2, CmdType DEF RemoteParse, TypeOK, Destination
  <1>2. CASE /\ Len(Destination) > 1
             /\ Return([r EXCEPT !.user = Head(Destination), !.host = Tail(Destination)],
                       "host_is_local")
    <2> DEFINE parsed == [r EXCEPT !.user = Head(Destination), !.host = Tail(Destination)]
    <2>1. Head(Destination) \in Word /\ Tail(Destination) \in Seq(Word)
      BY <1>1, <1>2
    <2>2. parsed \in Remote /\ parsed.argv = r.argv
          /\ parsed.user = Head(Destination) /\ parsed.host = Tail(Destination)
      BY <2>1 DEF TypeOK, Remote
    <2>3. TypeOK'
      BY <1>2, <2>2, ReturnType DEF PCs
    <2> QED
      BY <1>1, <1>2, <2>2, <2>3 DEF Return, OptionsGood, ArgvWhole, WholeArgv, Destination,
         RequestParsed, AccountHeld, FileOpen
  <1>3. CASE Refuse \/ Fail("nomem")
    BY <1>3, ExitKeeps DEF FaultKinds
  <1> QED
    BY <1>1, <1>2, <1>3 DEF RemoteParse, Destination

LEMMA HostIsLocalKeeps == ASSUME IInv, HostIsLocal, UNCHANGED procVars PROVE IInv'
  <1> USE DEF IInv
  <1>1. CASE r.host \in {<<"localhost">>, <<"127.0.0.1">>, <<"0.0.0.0">>}
    <2>1. Return(r, "make_ssh_original_command") /\ pc = "host_is_local"
      BY <1>1 DEF HostIsLocal, Check
    <2>2. TypeOK'
      BY <2>1, ReturnType DEF TypeOK, PCs
    <2> QED
      BY <1>1, <2>1, <2>2 DEF Return, OptionsGood, ArgvWhole, WholeArgv, Destination,
         RequestParsed, AccountHeld, FileOpen
  <1>2. CASE r.host \notin {<<"localhost">>, <<"127.0.0.1">>, <<"0.0.0.0">>}
    BY <1>2, ExitKeeps DEF HostIsLocal, Check, Refuse
  <1> QED
    BY <1>1, <1>2

\* What the three functions that build a list put into it has its type.
LEMMA CommandType ==
  ASSUME IInv, pc \in FromParse
  PROVE  SubSeq(r.argv, BORGOFF + 1, Len(r.argv)) \in Seq(Word)
  <1>1. r.argv \in Seq(Word) /\ Len(r.argv) \in {4, 5}
    BY WholeArgvType DEF IInv, ArgvWhole, RequestParsed, ExpectedArgv, TypeOK
  <1> QED
    BY <1>1 DEF BORGOFF

LEMMA EnvironType ==
  ASSUME IInv, pc \in FromBecome
  PROVE  Environ \in Seq(EnvEntry)
  <1> USE DEF IInv
  <1>1. /\ r.user \in Word /\ r.ssh_original_command \in Seq(Word)
        /\ r.pw.dir \in Word
    <2>1. r.user \in DOMAIN Passwd /\ r.pw = Passwd[r.user]
      BY DEF AccountHeld
    <2>2. Destination \in Seq(Word) /\ Len(Destination) > 1 /\ r.user = Head(Destination)
      BY WholeArgvExpected, CmdType DEF ArgvWhole, RequestParsed, TypeOK
    <2> QED
      BY <2>1, <2>2, BorgRshAssumption DEF RequestParsed, Account
  <1>2. \A key \in Word : \A value \in Seq(Word) : <<key, value>> \in EnvEntry
    BY DEF EnvEntry
  <1>3. <<r.user>> \in Seq(Word) /\ <<r.pw.dir>> \in Seq(Word)
    BY <1>1
  <1>4. <<"/bin/sh">> \in Seq(Word) /\ <<"C">> \in Seq(Word)
    <2>1. "/bin/sh" \in Word /\ "C" \in Word
      BY BorgRshAssumption DEF Literals
    <2> QED
      BY <2>1
  <1>5. Environ \in Seq(EnvEntry)
    <2>0. {"USER", "LOGNAME", "HOME", "SHELL", "LANG", "SSH_ORIGINAL_COMMAND"} \subseteq Word
      BY BorgRshAssumption DEF Literals
    <2>1. /\ <<"USER", <<r.user>>>> \in EnvEntry /\ <<"LOGNAME", <<r.user>>>> \in EnvEntry
          /\ <<"HOME", <<r.pw.dir>>>> \in EnvEntry /\ <<"SHELL", <<"/bin/sh">>>> \in EnvEntry
          /\ <<"LANG", <<"C">>>> \in EnvEntry
          /\ <<"SSH_ORIGINAL_COMMAND", r.ssh_original_command>> \in EnvEntry
      BY <2>0, <1>1, <1>2, <1>3, <1>4
    <2> QED
      BY <2>1 DEF Environ
  <1> QED
    BY <1>5

LEMMA ForcedCommandType ==
  ASSUME IInv
  PROVE  ForcedCommand \in Seq(Word)
  <1> USE DEF IInv
  <1>1. r.restrict_path \in {NULL} \cup Word
    BY DEF TypeOK, Remote
  <1>2. <<"borg", "serve", "--umask", "077">> \in Seq(Word)
    <2>1. {"borg", "serve", "--umask", "077"} \subseteq Word
      BY BorgRshAssumption DEF Literals
    <2> QED
      BY <2>1
  <1>3. CASE r.restrict_path = NULL
    BY <1>2, <1>3 DEF ForcedCommand
  <1>4. CASE r.restrict_path # NULL
    <2>1. <<"--restrict-to-path", r.restrict_path>> \in Seq(Word)
      <3>1. "--restrict-to-path" \in Word /\ r.restrict_path \in Word
        BY <1>1, <1>4, BorgRshAssumption DEF Literals
      <3> QED
        BY <3>1
    <2> QED
      BY <1>2, <1>4, <2>1 DEF ForcedCommand
  <1> QED
    BY <1>3, <1>4

LEMMA MakeSshOriginalCommandKeeps ==
  ASSUME IInv, MakeSshOriginalCommand, UNCHANGED procVars PROVE IInv'
  <1> USE DEF IInv
  <1> DEFINE words == SubSeq(r.argv, BORGOFF + 1, Len(r.argv))
  <1>1. /\ pc = "make_ssh_original_command"
        /\ words \in Seq(Word) /\ loc.vec \in Seq(Word)
    BY CommandType DEF MakeSshOriginalCommand, TypeOK, Locals, Elements
  <1>2. Build(words, [r EXCEPT !.ssh_original_command = loc.vec], "lookup_user")
    BY DEF MakeSshOriginalCommand
  <1> HIDE DEF words
  <1>3. CASE Len(loc.vec) < Len(words) /\ AppendNext(words)
    <2>1. words \in Seq(Elements(pc))
      BY <1>1 DEF Elements
    <2> QED
      BY <1>1, <1>3, <2>1, AppendKeeps
  <1>4. CASE Fail("nomem")
    BY <1>4, ExitKeeps DEF FaultKinds
  <1>5. CASE Return([r EXCEPT !.ssh_original_command = loc.vec], "lookup_user")
    <2> DEFINE done == [r EXCEPT !.ssh_original_command = loc.vec]
    <2>1. /\ done \in Remote
          /\ done.argv = r.argv /\ done.user = r.user /\ done.host = r.host
          /\ done.ssh_original_command = loc.vec
      BY <1>1 DEF TypeOK, Remote
    <2>2. TypeOK'
      BY <1>5, <2>1, ReturnType DEF PCs
    <2> QED
      BY <1>1, <1>5, <2>1, <2>2 DEF Return, OptionsGood, ArgvWhole, WholeArgv, Destination,
         RequestParsed, AccountHeld, FileOpen
  <1> QED
    BY <1>2, <1>3, <1>4, <1>5 DEF Build

LEMMA LookupUserKeeps == ASSUME IInv, LookupUser, UNCHANGED procVars PROVE IInv'
  <1> USE DEF IInv
  <1>1. CASE r.user \in DOMAIN Passwd /\ Return([r EXCEPT !.pw = Passwd[r.user]], "become_user")
    <2> DEFINE done == [r EXCEPT !.pw = Passwd[r.user]]
    <2>1. Passwd[r.user] \in Account
      BY <1>1, BorgRshAssumption
    <2>2. /\ done \in Remote
          /\ done.argv = r.argv /\ done.user = r.user /\ done.host = r.host
          /\ done.ssh_original_command = r.ssh_original_command
          /\ done.pw = Passwd[r.user]
      BY <2>1 DEF TypeOK, Remote
    <2>3. TypeOK'
      BY <1>1, <2>2, ReturnType DEF PCs
    <2> QED
      BY <1>1, <2>2, <2>3 DEF LookupUser, Return, OptionsGood, ArgvWhole, WholeArgv, Destination,
         RequestParsed, AccountHeld, FileOpen
  <1>2. CASE Refuse \/ \E kind \in {"lookup", "nomem"} : Fail(kind)
    BY <1>2, ExitKeeps DEF FaultKinds
  <1> QED
    BY <1>1, <1>2 DEF LookupUser

LEMMA BecomeUserKeeps == ASSUME IInv, BecomeUser, UNCHANGED procVars PROVE IInv'
  <1> USE DEF IInv
  <1>1. CASE /\ Return(r, "setgid") /\ r.pw.uid # Superuser
    <2>1. TypeOK'
      BY <1>1, ReturnType DEF TypeOK, PCs
    <2> QED
      BY <1>1, <2>1 DEF BecomeUser, Return, OptionsGood, ArgvWhole, WholeArgv, Destination,
         RequestParsed, AccountHeld, FileOpen
  <1>2. CASE /\ Return(r, "setup_environ") /\ r.pw.uid = cred.uid /\ cred.uid # Superuser
    <2>1. TypeOK'
      BY <1>2, ReturnType DEF TypeOK, PCs
    <2> QED
      BY <1>2, <2>1 DEF BecomeUser, Return, OptionsGood, ArgvWhole, WholeArgv, Destination,
         RequestParsed, AccountHeld, FileOpen
  <1>3. CASE Refuse
    BY <1>3, ExitKeeps
  <1> QED
    BY <1>1, <1>2, <1>3 DEF BecomeUser, Check, Refuse

LEMMA SetgidKeeps == ASSUME IInv, Setgid, UNCHANGED procVars PROVE IInv'
  <1> USE DEF IInv
  <1>1. /\ pc = "setgid" /\ pc' = "initgroups" /\ faults' \subseteq FaultKinds
        /\ UNCHANGED <<cmd, caller, r, loc, life, pid>>
    BY DEF Setgid, Denied, FaultKinds, TypeOK, procVars
  <1>2. r.pw \in Account
    BY <1>1, BorgRshAssumption DEF AccountHeld
  <1>3. cred' \in Credential
    BY <1>2 DEF Setgid, Denied, TypeOK, Credential, Account
  <1>4. Elements(pc) = Elements(pc') /\ pc' \in PCs
    BY <1>1 DEF Elements, PCs
  <1>5. TypeOK'
    BY <1>1, <1>3, <1>4 DEF TypeOK, Locals, ProcTypeOK
  <1> QED
    BY <1>1, <1>5 DEF OptionsGood, ArgvWhole, WholeArgv, Destination, RequestParsed,
       AccountHeld, FileOpen

LEMMA InitgroupsKeeps == ASSUME IInv, Initgroups, UNCHANGED procVars PROVE IInv'
  <1> USE DEF IInv
  <1>1. /\ pc = "initgroups" /\ pc' = "setuid" /\ faults' \subseteq FaultKinds
        /\ UNCHANGED <<cmd, caller, r, loc, life, pid>>
    BY DEF Initgroups, Denied, FaultKinds, TypeOK, procVars
  <1>2. r.pw \in Account /\ GroupsOf[r.user] \subseteq Nat
    BY <1>1, BorgRshAssumption DEF AccountHeld
  <1>3. cred' \in Credential
    BY <1>2 DEF Initgroups, Denied, TypeOK, Credential, Account
  <1>4. Elements(pc) = Elements(pc') /\ pc' \in PCs
    BY <1>1 DEF Elements, PCs
  <1>5. TypeOK'
    BY <1>1, <1>3, <1>4 DEF TypeOK, Locals, ProcTypeOK
  <1> QED
    BY <1>1, <1>5 DEF OptionsGood, ArgvWhole, WholeArgv, Destination, RequestParsed,
       AccountHeld, FileOpen

LEMMA SetuidKeeps == ASSUME IInv, Setuid, UNCHANGED procVars PROVE IInv'
  <1> USE DEF IInv
  <1>1. CASE Fail("setuid")
    BY <1>1, ExitKeeps DEF FaultKinds
  <1>2. CASE /\ cred' = [cred EXCEPT !.uid = r.pw.uid]
             /\ pc' = "setup_environ"
             /\ loc' = Loc0
             /\ UNCHANGED <<cmd, caller, r, faults>>
    <2>1. pc = "setuid" /\ r.pw \in Account /\ r.pw.uid # Superuser
      BY BorgRshAssumption DEF Setuid, AccountHeld
    <2>2. cred' \in Credential /\ cred'.uid = r.pw.uid
      BY <1>2, <2>1 DEF TypeOK, Credential, Account
    <2>3. loc' \in Locals(pc') /\ pc' \in PCs
      BY <1>2 DEF Locals, Loc0, PCs
    <2>4. TypeOK'
      BY <1>2, <2>2, <2>3 DEF TypeOK, ProcTypeOK, procVars
    <2> QED
      BY <1>2, <2>1, <2>2, <2>4 DEF OptionsGood, ArgvWhole, WholeArgv, Destination, RequestParsed,
         AccountHeld, FileOpen
  <1> QED
    BY <1>1, <1>2 DEF Setuid

LEMMA SetupEnvironKeeps == ASSUME IInv, SetupEnviron, UNCHANGED procVars PROVE IInv'
  <1> USE DEF IInv
  <1>1. pc = "setup_environ" /\ Environ \in Seq(EnvEntry) /\ loc.vec \in Seq(EnvEntry)
    BY EnvironType DEF SetupEnviron, TypeOK, Locals, Elements
  <1>2. CASE Len(loc.vec) < Len(Environ) /\ AppendNext(Environ)
    <2>1. Environ \in Seq(Elements(pc))
      BY <1>1 DEF Elements
    <2> QED
      BY <1>1, <1>2, <2>1, AppendKeeps
  <1>3. CASE Fail("nomem")
    BY <1>3, ExitKeeps DEF FaultKinds
  <1>4. CASE Return([r EXCEPT !.environ = loc.vec], "setup_nargv")
    <2> DEFINE done == [r EXCEPT !.environ = loc.vec]
    <2>1. /\ done \in Remote
          /\ done.argv = r.argv /\ done.user = r.user /\ done.host = r.host
          /\ done.ssh_original_command = r.ssh_original_command /\ done.pw = r.pw
      BY <1>1 DEF TypeOK, Remote
    <2>2. TypeOK'
      BY <1>4, <2>1, ReturnType DEF PCs
    <2> QED
      BY <1>1, <1>4, <2>1, <2>2 DEF Return, OptionsGood, ArgvWhole, WholeArgv, Destination,
         RequestParsed, AccountHeld, FileOpen
  <1> QED
    BY <1>2, <1>3, <1>4 DEF SetupEnviron, Build

LEMMA SetupNargvKeeps == ASSUME IInv, SetupNargv, UNCHANGED procVars PROVE IInv'
  <1> USE DEF IInv
  <1>1. pc = "setup_nargv" /\ ForcedCommand \in Seq(Word) /\ loc.vec \in Seq(Word)
    BY ForcedCommandType DEF SetupNargv, TypeOK, Locals, Elements
  <1>2. CASE Len(loc.vec) < Len(ForcedCommand) /\ AppendNext(ForcedCommand)
    <2>1. ForcedCommand \in Seq(Elements(pc))
      BY <1>1 DEF Elements
    <2> QED
      BY <1>1, <1>2, <2>1, AppendKeeps
  <1>3. CASE Fail("nomem")
    BY <1>3, ExitKeeps DEF FaultKinds
  <1>4. CASE Return([r EXCEPT !.nargv = loc.vec], "final_check")
    <2> DEFINE done == [r EXCEPT !.nargv = loc.vec]
    <2>1. /\ done \in Remote
          /\ done.argv = r.argv /\ done.user = r.user /\ done.host = r.host
          /\ done.ssh_original_command = r.ssh_original_command /\ done.pw = r.pw
      BY <1>1 DEF TypeOK, Remote
    <2>2. TypeOK'
      BY <1>4, <2>1, ReturnType DEF PCs
    <2> QED
      BY <1>1, <1>4, <2>1, <2>2 DEF Return, OptionsGood, ArgvWhole, WholeArgv, Destination,
         RequestParsed, AccountHeld, FileOpen
  <1> QED
    BY <1>2, <1>3, <1>4 DEF SetupNargv, Build

LEMMA FinalCheckKeeps == ASSUME IInv, FinalCheck, UNCHANGED procVars PROVE IInv'
  <1> USE DEF IInv
  <1>1. Return(r, "getppid") /\ pc = "final_check"
    BY DEF FinalCheck, Check, AccountHeld
  <1>2. TypeOK'
    BY <1>1, ReturnType DEF TypeOK, PCs
  <1> QED
    BY <1>1, <1>2 DEF Return, OptionsGood, ArgvWhole, WholeArgv, Destination,
       RequestParsed, AccountHeld, FileOpen

LEMMA GetppidKeeps == ASSUME IInv, Getppid, UNCHANGED procVars PROVE IInv'
  <1> USE DEF IInv
  <1>1. pid[Parent] \in Pids \cup {0}
    BY ProcTableAssumption DEF TypeOK, ProcTypeOK, Parent
  <1>2. /\ pc = "getppid" /\ pc' = "fopen" /\ loc' = [loc EXCEPT !.ppid = pid[Parent]]
        /\ UNCHANGED <<cmd, caller, cred, r, faults, life, pid>>
    BY DEF Getppid, procVars
  <1>3. Elements(pc) = Elements(pc') /\ pc' \in PCs
    BY <1>2 DEF Elements, PCs
  <1>4. loc' \in Locals(pc')
    BY <1>1, <1>2, <1>3 DEF TypeOK, Locals
  <1>5. TypeOK'
    BY <1>2, <1>3, <1>4 DEF TypeOK, ProcTypeOK
  <1> QED
    BY <1>2, <1>5 DEF OptionsGood, ArgvWhole, WholeArgv, Destination, RequestParsed,
       AccountHeld, FileOpen

LEMMA FopenKeeps == ASSUME IInv, Fopen, UNCHANGED procVars PROVE IInv'
  <1> USE DEF IInv
  <1>1. CASE Refuse \/ \E kind \in {"nomem", "procfs"} : Fail(kind)
    BY <1>1, ExitKeeps DEF FaultKinds
  <1>2. ASSUME NEW p \in Holding,
               loc' = [loc EXCEPT !.file = p], pc' = "getdelim",
               UNCHANGED <<cmd, caller, cred, r, faults>>
        PROVE  IInv'
    <2>1. pc = "fopen" /\ p \in Procs /\ loc \in Locals(pc)
      BY DEF Fopen, Holding, TypeOK
    <2>2. loc.vec \in Seq(Elements(pc'))
      BY <1>2, <2>1 DEF Locals, Elements
    <2>3. loc' \in Locals(pc') /\ loc'.file = p
      BY <1>2, <2>1, <2>2 DEF Locals
    <2>4. TypeOK'
      BY <1>2, <2>3 DEF TypeOK, ProcTypeOK, PCs, procVars
    <2> QED
      BY <1>2, <2>1, <2>3, <2>4 DEF OptionsGood, ArgvWhole, WholeArgv, Destination, RequestParsed,
         AccountHeld, FileOpen
  <1> QED
    BY <1>1, <1>2 DEF Fopen

LEMMA GetdelimKeeps == ASSUME IInv, Getdelim, UNCHANGED procVars PROVE IInv'
  <1> USE DEF IInv
  <1>1. /\ pc = "getdelim" /\ loc \in Locals(pc) /\ loc.file \in Procs
        /\ loc.vec \in Seq({NULL} \cup Word) /\ loc.k \in Nat
    BY DEF Getdelim, TypeOK, FileOpen, Locals, Elements
  <1>2. CASE NextArg \/ SpoiltArg
    <2>0. PICK k \in Nat : k = loc.k + 1
      BY <1>1
    <2>1. PICK vec \in Seq({NULL} \cup Word) : loc' = [loc EXCEPT !.k = k, !.vec = vec]
      <3>1. CASE NextArg
        <4>1. Cmdline[loc.file][loc.k + 1] \in Word
          BY <1>1, <3>1, BorgRshAssumption DEF NextArg, MoreArgs
        <4>2. Append(loc.vec, Cmdline[loc.file][loc.k + 1]) \in Seq({NULL} \cup Word)
          BY <1>1, <4>1
        <4> QED
          BY <2>0, <3>1, <4>2 DEF NextArg
      <3>2. CASE SpoiltArg
        <4>1. Append(loc.vec, NULL) \in Seq({NULL} \cup Word)
          BY <1>1
        <4> QED
          BY <1>1, <2>0, <3>2, <4>1 DEF SpoiltArg
      <3> QED
        BY <1>2, <3>1, <3>2
    <2>2. faults' \subseteq FaultKinds /\ UNCHANGED <<pc, cmd, caller, cred, r, life, pid>>
      BY <1>2 DEF NextArg, SpoiltArg, FaultKinds, TypeOK, procVars
    <2>3. loc' \in Locals(pc) /\ loc'.file = loc.file
      <3>1. vec \in Seq(Elements(pc)) /\ loc \in Locals(pc)
        BY <1>1, <2>1 DEF Elements
      <3> HIDE DEF IInv
      <3> QED
        BY <2>1, <3>1 DEF Locals
    <2>4. TypeOK'
      BY <2>2, <2>3 DEF TypeOK, ProcTypeOK
    <2> QED
      BY <1>1, <2>2, <2>3, <2>4 DEF OptionsGood, ArgvWhole, WholeArgv, Destination, RequestParsed,
         AccountHeld, FileOpen
  <1>3. CASE EndOfArgs
    <2>1. /\ pc' = "get_borg" /\ faults' \subseteq FaultKinds
          /\ UNCHANGED <<cmd, caller, cred, r, loc, life, pid>>
      BY <1>3 DEF EndOfArgs, FaultKinds, TypeOK, procVars
    <2>2. Elements(pc) = Elements(pc') /\ pc' \in PCs
      BY <1>1, <2>1 DEF Elements, PCs
    <2>3. TypeOK'
      BY <2>1, <2>2 DEF TypeOK, Locals, ProcTypeOK
    <2> QED
      BY <1>1, <2>1, <2>3 DEF OptionsGood, ArgvWhole, WholeArgv, Destination, RequestParsed,
         AccountHeld, FileOpen
  <1> QED
    BY <1>2, <1>3 DEF Getdelim

LEMMA GetBorgKeeps == ASSUME IInv, GetBorg, UNCHANGED procVars PROVE IInv'
  <1> USE DEF IInv
  <1>1. CASE Len(loc.vec) > 1 /\ Return([r EXCEPT !.borg_path = loc.vec[2]], "execve")
    <2> DEFINE done == [r EXCEPT !.borg_path = loc.vec[2]]
    <2>1. pc = "get_borg" /\ loc.vec[2] \in {NULL} \cup Word
      BY <1>1 DEF GetBorg, TypeOK, Locals, Elements
    <2>2. /\ done \in Remote
          /\ done.argv = r.argv /\ done.user = r.user /\ done.host = r.host
          /\ done.ssh_original_command = r.ssh_original_command /\ done.pw = r.pw
      BY <2>1 DEF TypeOK, Remote
    <2>3. TypeOK'
      BY <1>1, <2>2, ReturnType DEF PCs
    <2> QED
      BY <1>1, <2>1, <2>2, <2>3 DEF Return, OptionsGood, ArgvWhole, WholeArgv, Destination,
         RequestParsed, AccountHeld, FileOpen
  <1>2. CASE Refuse \/ Fail("nomem")
    BY <1>2, ExitKeeps DEF FaultKinds
  <1> QED
    BY <1>1, <1>2 DEF GetBorg

LEMMA ExecveKeeps == ASSUME IInv, Execve, UNCHANGED procVars PROVE IInv'
  <1> USE DEF IInv
  <1>1. CASE Return(r, "backend")
    <2>1. TypeOK'
      BY <1>1, ReturnType DEF TypeOK, PCs
    <2> QED
      BY <1>1, <2>1 DEF Execve, Return, OptionsGood, ArgvWhole, WholeArgv, Destination,
         RequestParsed, AccountHeld, FileOpen
  <1>2. CASE Refuse \/ \E kind \in {"nomem", "execve"} : Fail(kind)
    BY <1>2, ExitKeeps DEF FaultKinds
  <1> QED
    BY <1>1, <1>2 DEF Execve

\* A program that has looked up the user has been asked what borg asks, and
\* has the account that the request names.
LEMMA RequestAcceptable ==
  ASSUME IInv, pc \in FromBecome
  PROVE  /\ Promise!Acceptable(cmd)
         /\ Promise!Login(cmd) = r.user
         /\ Promise!Account(cmd) = r.pw
  <1>1. /\ r.argv = WholeArgv /\ ExpectedArgv(WholeArgv) /\ cmd \in CommandLines
    BY DEF IInv, ArgvWhole, RequestParsed, TypeOK
  <1>2. Len(cmd.args) \in {3, 4} /\ cmd.args # <<>>
    BY <1>1, WholeArgvExpected
  <1>3. /\ cmd.args[2] = "borg" /\ cmd.args[3] = "serve"
        /\ Len(cmd.args) = 4 => cmd.args[4] \in UmaskWords
    <2>1. /\ WholeArgv[2 + 1] = cmd.args[2] /\ WholeArgv[3 + 1] = cmd.args[3]
          /\ Len(WholeArgv) = Len(cmd.args) + 1
          /\ Len(cmd.args) = 4 => WholeArgv[4 + 1] = cmd.args[4]
      BY <1>1, <1>2, WholeArgvType
    <2> QED
      BY <1>1, <1>2, <2>1 DEF ExpectedArgv
  <1>4. \A i \in DOMAIN cmd.opts : cmd.opts[i] # BadOption
    BY <1>1, CmdType DEF IInv, OptionsGood
  <1>5. /\ Destination \in Seq(Word) /\ Len(Destination) = 2
        /\ Destination[1] = r.user /\ <<Destination[2]>> = r.host
    <2>1. /\ Destination \in Seq(Word) /\ Len(Destination) > 1
          /\ r.user = Head(Destination) /\ r.host = Tail(Destination)
          /\ Len(r.host) = 1
      BY <1>1, <1>2, CmdType DEF IInv, RequestParsed
    <2> QED
      BY <2>1
  <1>6. Destination[2] \in Promise!LocalHosts
    BY <1>5 DEF IInv, RequestParsed, Promise!LocalHosts
  <1>7. r.user \in DOMAIN Passwd /\ r.pw = Passwd[r.user]
    BY DEF IInv, AccountHeld
  <1>8. Promise!Acceptable(cmd)
    BY <1>2, <1>3, <1>4, <1>5, <1>6, <1>7 DEF Promise!Acceptable, Destination
  <1>9. Promise!Login(cmd) = r.user /\ Promise!Account(cmd) = r.pw
    BY <1>5, <1>7 DEF Promise!Account, Promise!Login, Destination
  <1> QED
    BY <1>8, <1>9

----------------------------------------------------------------------------
(* Theorems *)

\* The inductive invariant holds in every reachable state of the program.
THEOREM Invariance == Spec => []IInv
  <1>1. Init => IInv
    <2> SUFFICES ASSUME Init PROVE IInv
      OBVIOUS
    <2>1. cmd \in CommandLines /\ cred \in Credential
      BY BorgRshAssumption DEF Init
    <2>2. ProcTypeOK
      BY ProcTableAssumption DEF Init, ProcInit, ProcTypeOK, Lives
    <2>3. TypeOK
      BY <2>1, <2>2 DEF Init, TypeOK, PCs, Remote0, Loc0, FaultKinds, Remote, Locals, Elements
    <2> QED
      BY <2>3, CmdType DEF Init, IInv, OptionsGood, ArgvWhole, RequestParsed, AccountHeld,
         FileOpen, Loc0
  <1>2. IInv /\ [Next]_vars => IInv'
    <2> SUFFICES ASSUME IInv, [Next]_vars PROVE IInv'
      OBVIOUS
    <2>1. CASE Step
      BY <2>1, GetoptKeeps, ProcessArgvKeeps, VerifyArgvKeeps, RemoteParseKeeps, HostIsLocalKeeps,
         MakeSshOriginalCommandKeeps, LookupUserKeeps, BecomeUserKeeps, SetgidKeeps,
         InitgroupsKeeps, SetuidKeeps, SetupEnvironKeeps, SetupNargvKeeps, FinalCheckKeeps,
         GetppidKeeps, FopenKeeps, GetdelimKeeps, GetBorgKeeps, ExecveKeeps DEF Step, Main
    <2>2. CASE ProcNext /\ UNCHANGED progVars
      BY <2>2, ProcKeeps
    <2>3. CASE UNCHANGED vars
      BY <2>3 DEF vars, IInv, TypeOK, ProcTypeOK, OptionsGood, ArgvWhole, WholeArgv, Destination,
         RequestParsed, AccountHeld, FileOpen
    <2> QED
      BY <2>1, <2>2, <2>3 DEF Next
  <1> QED
    BY <1>1, <1>2, PTL DEF Spec

\* Every variable keeps its type: in particular a list that reaches execve has
\* no null element in it (setup_environ, setup_nargv).
THEOREM TypeCorrect == Spec => []TypeOK
  <1>1. IInv => TypeOK
    BY DEF IInv
  <1> QED
    BY <1>1, Invariance, PTL

\* The backend is only ever run for a request that borg makes, by the user the
\* request names, and never by root (become_user and main's final check).
THEOREM RunsAsRequestedUser == Spec => []BackendRunsAsRequestedUser
  <1>1. IInv => BackendRunsAsRequestedUser
    BY RequestAcceptable DEF BackendRunsAsRequestedUser, IInv, AccountHeld
  <1> QED
    BY <1>1, Invariance, PTL

----------------------------------------------------------------------------
(* What the two ends of the launcher mean, for every set of command lines,    *)
(* accounts, callers and processes: whose credentials the backend has, which  *)
(* script it is, why a request is refused, and that all of this is what       *)
(* RemoteShell promises.  Invariants, by how far main has come.               *)

FromFinal == {"final_check", "getppid", "fopen", "getdelim", "get_borg", "execve", "backend"}
FromNargv == {"setup_nargv"} \cup FromFinal

BeforeCredentials == {"getopt", "process_argv", "verify_argv", "remote_parse", "host_is_local",
                      "make_ssh_original_command", "lookup_user", "become_user"}

\* Only root calls setgid, initgroups and setuid.  What root's calls have not
\* failed to do has been done, and nothing else.
Credentials ==
    /\ pc \in BeforeCredentials \cup {"setgid"} => cred = caller /\ "setgid" \notin faults
    /\ pc \in BeforeCredentials \cup {"setgid", "initgroups"} =>
          cred.groups = caller.groups /\ "initgroups" \notin faults
    /\ pc \in {"setgid", "initgroups", "setuid"} =>
          cred.uid = Superuser /\ caller.uid = Superuser
    /\ caller.uid = Superuser /\ pc \in {"initgroups", "setuid"} \cup FromSetup =>
          cred.gid = IF "setgid" \in faults THEN caller.gid ELSE r.pw.gid
    /\ caller.uid = Superuser /\ pc \in {"setuid"} \cup FromSetup =>
          cred.groups = IF "initgroups" \in faults THEN caller.groups
                        ELSE GroupsOf[r.user] \cup {r.pw.gid}
    /\ caller.uid # Superuser /\ pc \in FromSetup => cred = caller

\* vec is what has been built of list.
Begins(vec, list) == /\ Len(vec) <= Len(list)
                     /\ \A i \in 1 .. Len(vec) : vec[i] = list[i]

LastOption == IF cmd.opts = <<>> THEN NULL ELSE cmd.opts[Len(cmd.opts)]

\* What of the command line goes into the backend's arguments and environment,
\* and that each list is complete when the function that builds it is over.
BackendBuilt ==
    /\ pc = "getopt" => r.restrict_path = IF loc.k = 0 THEN NULL ELSE cmd.opts[loc.k]
    /\ pc \in {"process_argv"} \cup FromVerify => r.restrict_path = LastOption
    /\ pc = "make_ssh_original_command" =>
          Begins(loc.vec, SubSeq(r.argv, BORGOFF + 1, Len(r.argv)))
    /\ pc \in FromLookup => r.ssh_original_command = SubSeq(cmd.args, 2, Len(cmd.args))
    /\ pc = "setup_environ" => Begins(loc.vec, Environ)
    /\ pc \in FromNargv => r.environ = Promise!BackendEnv(cmd)
    /\ pc = "setup_nargv" => Begins(loc.vec, ForcedCommand)
    /\ pc \in FromFinal => r.nargv = Promise!BackendArgv(cmd)

ClientRuns == life[Client] = "running"

\* While the client runs, its command line is the one that is read, and the
\* first two words of it are neither left out nor moved: a vector of fewer than
\* two words need not grow.  What memory spoils, faults tells.
ScriptRead ==
    /\ PidsUnique
    /\ life[Client] # "unborn"
    /\ pc \in {"getppid", "fopen"} => loc.k = 0 /\ loc.vec = <<>>
    /\ pc = "fopen" /\ ClientRuns => loc.ppid = pid[Client]
    /\ pc \in {"getdelim", "get_borg"} /\ ClientRuns =>
          /\ loc.file = Client
          /\ loc.k <= Len(Cmdline[Client])
          /\ Len(loc.vec) <= loc.k
          /\ Len(loc.vec) < 2 => loc.k = Len(loc.vec)
          /\ \A i \in 1 .. Len(loc.vec) :
                i <= 2 => \/ loc.vec[i] = Cmdline[Client][i]
                          \/ loc.vec[i] = NULL /\ faults # {}
    /\ pc = "get_borg" /\ ClientRuns /\ faults = {} => loc.k = Len(Cmdline[Client])
    /\ pc \in {"execve", "backend"} /\ ClientRuns =>
          \/ r.borg_path = Cmdline[Client][2]
          \/ r.borg_path = NULL /\ faults # {}
    /\ pc = "backend" => r.borg_path # NULL

----------------------------------------------------------------------------
(* Lemmas *)

\* Ways to continue, as far as they concern credentials: exiting concerns them
\* no longer.
LEMMA ExitLeaves ==
  ASSUME Refuse \/ \E kind \in FaultKinds : Fail(kind)
  PROVE  pc' = "exited" /\ UNCHANGED <<cmd, caller, cred, r>> /\ faults \subseteq faults'
  BY DEF Refuse, Return, Fail

\* Steps that have nothing to do with credentials leave them alone, and do not
\* get past become_user.
LEMMA CredentialsAlone ==
  ASSUME IInv, Main, pc \notin {"become_user", "setgid", "initgroups", "setuid"}
  PROVE  /\ UNCHANGED <<caller, cred>>
         /\ \A call \in {"setgid", "initgroups"} : call \in faults' <=> call \in faults
         /\ pc' \in BeforeCredentials => pc \in BeforeCredentials
         /\ pc' \notin {"setgid", "initgroups", "setuid"}
         /\ pc' \in FromSetup => pc \in FromSetup /\ r'.pw = r.pw /\ r'.user = r.user
  <1> USE DEF Return, Refuse, Fail, BeforeCredentials, FromSetup, IInv, TypeOK, Remote
  <1>1. CASE Getopt
    BY <1>1 DEF Getopt
  <1>2. CASE ProcessArgv
    BY <1>2 DEF ProcessArgv, Build, AppendNext
  <1>3. CASE VerifyArgv \/ HostIsLocal \/ FinalCheck
    BY <1>3 DEF VerifyArgv, HostIsLocal, FinalCheck, Check
  <1>4. CASE RemoteParse
    BY <1>4 DEF RemoteParse
  <1>5. CASE MakeSshOriginalCommand
    BY <1>5 DEF MakeSshOriginalCommand, Build, AppendNext
  <1>6. CASE LookupUser
    BY <1>6 DEF LookupUser
  <1>7. CASE SetupEnviron
    BY <1>7 DEF SetupEnviron, Build, AppendNext
  <1>8. CASE SetupNargv
    BY <1>8 DEF SetupNargv, Build, AppendNext
  <1>9. CASE Getppid \/ Fopen
    BY <1>9 DEF Getppid, Fopen
  <1>10. CASE Getdelim
    BY <1>10 DEF Getdelim, NextArg, SpoiltArg, EndOfArgs
  <1>11. CASE GetBorg \/ Execve
    BY <1>11 DEF GetBorg, Execve
  <1>12. CASE BecomeUser \/ Setgid \/ Initgroups \/ Setuid
    BY <1>12 DEF BecomeUser, Setgid, Initgroups, Setuid
  <1> QED
    BY <1>1, <1>2, <1>3, <1>4, <1>5, <1>6, <1>7, <1>8, <1>9, <1>10, <1>11, <1>12 DEF Main

LEMMA CredentialsKeep == ASSUME IInv, Credentials, Main PROVE Credentials'
  <1> USE DEF IInv, Credentials, BeforeCredentials, FromSetup
  <1>1. CASE pc \notin {"become_user", "setgid", "initgroups", "setuid"}
    BY <1>1, CredentialsAlone
  <1>2. CASE BecomeUser
    BY <1>2 DEF BecomeUser, Check, Return
  <1>3. CASE Setgid
    BY <1>3 DEF Setgid, Denied, TypeOK, Credential
  <1>4. CASE Initgroups
    BY <1>4 DEF Initgroups, Denied, TypeOK, Credential
  <1>5. CASE Setuid
    BY <1>5 DEF Setuid, Fail, TypeOK, Credential
  <1>6. pc = "become_user" => BecomeUser
    BY DEF Main, Getopt, ProcessArgv, VerifyArgv, RemoteParse, HostIsLocal,
       MakeSshOriginalCommand, LookupUser, BecomeUser, Setgid, Initgroups, Setuid,
       SetupEnviron, SetupNargv, FinalCheck, Getppid, Fopen, Getdelim, GetBorg, Execve
  <1>7. pc \in {"setgid", "initgroups", "setuid"} => Setgid \/ Initgroups \/ Setuid
    BY DEF Main, Getopt, ProcessArgv, VerifyArgv, RemoteParse, HostIsLocal,
       MakeSshOriginalCommand, LookupUser, BecomeUser, Setgid, Initgroups, Setuid,
       SetupEnviron, SetupNargv, FinalCheck, Getppid, Fopen, Getdelim, GetBorg, Execve
  <1> QED
    BY <1>1, <1>2, <1>3, <1>4, <1>5, <1>6, <1>7

----------------------------------------------------------------------------
(* The backend's arguments and environment *)

USE DEF FromVerify, FromParse, FromHost, FromCommand, FromLookup, FromBecome, FromSetup,
        FromNargv, FromFinal

\* A list that is being built grows by the element that is next.
LEMMA BeginsGrows ==
  ASSUME NEW S, NEW list \in Seq(S), NEW vec \in Seq(S),
         Begins(vec, list), Len(vec) < Len(list)
  PROVE  Begins(Append(vec, list[Len(vec) + 1]), list)
  BY DEF Begins

\* It is complete when it is as long.
LEMMA BeginsWhole ==
  ASSUME NEW S, NEW list \in Seq(S), NEW vec \in Seq(S),
         Begins(vec, list), Len(vec) = Len(list)
  PROVE  vec = list
  BY DEF Begins

\* A step of a function that builds a list in the locals: the list grows, or
\* the function is over, in one way or another.
LEMMA BuildStep ==
  ASSUME NEW S, NEW list \in Seq(S), loc.vec \in Seq(S), Begins(loc.vec, list),
         TypeOK, NEW remote, NEW next, Build(list, remote, next)
  PROVE  \/ /\ Begins(loc'.vec, list)
            /\ UNCHANGED <<pc, cmd, caller, cred, r>>
         \/ pc' = "exited" /\ UNCHANGED <<cmd, r>>
         \/ loc.vec = list /\ Return(remote, next)
  <1>1. CASE Len(loc.vec) < Len(list) /\ AppendNext(list)
    <2>1. loc' = [loc EXCEPT !.vec = Append(loc.vec, list[Len(loc.vec) + 1])]
      BY <1>1 DEF AppendNext
    <2>2. loc'.vec = Append(loc.vec, list[Len(loc.vec) + 1])
      BY <2>1 DEF TypeOK, Locals
    <2> QED
      BY <1>1, <2>2, BeginsGrows DEF AppendNext
  <1>2. CASE Fail("nomem")
    BY <1>2 DEF Fail
  <1>3. CASE Len(loc.vec) = Len(list) /\ Return(remote, next)
    BY <1>3, BeginsWhole
  <1> QED
    BY <1>1, <1>2, <1>3 DEF Build

\* The words that are passed on are those behind user@host.
LEMMA CommandIsRest ==
  ASSUME IInv, pc \in FromParse
  PROVE  SubSeq(r.argv, BORGOFF + 1, Len(r.argv)) = SubSeq(cmd.args, 2, Len(cmd.args))
  <1> DEFINE n == Len(cmd.args)
             rest == SubSeq(r.argv, 3, n + 1)
  <1>1. /\ r.argv = WholeArgv /\ ExpectedArgv(WholeArgv) /\ cmd \in CommandLines
        /\ cmd.args \in Seq(Word)
    BY CmdType DEF IInv, ArgvWhole, RequestParsed, TypeOK, FromVerify
  <1>2. n \in {3, 4} /\ Len(r.argv) = n + 1 /\ r.argv \in Seq(Word)
        /\ \A i \in 1 .. n : r.argv[i + 1] = cmd.args[i]
    BY <1>1, WholeArgvExpected, WholeArgvType
  <1>3. /\ rest \in Seq(Word) /\ Len(rest) = n - 1
        /\ \A i \in 1 .. n - 1 : rest[i] = r.argv[i + 2]
    <2> HIDE DEF n
    <2> QED
      BY <1>2
  <1>4. /\ SubSeq(cmd.args, 2, n) \in Seq(Word) /\ Len(SubSeq(cmd.args, 2, n)) = n - 1
        /\ \A i \in 1 .. n - 1 : SubSeq(cmd.args, 2, n)[i] = cmd.args[i + 1]
    BY <1>1, <1>2
  <1>5. \A i \in 1 .. n - 1 : r.argv[i + 2] = cmd.args[i + 1]
    <2>1. \A i \in 1 .. n - 1 : i + 1 \in 1 .. n /\ (i + 1) + 1 = i + 2
      BY <1>2
    <2> QED
      BY <1>2, <2>1
  <1>6. rest = SubSeq(cmd.args, 2, n)
    BY <1>2, <1>3, <1>4, <1>5
  <1> QED
    BY <1>2, <1>6 DEF BORGOFF

\* Steps that build nothing for the backend: remote_t keeps what is there.
LEMMA BackendAlone ==
  ASSUME IInv, BackendBuilt, UNCHANGED <<cmd, r.restrict_path>>,
         pc' \in {"process_argv"} \cup FromVerify => pc \in {"process_argv"} \cup FromVerify,
         pc' \notin {"getopt", "make_ssh_original_command", "setup_environ", "setup_nargv"},
         pc' \in FromLookup => pc \in FromLookup /\ UNCHANGED r.ssh_original_command,
         pc' \in FromFinal => pc \in FromFinal /\ UNCHANGED <<r.environ, r.nargv>>
  PROVE  BackendBuilt'
  BY DEF BackendBuilt, LastOption, Promise!BackendEnv, Promise!BackendArgv,
     Promise!Login, Promise!Account

\* The steps that find something out, or change credentials or locals.
LEMMA BackendAside ==
  ASSUME IInv, BackendBuilt,
         \/ VerifyArgv \/ RemoteParse \/ LookupUser \/ Setgid \/ Initgroups
         \/ FinalCheck \/ Getppid \/ Fopen \/ Getdelim \/ GetBorg \/ Execve
  PROVE  BackendBuilt'
  <1> USE DEF Return, Refuse, Fail, Check
  <1>0. r \in Remote
    BY DEF IInv, TypeOK
  <1>1. CASE VerifyArgv \/ FinalCheck
    BY <1>1, BackendAlone DEF VerifyArgv, FinalCheck
  <1>2. CASE RemoteParse
    BY <1>0, <1>2, BackendAlone DEF RemoteParse, Remote
  <1>3. CASE LookupUser
    BY <1>0, <1>3, BackendAlone DEF LookupUser, Remote
  <1>4. CASE Setgid \/ Initgroups
    BY <1>4, BackendAlone DEF Setgid, Initgroups
  <1>5. CASE Getppid \/ Fopen
    BY <1>5, BackendAlone DEF Getppid, Fopen
  <1>6. CASE Getdelim
    BY <1>6, BackendAlone DEF Getdelim, NextArg, SpoiltArg, EndOfArgs
  <1>7. CASE GetBorg
    BY <1>0, <1>7, BackendAlone DEF GetBorg, Remote
  <1>8. CASE Execve
    BY <1>8, BackendAlone DEF Execve
  <1> QED
    BY <1>1, <1>2, <1>3, <1>4, <1>5, <1>6, <1>7, <1>8

\* A list that has not been begun is a beginning.
LEMMA NothingBegins ==
  ASSUME NEW S, NEW list \in Seq(S)
  PROVE  Begins(<<>>, list)
  BY DEF Begins

LEMMA BackendKeeps == ASSUME IInv, BackendBuilt, Main PROVE BackendBuilt'
  <1> USE DEF Return, Refuse, Fail, Check
  <1>0. r \in Remote /\ loc \in Locals(pc) /\ cmd.opts \in Seq({BadOption} \cup Word)
    BY CmdType DEF IInv, TypeOK
  <1>1. CASE Getopt
    <2>1. CASE /\ loc.k < Len(cmd.opts)
               /\ r' = [r EXCEPT !.restrict_path = cmd.opts[loc.k + 1]]
               /\ loc' = [loc EXCEPT !.k = loc.k + 1]
               /\ UNCHANGED <<pc, cmd>>
      <3>1. loc'.k = loc.k + 1 /\ loc'.k # 0 /\ r'.restrict_path = cmd.opts[loc'.k]
        BY <1>0, <2>1 DEF Locals, Remote
      <3> QED
        BY <1>1, <2>1, <3>1 DEF Getopt, BackendBuilt
    <2>2. CASE loc.k = Len(cmd.opts) /\ Return(r, "process_argv")
      <3>1. r.restrict_path = LastOption
        BY <1>0, <1>1, <2>2 DEF Getopt, BackendBuilt, LastOption
      <3> QED
        BY <2>2, <3>1 DEF BackendBuilt, LastOption
    <2>3. CASE Refuse
      BY <2>3 DEF BackendBuilt
    <2> QED
      BY <1>1, <2>1, <2>2, <2>3 DEF Getopt
  <1>2. CASE ProcessArgv
    <2>1. pc = "process_argv" /\ UNCHANGED cmd /\ r'.restrict_path = r.restrict_path
          /\ pc' \in {"process_argv", "verify_argv", "exited"}
      BY <1>0, <1>2 DEF ProcessArgv, Build, AppendNext, Remote
    <2> QED
      BY <2>1 DEF BackendBuilt, LastOption
  <1>3. CASE HostIsLocal
    <2>1. Begins(<<>>, SubSeq(r.argv, BORGOFF + 1, Len(r.argv)))
      BY <1>3, CommandType, NothingBegins DEF HostIsLocal
    <2> QED
      BY <1>3, <2>1 DEF HostIsLocal, BackendBuilt, LastOption, Loc0
  <1>4. CASE MakeSshOriginalCommand
    <2> DEFINE words == SubSeq(r.argv, BORGOFF + 1, Len(r.argv))
               done  == [r EXCEPT !.ssh_original_command = loc.vec]
    <2>1. /\ pc = "make_ssh_original_command" /\ words \in Seq(Word) /\ loc.vec \in Seq(Word)
          /\ Begins(loc.vec, words) /\ Build(words, done, "lookup_user")
      BY <1>0, <1>4, CommandType DEF MakeSshOriginalCommand, BackendBuilt, Locals, Elements
    <2>2. words = SubSeq(cmd.args, 2, Len(cmd.args))
      BY <2>1, CommandIsRest
    <2> HIDE DEF words
    <2>3. \/ Begins(loc'.vec, words) /\ UNCHANGED <<pc, cmd, r>>
          \/ pc' = "exited" /\ UNCHANGED <<cmd, r>>
          \/ loc.vec = words /\ r' = done /\ pc' = "lookup_user" /\ UNCHANGED cmd
      BY <2>1, BuildStep DEF IInv
    <2>4. done.restrict_path = r.restrict_path /\ done.ssh_original_command = loc.vec
      BY <1>0 DEF Remote
    <2> QED
      BY <2>1, <2>2, <2>3, <2>4 DEF BackendBuilt, LastOption, words
  <1>5. CASE BecomeUser \/ Setuid
    <2>1. Begins(<<>>, Environ)
      BY <1>5, EnvironType, NothingBegins DEF BecomeUser, Setuid
    <2>2. /\ pc \in {"become_user", "setuid"} /\ UNCHANGED <<cmd, r>>
          /\ pc' \in {"setgid", "setup_environ", "exited"}
          /\ pc' = "setup_environ" => loc'.vec = <<>>
      BY <1>5 DEF BecomeUser, Setuid, Loc0
    <2>3. UNCHANGED <<LastOption, Environ>>
      BY <2>2 DEF LastOption, Environ
    <2> QED
      BY <2>1, <2>2, <2>3 DEF BackendBuilt
  <1>6. CASE SetupEnviron
    <2> DEFINE done == [r EXCEPT !.environ = loc.vec]
    <2>1. /\ pc = "setup_environ" /\ Environ \in Seq(EnvEntry) /\ loc.vec \in Seq(EnvEntry)
          /\ Begins(loc.vec, Environ) /\ Build(Environ, done, "setup_nargv")
      BY <1>0, <1>6, EnvironType DEF SetupEnviron, BackendBuilt, Locals, Elements
    <2>2. Environ = Promise!BackendEnv(cmd)
      BY <2>1, RequestAcceptable DEF BackendBuilt, Environ, Promise!BackendEnv
    <2>3. \/ Begins(loc'.vec, Environ) /\ UNCHANGED <<pc, cmd, r>>
          \/ pc' = "exited" /\ UNCHANGED <<cmd, r>>
          \/ /\ loc.vec = Environ /\ r' = done /\ pc' = "setup_nargv" /\ loc'.vec = <<>>
             /\ UNCHANGED cmd
      BY <2>1, BuildStep DEF IInv, Loc0
    <2>4. /\ done.restrict_path = r.restrict_path /\ done.environ = loc.vec
          /\ done.ssh_original_command = r.ssh_original_command
      BY <1>0 DEF Remote
    <2>5. CASE Begins(loc'.vec, Environ) /\ UNCHANGED <<pc, cmd, r>>
      BY <2>1, <2>5 DEF BackendBuilt, LastOption, Environ
    <2>6. CASE pc' = "exited"
      BY <2>6 DEF BackendBuilt
    <2>7. CASE loc.vec = Environ /\ r' = done /\ pc' = "setup_nargv" /\ loc'.vec = <<>>
               /\ UNCHANGED cmd
      <3>1. ForcedCommand' = ForcedCommand
        BY <2>4, <2>7 DEF ForcedCommand
      <3>2. Begins(loc'.vec, ForcedCommand')
        BY <2>7, <3>1, ForcedCommandType, NothingBegins
      <3> QED
        BY <2>1, <2>2, <2>4, <2>7, <3>2 DEF BackendBuilt, LastOption, Promise!BackendEnv,
           Promise!Login, Promise!Account
    <2> QED
      BY <2>3, <2>5, <2>6, <2>7
  <1>7. CASE SetupNargv
    <2> DEFINE done == [r EXCEPT !.nargv = loc.vec]
    <2>1. /\ pc = "setup_nargv" /\ ForcedCommand \in Seq(Word) /\ loc.vec \in Seq(Word)
          /\ Begins(loc.vec, ForcedCommand) /\ Build(ForcedCommand, done, "final_check")
      BY <1>0, <1>7, ForcedCommandType DEF SetupNargv, BackendBuilt, Locals, Elements
    <2>2. ForcedCommand = Promise!BackendArgv(cmd)
      <3>1. r.restrict_path = LastOption
        BY <2>1 DEF BackendBuilt
      <3>2. cmd.opts # <<>> => cmd.opts[Len(cmd.opts)] # NULL
        <4>1. ASSUME cmd.opts # <<>>
              PROVE  cmd.opts[Len(cmd.opts)] \in Word
          BY <1>0, <2>1, <4>1 DEF IInv, OptionsGood
        <4> QED
          BY <4>1, BorgRshAssumption
      <3> QED
        BY <3>1, <3>2 DEF LastOption, ForcedCommand, Promise!BackendArgv
    <2>3. \/ Begins(loc'.vec, ForcedCommand) /\ UNCHANGED <<pc, cmd, r>>
          \/ pc' = "exited" /\ UNCHANGED <<cmd, r>>
          \/ loc.vec = ForcedCommand /\ r' = done /\ pc' = "final_check" /\ UNCHANGED cmd
      BY <2>1, BuildStep DEF IInv
    <2>4. /\ done.restrict_path = r.restrict_path /\ done.nargv = loc.vec
          /\ done.ssh_original_command = r.ssh_original_command /\ done.environ = r.environ
      BY <1>0 DEF Remote
    <2> QED
      BY <2>1, <2>2, <2>3, <2>4 DEF BackendBuilt, LastOption, ForcedCommand, Promise!BackendEnv,
         Promise!BackendArgv, Promise!Login, Promise!Account
  <1> QED
    BY <1>1, <1>2, <1>3, <1>4, <1>5, <1>6, <1>7, BackendAside DEF Main

----------------------------------------------------------------------------
(* The parent's command line *)

AtScript == {"getppid", "fopen", "getdelim", "get_borg", "execve", "backend"}

\* Before main comes to getppid there is nothing to keep but the process table.
LEMMA ScriptNotYet ==
  ASSUME IInv, ScriptRead, UNCHANGED procVars, pc' \notin AtScript
  PROVE  ScriptRead'
  BY DEF ScriptRead, AtScript, PidsUnique, Holding, ClientRuns, procVars

LEMMA BeforeScript ==
  ASSUME IInv, ScriptRead, UNCHANGED procVars, Main, pc \notin AtScript
  PROVE  ScriptRead'
  <1> USE DEF Return, Refuse, Fail, Check, AtScript
  <1>1. CASE Getopt \/ VerifyArgv \/ RemoteParse \/ HostIsLocal \/ LookupUser
    BY <1>1, ScriptNotYet DEF Getopt, VerifyArgv, RemoteParse, HostIsLocal, LookupUser
  <1>2. CASE ProcessArgv \/ MakeSshOriginalCommand \/ SetupEnviron \/ SetupNargv
    BY <1>2, ScriptNotYet DEF ProcessArgv, MakeSshOriginalCommand, SetupEnviron, SetupNargv,
       Build, AppendNext
  <1>3. CASE BecomeUser \/ Setgid \/ Initgroups \/ Setuid
    BY <1>3, ScriptNotYet DEF BecomeUser, Setgid, Initgroups, Setuid
  <1>4. CASE FinalCheck
    <2>1. /\ pc' \in {"getppid", "exited"} /\ UNCHANGED <<life, pid, faults>>
          /\ loc'.k = 0 /\ loc'.vec = <<>>
      BY <1>4 DEF FinalCheck, Loc0, procVars
    <2> QED
      BY <2>1 DEF ScriptRead, PidsUnique, Holding, ClientRuns
  <1>5. CASE Getppid \/ Fopen \/ Getdelim \/ GetBorg \/ Execve
    BY <1>5 DEF Getppid, Fopen, Getdelim, GetBorg, Execve
  <1> QED
    BY <1>1, <1>2, <1>3, <1>4, <1>5 DEF Main

\* Only one process has the pid that getppid has returned while the client,
\* which has it, runs.
LEMMA FopenScript ==
  ASSUME IInv, ScriptRead, UNCHANGED procVars, Getppid \/ Fopen
  PROVE  ScriptRead'
  <1>0. /\ loc \in Locals(pc) /\ UNCHANGED <<life, pid>> /\ Client \in Procs
        /\ ClientRuns' = ClientRuns /\ PidsUnique' = PidsUnique
    BY ProcTableAssumption DEF IInv, TypeOK, procVars, ClientRuns, PidsUnique, Holding
  <1>1. CASE Getppid
    <2>1. /\ pc = "getppid" /\ pc' = "fopen"
          /\ loc'.ppid = pid[Parent] /\ loc'.k = loc.k /\ loc'.vec = loc.vec
      BY <1>0, <1>1 DEF Getppid, Locals
    <2>2. ClientRuns => Parent = Client
      BY DEF ClientRuns, Parent
    <2> QED
      BY <1>0, <2>1, <2>2 DEF ScriptRead
  <1>2. CASE Fopen /\ pc' = "exited"
    BY <1>2, ScriptNotYet DEF AtScript
  <1>3. ASSUME Fopen, NEW p \in Holding, pid[p] = loc.ppid,
               loc' = [loc EXCEPT !.file = p], pc' = "getdelim", UNCHANGED <<r, faults>>
        PROVE  ScriptRead'
    <2>1. pc = "fopen" /\ loc'.file = p /\ loc'.k = loc.k /\ loc'.vec = loc.vec
      BY <1>0, <1>3 DEF Fopen, Locals
    <2>2. loc'.k = 0 /\ loc'.vec = <<>> /\ Len(<<>>) = 0
      BY <2>1 DEF ScriptRead
    <2>3. ClientRuns => p = Client
      BY <1>0, <1>3, <2>1 DEF ScriptRead, PidsUnique, ClientRuns, Holding
    <2>4. Cmdline[Client] \in Seq(Word)
      BY <1>0, BorgRshAssumption
    <2> QED
      BY <1>0, <1>3, <2>1, <2>2, <2>3, <2>4 DEF ScriptRead
  <1> QED
    BY <1>1, <1>2, <1>3 DEF Fopen, Refuse, Return, Fail

\* While arguments are read.
LEMMA GetdelimScript ==
  ASSUME IInv, ScriptRead, UNCHANGED procVars, Getdelim
  PROVE  ScriptRead'
  <1> DEFINE words == Cmdline[Client]
  <1>0. /\ loc \in Locals(pc) /\ UNCHANGED <<life, pid>> /\ pc = "getdelim"
        /\ ClientRuns' = ClientRuns /\ PidsUnique' = PidsUnique
        /\ loc.vec \in Seq({NULL} \cup Word) /\ loc.k \in Nat
        /\ words \in Seq(Word)
    BY ProcTableAssumption, BorgRshAssumption DEF IInv, TypeOK, procVars, ClientRuns, PidsUnique,
       Holding, Getdelim, Locals, Elements
  <1>1. CASE ~ClientRuns
    BY <1>0, <1>1 DEF ScriptRead, Getdelim, NextArg, SpoiltArg, EndOfArgs
  <1>2. CASE ClientRuns /\ (NextArg \/ SpoiltArg)
    <2>1. /\ loc.file = Client /\ loc.k < Len(words) /\ Len(loc.vec) <= loc.k
          /\ Len(loc.vec) < 2 => loc.k = Len(loc.vec)
          /\ \A i \in 1 .. Len(loc.vec) :
                i <= 2 => loc.vec[i] = words[i] \/ (loc.vec[i] = NULL /\ faults # {})
      BY <1>0, <1>2 DEF ScriptRead, NextArg, SpoiltArg, MoreArgs
    <2>2. PICK arg \in {NULL} \cup Word :
             /\ loc' \in {[loc EXCEPT !.k = loc.k + 1, !.vec = Append(loc.vec, arg)]}
                         \cup {l \in {[loc EXCEPT !.k = loc.k + 1]} : Len(loc.vec) >= 2}
             /\ arg = words[loc.k + 1] \/ (arg = NULL /\ faults' # {})
             /\ faults \subseteq faults' /\ UNCHANGED <<pc, r>>
      <3>1. CASE NextArg
        <4>1. words[loc.k + 1] \in Word
          BY <1>0, <2>1
        <4> QED
          BY <1>0, <2>1, <3>1, <4>1 DEF NextArg
      <3>2. CASE SpoiltArg
        <4>1. PICK vec \in {Append(loc.vec, NULL)} \cup {v \in {loc.vec} : Len(v) >= VecMin} :
                 loc' = [loc EXCEPT !.k = loc.k + 1, !.vec = vec]
          BY <3>2 DEF SpoiltArg
        <4>2. vec # Append(loc.vec, NULL) => vec = loc.vec /\ Len(loc.vec) >= 2
          BY <1>0, <4>1, BorgRshAssumption
        <4>3. loc' = [loc EXCEPT !.k = loc.k + 1, !.vec = loc.vec] =>
                 loc' = [loc EXCEPT !.k = loc.k + 1]
          BY <1>0 DEF Locals
        <4>4. faults' # {} /\ faults \subseteq faults' /\ UNCHANGED <<pc, r>>
          BY <3>2 DEF SpoiltArg
        <4> QED
          BY <4>1, <4>2, <4>3, <4>4
      <3> QED
        BY <1>2, <3>1, <3>2
    <2>3. CASE loc' = [loc EXCEPT !.k = loc.k + 1, !.vec = Append(loc.vec, arg)]
      <3>1. /\ loc'.k = loc.k + 1 /\ loc'.vec = Append(loc.vec, arg) /\ loc'.file = Client
        BY <1>0, <2>1, <2>3 DEF Locals
      <3>2. /\ Len(loc'.vec) = Len(loc.vec) + 1
            /\ \A i \in 1 .. Len(loc.vec) : loc'.vec[i] = loc.vec[i]
            /\ loc'.vec[Len(loc.vec) + 1] = arg
        BY <1>0, <3>1
      <3>3. \A i \in 1 .. Len(loc'.vec) :
               i <= 2 => loc'.vec[i] = words[i] \/ (loc'.vec[i] = NULL /\ faults' # {})
        BY <1>0, <2>1, <2>2, <3>2
      <3>4. /\ loc'.k <= Len(words) /\ Len(loc'.vec) <= loc'.k
            /\ Len(loc'.vec) < 2 => loc'.k = Len(loc'.vec)
        BY <1>0, <2>1, <3>1, <3>2
      <3> QED
        BY <1>0, <2>2, <3>1, <3>3, <3>4 DEF ScriptRead
    <2>4. CASE loc' = [loc EXCEPT !.k = loc.k + 1] /\ Len(loc.vec) >= 2
      <3>1. loc'.k = loc.k + 1 /\ loc'.vec = loc.vec /\ loc'.file = Client
        BY <1>0, <2>1, <2>4 DEF Locals
      <3>2. /\ loc'.k <= Len(words) /\ Len(loc'.vec) <= loc'.k
            /\ ~(Len(loc'.vec) < 2)
        BY <1>0, <2>1, <2>4, <3>1
      <3> QED
        BY <1>0, <2>1, <2>2, <3>1, <3>2 DEF ScriptRead
    <2> QED
      BY <2>2, <2>3, <2>4
  <1>3. CASE ClientRuns /\ EndOfArgs
    <2>1. /\ pc' = "get_borg" /\ UNCHANGED <<r, loc>> /\ faults \subseteq faults'
          /\ faults' = {} => loc.k = Len(words)
      BY <1>0, <1>3 DEF EndOfArgs, ScriptRead, ClientRuns
    <2> QED
      BY <1>0, <2>1 DEF ScriptRead
  <1> QED
    BY <1>1, <1>2, <1>3 DEF Getdelim

\* The second word is taken, and must be there to be executed.
LEMMA ExecveScript ==
  ASSUME IInv, ScriptRead, UNCHANGED procVars, GetBorg \/ Execve
  PROVE  ScriptRead'
  <1>0. /\ loc \in Locals(pc) /\ r \in Remote /\ UNCHANGED <<life, pid>>
        /\ ClientRuns' = ClientRuns /\ PidsUnique' = PidsUnique
    BY DEF IInv, TypeOK, procVars, ClientRuns, PidsUnique, Holding
  <1>1. CASE pc' = "exited"
    BY <1>1, ScriptNotYet DEF AtScript
  <1>2. CASE pc = "get_borg" /\ Len(loc.vec) > 1 /\ UNCHANGED faults
             /\ r' = [r EXCEPT !.borg_path = loc.vec[2]] /\ pc' = "execve"
    <2>1. r'.borg_path = loc.vec[2]
      BY <1>0, <1>2 DEF Remote
    <2>2. 2 \in 1 .. Len(loc.vec)
      BY <1>0, <1>2 DEF Locals, Elements
    <2> QED
      BY <1>0, <1>2, <2>1, <2>2 DEF ScriptRead
  <1>3. CASE pc = "execve" /\ r.borg_path # NULL /\ UNCHANGED <<r, faults>> /\ pc' = "backend"
    BY <1>0, <1>3 DEF ScriptRead
  <1> QED
    BY <1>1, <1>2, <1>3 DEF GetBorg, Execve, Return, Refuse, Fail

\* Other processes do not get the pid of one that has not been reaped, and the
\* client does not come back to life.
LEMMA ProcScript ==
  ASSUME IInv, ScriptRead, ProcNext, UNCHANGED progVars
  PROVE  ScriptRead'
  <1>0. life \in [Procs -> Lives] /\ pid \in [Procs -> Pids \cup {0}] /\ Client \in Procs
    BY ProcTableAssumption DEF IInv, TypeOK, ProcTypeOK
  <1>1. PICK p \in Procs : Exits(p) \/ Reap(p) \/ Spawn(p)
    BY DEF ProcNext
  <1>2. PidsUnique'
    <2>1. CASE Exits(p) \/ Reap(p)
      BY <1>0, <2>1 DEF ScriptRead, PidsUnique, Holding, Exits, Reap
    <2>2. CASE Spawn(p)
      <3>1. PICK free \in Pids \ {pid[q] : q \in Holding} : pid' = [pid EXCEPT ![p] = free]
        BY <2>2 DEF Spawn
      <3>2. Holding' \subseteq Holding \cup {p}
        BY <1>0, <2>2 DEF Spawn, Holding
      <3>3. /\ pid'[p] = free
            /\ \A q \in Holding \ {p} : pid'[q] = pid[q] /\ pid'[q] # free
        BY <1>0, <3>1 DEF Holding
      <3> QED
        BY <3>2, <3>3 DEF ScriptRead, PidsUnique
    <2> QED
      BY <1>1, <2>1, <2>2
  <1>3. /\ life'[Client] # "unborn" /\ (ClientRuns' => ClientRuns)
        /\ pid'[Client] = pid[Client]
    BY <1>0, <1>1 DEF ScriptRead, ClientRuns, Exits, Reap, Spawn
  <1> QED
    BY <1>2, <1>3 DEF ScriptRead, progVars

----------------------------------------------------------------------------
(* Reasons to refuse *)

Reason == \/ faults # {}
          \/ ~ClientRuns
          \/ Len(Cmdline[Client]) < 2
          \/ ~Promise!Acceptable(cmd)
          \/ ~Promise!MayServe(caller.uid, cmd)

LEMMA TailOfTwo ==
  ASSUME NEW S, NEW seq \in Seq(S), Len(seq) = 2
  PROVE  Tail(seq) = <<seq[2]>>
  <1>1. Tail(seq) \in Seq(S) /\ Len(Tail(seq)) = 1 /\ Tail(seq)[1] = seq[1 + 1]
    BY HeadTailProperties
  <1>2. \A rest \in Seq(S) : Len(rest) = 1 => rest = <<rest[1]>>
    OBVIOUS
  <1>3. 1 + 1 = 2
    OBVIOUS
  <1> QED
    BY <1>1, <1>2, <1>3, Zenon

\* A condition that turns a command line down is one that borg's meet.
LEMMA LineRefused ==
  ASSUME IInv, Getopt \/ VerifyArgv \/ RemoteParse \/ HostIsLocal \/ LookupUser, pc' = "exited"
  PROVE  faults' # {} \/ ~Promise!Acceptable(cmd)
  <1> SUFFICES ASSUME Promise!Acceptable(cmd) PROVE faults' # {}
    OBVIOUS
  <1> USE DEF Return, Refuse, Fail, Check
  <1>0. /\ cmd \in CommandLines /\ loc \in Locals(pc)
        /\ cmd.opts \in Seq({BadOption} \cup Word) /\ cmd.args \in Seq(Word)
        /\ Destination \in Seq(Word)
    BY CmdType DEF IInv, TypeOK, Promise!Acceptable
  <1>1. /\ Len(cmd.args) \in {3, 4} /\ cmd.args[2] = "borg" /\ cmd.args[3] = "serve"
        /\ Len(cmd.args) = 4 => cmd.args[4] \in UmaskWords
        /\ Len(Destination) = 2 /\ Destination[1] \in DOMAIN Passwd
        /\ Destination[2] \in Promise!LocalHosts
    BY DEF Promise!Acceptable, Destination
  <1>2. CASE Getopt
    <2>1. loc.k < Len(cmd.opts) /\ cmd.opts[loc.k + 1] = BadOption
      BY <1>0, <1>2 DEF Getopt
    <2>2. loc.k + 1 \in DOMAIN cmd.opts
      BY <1>0, <2>1 DEF Locals
    <2> QED
      BY <2>1, <2>2 DEF Promise!Acceptable
  <1>3. CASE VerifyArgv
    <2>1. r.argv = WholeArgv /\ ~ExpectedArgv(WholeArgv)
      BY <1>3 DEF VerifyArgv, IInv, ArgvWhole
    <2>2. /\ Len(WholeArgv) = Len(cmd.args) + 1
          /\ \A i \in 1 .. Len(cmd.args) : WholeArgv[i + 1] = cmd.args[i]
      BY <1>0, WholeArgvType
    <2>3. /\ WholeArgv[2 + 1] = cmd.args[2] /\ WholeArgv[3 + 1] = cmd.args[3]
          /\ Len(cmd.args) = 4 => WholeArgv[4 + 1] = cmd.args[4]
      BY <1>1, <2>2
    <2>4. /\ Len(WholeArgv) \in {4, 5} /\ WholeArgv[3] = "borg" /\ WholeArgv[4] = "serve"
          /\ Len(WholeArgv) = 5 => Len(cmd.args) = 4 /\ WholeArgv[5] = cmd.args[4]
      <3>1. PICK n \in {3, 4} : n = Len(cmd.args)
        BY <1>1
      <3>2. Len(WholeArgv) = n + 1
        BY <2>2, <3>1
      <3>3. n + 1 \in {4, 5} /\ (n + 1 = 5 => n = 4)
        OBVIOUS
      <3>4. WholeArgv[3] = cmd.args[2] /\ WholeArgv[4] = cmd.args[3]
        BY <2>3
      <3>5. n = 4 => WholeArgv[5] = cmd.args[4]
        BY <2>3, <3>1
      <3> QED
        BY <1>1, <3>1, <3>2, <3>3, <3>4, <3>5
    <2> QED
      BY <1>1, <2>1, <2>4 DEF ExpectedArgv
  <1>4. CASE RemoteParse
    <2>1. Fields[r.argv[2]] = Destination
      BY <1>0, <1>4, WholeArgvExpected DEF RemoteParse, IInv, ArgvWhole, RequestParsed, Destination
    <2> QED
      BY <1>1, <1>4, <2>1 DEF RemoteParse
  <1>5. CASE HostIsLocal
    <2>1. r.host = Tail(Destination)
      BY <1>5 DEF HostIsLocal, IInv, RequestParsed
    <2>2. r.host = <<Destination[2]>>
      <3>1. Destination \in Seq(Word) /\ Len(Destination) = 2
        BY <1>0, <1>1
      <3> QED
        BY <2>1, <3>1, TailOfTwo
    <2>3. r.host \in {<<"localhost">>, <<"127.0.0.1">>, <<"0.0.0.0">>}
      BY <1>1, <2>2 DEF Promise!LocalHosts
    <2> QED
      BY <1>5, <2>3 DEF HostIsLocal
  <1>6. CASE LookupUser
    <2>1. r.user = Destination[1]
      BY <1>0, <1>1, <1>6 DEF LookupUser, IInv, RequestParsed
    <2> QED
      BY <1>1, <1>6, <2>1 DEF LookupUser
  <1> QED
    BY <1>2, <1>3, <1>4, <1>5, <1>6

\* Whoever may not become the user is turned away before anything is done.
LEMMA UserRefused ==
  ASSUME IInv, Credentials, BecomeUser, pc' = "exited"
  PROVE  ~Promise!MayServe(caller.uid, cmd)
  <1>1. pc = "become_user" /\ cred = caller
    BY DEF BecomeUser, Credentials, BeforeCredentials
  <1>2. Promise!Account(cmd) = r.pw
    BY <1>1, RequestAcceptable
  <1> QED
    BY <1>1, <1>2 DEF BecomeUser, Check, Return, Promise!MayServe, Promise!Superuser, Superuser

\* While the client runs and nothing has failed there is a script.
LEMMA ScriptRefused ==
  ASSUME IInv, ScriptRead, Fopen \/ GetBorg \/ Execve, pc' = "exited"
  PROVE  faults' # {} \/ ~ClientRuns \/ Len(Cmdline[Client]) < 2
  <1> SUFFICES ASSUME faults' = {}, ClientRuns, Len(Cmdline[Client]) >= 2
               PROVE  FALSE
    BY ProcTableAssumption, BorgRshAssumption
  <1> USE DEF Return, Refuse, Fail
  <1>1. faults = {} /\ loc \in Locals(pc) /\ Cmdline[Client] \in Seq(Word)
    BY ProcTableAssumption, BorgRshAssumption DEF Fopen, GetBorg, Execve, IInv, TypeOK
  <1>2. CASE Fopen
    <2>1. pc = "fopen" /\ \A p \in Holding : pid[p] # loc.ppid
      BY <1>2 DEF Fopen
    <2>2. loc.ppid = pid[Client] /\ Client \in Holding
      BY <2>1, ProcTableAssumption DEF ScriptRead, ClientRuns, Holding
    <2> QED
      BY <2>1, <2>2
  <1>3. CASE GetBorg
    <2>1. pc = "get_borg" /\ Len(loc.vec) <= 1
      BY <1>3 DEF GetBorg
    <2>2. loc.k = Len(loc.vec) /\ loc.k = Len(Cmdline[Client])
      BY <1>1, <2>1 DEF ScriptRead, Locals, Elements
    <2> QED
      BY <2>1, <2>2
  <1>4. CASE Execve
    <2>1. pc = "execve" /\ r.borg_path = NULL
      BY <1>4 DEF Execve
    <2>2. r.borg_path = Cmdline[Client][2]
      BY <1>1, <2>1 DEF ScriptRead
    <2>3. Cmdline[Client][2] \in Word
      BY <1>1
    <2> QED
      BY <2>1, <2>2, <2>3, BorgRshAssumption
  <1> QED
    BY <1>2, <1>3, <1>4

\* The other functions only give up when a call has failed.
LEMMA FaultRefused ==
  ASSUME IInv, pc' = "exited", pc # "exited",
         \/ ProcessArgv \/ MakeSshOriginalCommand \/ SetupEnviron \/ SetupNargv
         \/ Setgid \/ Initgroups \/ Setuid \/ FinalCheck \/ Getppid \/ Getdelim
  PROVE  faults' # {}
  <1> USE DEF Return, Fail
  <1>1. CASE ProcessArgv \/ MakeSshOriginalCommand \/ SetupEnviron \/ SetupNargv
    BY <1>1 DEF ProcessArgv, MakeSshOriginalCommand, SetupEnviron, SetupNargv, Build, AppendNext
  <1>2. CASE Setgid \/ Initgroups \/ Setuid
    BY <1>2 DEF Setgid, Initgroups, Setuid
  <1>3. CASE FinalCheck
    BY <1>3 DEF FinalCheck, Check, IInv, AccountHeld
  <1>4. CASE Getppid \/ Getdelim
    BY <1>4 DEF Getppid, Getdelim, NextArg, SpoiltArg, EndOfArgs
  <1> QED
    BY <1>1, <1>2, <1>3, <1>4

\* Main does nothing after it has exited or the backend has been executed.
LEMMA Ended ==
  ASSUME Main
  PROVE  pc \notin {"exited", "backend"} /\ UNCHANGED <<cmd, caller>>
  <1> USE DEF Return, Refuse, Fail, Check
  <1>1. CASE Getopt \/ VerifyArgv \/ RemoteParse \/ HostIsLocal \/ LookupUser
    BY <1>1 DEF Getopt, VerifyArgv, RemoteParse, HostIsLocal, LookupUser
  <1>2. CASE ProcessArgv \/ MakeSshOriginalCommand \/ SetupEnviron \/ SetupNargv
    BY <1>2 DEF ProcessArgv, MakeSshOriginalCommand, SetupEnviron, SetupNargv, Build, AppendNext
  <1>3. CASE BecomeUser \/ Setgid \/ Initgroups \/ Setuid \/ FinalCheck
    BY <1>3 DEF BecomeUser, Setgid, Initgroups, Setuid, FinalCheck
  <1>4. CASE Getppid \/ Fopen \/ Getdelim \/ GetBorg \/ Execve
    BY <1>4 DEF Getppid, Fopen, Getdelim, NextArg, SpoiltArg, EndOfArgs, GetBorg, Execve
  <1> QED
    BY <1>1, <1>2, <1>3, <1>4 DEF Main

LEMMA RefusalKeeps ==
  ASSUME IInv, Credentials, ScriptRead, NoSpuriousRefusal, [Next]_vars
  PROVE  NoSpuriousRefusal'
  <1>0. NoSpuriousRefusal <=> (pc = "exited" => Reason)
    BY DEF NoSpuriousRefusal, Reason, ClientRuns
  <1>1. CASE Step
    <2> SUFFICES ASSUME pc' = "exited" PROVE Reason'
      BY DEF NoSpuriousRefusal, Reason, ClientRuns
    <2>1. pc # "exited" /\ UNCHANGED <<cmd, caller, life>> /\ Main
      BY <1>1, Ended DEF Step, procVars
    <2>2. \/ faults' # {} \/ ~ClientRuns \/ Len(Cmdline[Client]) < 2
          \/ ~Promise!Acceptable(cmd) \/ ~Promise!MayServe(caller.uid, cmd)
      BY <2>1, LineRefused, UserRefused, ScriptRefused, FaultRefused DEF Main
    <2> QED
      BY <2>1, <2>2 DEF Reason, ClientRuns
  <1>2. CASE ProcNext /\ UNCHANGED progVars
    <2>1. ~ClientRuns => ~ClientRuns'
      BY <1>2, ProcTableAssumption DEF ScriptRead, ClientRuns, ProcNext, Exits, Reap, Spawn, IInv,
         TypeOK, ProcTypeOK
    <2> QED
      BY <1>0, <1>2, <2>1 DEF NoSpuriousRefusal, Reason, ClientRuns, progVars
  <1>3. CASE UNCHANGED vars
    BY <1>3 DEF vars, NoSpuriousRefusal
  <1> QED
    BY <1>1, <1>2, <1>3 DEF Next

----------------------------------------------------------------------------
(* Theorems *)

Outcome == IInv /\ Credentials /\ BackendBuilt /\ ScriptRead /\ NoSpuriousRefusal

\* Steps of others, and none, leave the program alone.
LEMMA Elsewhere ==
  ASSUME Credentials, BackendBuilt, UNCHANGED progVars
  PROVE  Credentials' /\ BackendBuilt'
  BY DEF progVars, Credentials, BackendBuilt, LastOption, Environ, ForcedCommand,
     Promise!BackendEnv, Promise!BackendArgv, Promise!Login, Promise!Account

LEMMA OutcomeKeeps == ASSUME Outcome, IInv', [Next]_vars PROVE Outcome'
  <1> USE DEF Outcome
  <1>1. NoSpuriousRefusal'
    BY RefusalKeeps
  <1>2. CASE Step
    <2>1. Credentials' /\ BackendBuilt'
      BY <1>2, CredentialsKeep, BackendKeeps DEF Step
    <2>2. ScriptRead'
      <3>1. CASE pc \in AtScript
        <4>1. Getppid \/ Fopen \/ Getdelim \/ GetBorg \/ Execve
          BY <1>2, <3>1 DEF AtScript, Step, Main, Getopt, ProcessArgv, VerifyArgv, RemoteParse,
             HostIsLocal, MakeSshOriginalCommand, LookupUser, BecomeUser, Setgid, Initgroups,
             Setuid, SetupEnviron, SetupNargv, FinalCheck
        <4> QED
          BY <1>2, <4>1, FopenScript, GetdelimScript, ExecveScript DEF Step
      <3>2. CASE pc \notin AtScript
        BY <1>2, <3>2, BeforeScript DEF Step
      <3> QED
        BY <3>1, <3>2
    <2> QED
      BY <1>1, <2>1, <2>2
  <1>3. CASE ProcNext /\ UNCHANGED progVars
    BY <1>1, <1>3, Elsewhere, ProcScript
  <1>4. CASE UNCHANGED vars
    <2>1. UNCHANGED progVars /\ ScriptRead'
      BY <1>4 DEF vars, progVars, ScriptRead, PidsUnique, Holding, ClientRuns
    <2> QED
      BY <1>1, <2>1, Elsewhere
  <1> QED
    BY <1>2, <1>3, <1>4 DEF Next

\* The invariants hold together in every reachable state.
THEOREM OutcomeInvariance == Spec => []Outcome
  <1>1. Init /\ IInv => Outcome
    <2> SUFFICES ASSUME Init, IInv PROVE Outcome
      OBVIOUS
    <2>1. Credentials /\ BackendBuilt /\ NoSpuriousRefusal
      BY DEF Init, Credentials, BackendBuilt, NoSpuriousRefusal, BeforeCredentials, Remote0, Loc0
    <2>2. /\ PidsUnique
          /\ life[Client] # "unborn"
      BY ProcTableAssumption DEF Init, ProcInit, PidsUnique, Holding
    <2>3. ScriptRead
      BY <2>2 DEF Init, ScriptRead
    <2> QED
      BY <2>1, <2>3 DEF Outcome
  <1>2. Outcome /\ IInv' /\ [Next]_vars => Outcome'
    BY OutcomeKeeps
  <1> QED
    BY <1>1, <1>2, Invariance, PTL DEF Spec

\* A backend that root started has the gid and the groups of its user, but for
\* what the one of setgid and initgroups that has failed would have set, which
\* is root's; any other has those it was started with (become_user).
THEOREM DropsGroups == Spec => []GroupsDropped
  <1>1. Outcome => GroupsDropped
    <2> SUFFICES ASSUME Outcome, pc = "backend" PROVE GroupsDropped
      BY DEF GroupsDropped
    <2>1. Promise!Account(cmd) = r.pw /\ Promise!Login(cmd) = r.user
      BY RequestAcceptable DEF Outcome
    <2>2. CASE caller.uid = Superuser
      BY <2>1, <2>2 DEF Outcome, Credentials, GroupsDropped
    <2>3. CASE caller.uid # Superuser
      BY <2>3 DEF Outcome, Credentials, GroupsDropped
    <2> QED
      BY <2>2, <2>3
  <1> QED
    BY <1>1, OutcomeInvariance, PTL

\* While the client runs the backend is the script it is running
\* (getparent_borg, str_getargv_pid).
THEOREM RunsClientsScript == Spec => []BackendIsClientsScript
  <1>1. Outcome => BackendIsClientsScript
    BY DEF Outcome, ScriptRead, ClientRuns, BackendIsClientsScript
  <1> QED
    BY <1>1, OutcomeInvariance, PTL

\* The program gives up only for a reason (every Fail_ of main).
THEOREM RefusesForReason == Spec => []NoSpuriousRefusal
  <1>1. Outcome => NoSpuriousRefusal
    BY DEF Outcome
  <1> QED
    BY <1>1, OutcomeInvariance, PTL

----------------------------------------------------------------------------
(* Refinement *)

\* Only execve ends main without exiting, and only setuid changes the user.
LEMMA WhoDoesWhat ==
  ASSUME IInv, Main
  PROVE  /\ pc' = "backend" => Execve /\ Return(r, "backend")
         /\ cred'.uid # cred.uid => Setuid
         /\ pc' = "exited" => cred' = cred
  <1> USE DEF Return, Refuse, Fail, Check
  <1>0. cred \in Credential
    BY DEF IInv, TypeOK
  <1>1. CASE Getopt \/ VerifyArgv \/ RemoteParse \/ HostIsLocal \/ LookupUser
    BY <1>1 DEF Getopt, VerifyArgv, RemoteParse, HostIsLocal, LookupUser
  <1>2. CASE ProcessArgv \/ MakeSshOriginalCommand \/ SetupEnviron \/ SetupNargv
    BY <1>2 DEF ProcessArgv, MakeSshOriginalCommand, SetupEnviron, SetupNargv, Build, AppendNext
  <1>3. CASE BecomeUser \/ FinalCheck
    BY <1>3 DEF BecomeUser, FinalCheck
  <1>4. CASE Setgid
    <2>1. cred' = [cred EXCEPT !.gid = r.pw.gid] \/ cred' = cred
      BY <1>4 DEF Setgid, Denied
    <2>2. cred'.uid = cred.uid
      BY <1>0, <2>1 DEF Credential
    <2> QED
      BY <1>4, <2>2 DEF Setgid
  <1>5. CASE Initgroups
    <2>1. cred' = [cred EXCEPT !.groups = GroupsOf[r.user] \cup {r.pw.gid}] \/ cred' = cred
      BY <1>5 DEF Initgroups, Denied
    <2>2. cred'.uid = cred.uid
      BY <1>0, <2>1 DEF Credential
    <2> QED
      BY <1>5, <2>2 DEF Initgroups
  <1>6. CASE Setuid
    BY <1>6 DEF Setuid
  <1>7. CASE Getppid \/ Fopen \/ Getdelim \/ GetBorg
    BY <1>7 DEF Getppid, Fopen, Getdelim, NextArg, SpoiltArg, EndOfArgs, GetBorg
  <1>8. CASE Execve
    BY <1>8 DEF Execve
  <1> QED
    BY <1>1, <1>2, <1>3, <1>4, <1>5, <1>6, <1>7, <1>8 DEF Main

\* Main's steps, as RemoteShell sees them.
LEMMA StepPromised ==
  ASSUME Outcome, Main
  PROVE  [Promise!Next]_(Promise!vars)
  <1> USE DEF Outcome
  <1>1. pc \notin {"exited", "backend"} /\ UNCHANGED cmd
    BY Ended
  <1>2. CASE pc' = "exited"
    <2>1. Promise!Refuse
      BY <1>1, <1>2, WhoDoesWhat DEF Promise!Refuse
    <2> QED
      BY <2>1 DEF Promise!Next
  <1>3. CASE pc' = "backend"
    <2>1. pc = "execve" /\ UNCHANGED <<cred, r>>
      BY <1>3, WhoDoesWhat DEF Execve, Return
    <2>2. /\ Promise!Acceptable(cmd)
          /\ cred.uid = Promise!Account(cmd).uid /\ cred.uid # Promise!Superuser
      BY <2>1, RequestAcceptable DEF IInv, AccountHeld, Superuser, Promise!Superuser
    <2>3. r.nargv = Promise!BackendArgv(cmd) /\ r.environ = Promise!BackendEnv(cmd)
      BY <2>1 DEF BackendBuilt
    <2>4. Promise!Serve
      BY <1>1, <1>3, <2>1, <2>2, <2>3 DEF Promise!Serve, Promise!Backend
    <2> QED
      BY <2>4 DEF Promise!Next
  <1>4. CASE pc' \notin {"exited", "backend"} /\ cred'.uid # cred.uid
    <2>1. pc = "setuid" /\ Setuid /\ cred' = [cred EXCEPT !.uid = r.pw.uid]
      BY <1>4, WhoDoesWhat DEF Setuid, Fail
    <2>2. cred'.uid = r.pw.uid
      BY <2>1 DEF IInv, TypeOK, Credential
    <2>3. /\ cred.uid = Promise!Superuser /\ r.pw.uid # Promise!Superuser
          /\ Promise!Acceptable(cmd) /\ Promise!Account(cmd) = r.pw
      BY <2>1, RequestAcceptable DEF Credentials, IInv, AccountHeld, Superuser, Promise!Superuser
    <2>4. Promise!BecomeUser
      BY <1>1, <1>4, <2>2, <2>3 DEF Promise!BecomeUser, Promise!MayServe
    <2> QED
      BY <2>4 DEF Promise!Next
  <1>5. CASE pc' \notin {"exited", "backend"} /\ cred'.uid = cred.uid
    BY <1>1, <1>5 DEF Promise!vars
  <1> QED
    BY <1>2, <1>3, <1>4, <1>5

\* The program is a RemoteShell: setuid is its BecomeUser, execve its Serve,
\* every exit its Refuse, and all the rest is not seen.
THEOREM Implementation == Spec => ImplementsRemoteShell
  <1>1. Init => Promise!Init
    BY DEF Init, Promise!Init
  <1>2. Outcome /\ [Next]_vars => [Promise!Next]_(Promise!vars)
    <2> SUFFICES ASSUME Outcome, [Next]_vars PROVE [Promise!Next]_(Promise!vars)
      OBVIOUS
    <2>1. CASE Step
      BY <2>1, StepPromised DEF Step
    <2>2. CASE UNCHANGED progVars
      BY <2>2 DEF progVars, Promise!vars
    <2> QED
      BY <2>1, <2>2 DEF Next, vars, progVars
  <1> QED
    BY <1>1, <1>2, OutcomeInvariance, PTL DEF Spec, ImplementsRemoteShell, Promise!Spec
=============================================================================
