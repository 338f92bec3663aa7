---------------------------- MODULE RemoteShell ----------------------------
(* What borg-rsh-local promises: a stand-in for ssh which, asked to run       *)
(* `borg serve' for user@localhost, either runs exactly that command as that  *)
(* user, with a complete argument vector and a restricted environment, or     *)
(* runs nothing at all.  It is never the superuser who serves.                *)
(*                                                                            *)
(* A command line is a record [opts, args]: the options getopt(3) delivers    *)
(* (the path of a -r, or BadOption) and the words that follow them.  A word   *)
(* is a string; Fields gives the parts of a word between its '@'s.            *)
EXTENDS Integers, Sequences

CONSTANTS CommandLines, \* the command lines borg may invoke the program with
          BadOption,    \* an option other than -r path
          Fields,       \* word -> its parts between '@'s
          UmaskWords,   \* the words that begin with --umask=
          Passwd,       \* login -> its account [uid, gid, dir]
          Callers,      \* the credentials [uid, gid, groups] it may start with
          NULL

VARIABLES cmd,     \* the command line
          uid,     \* the user the program runs as
          session, \* connecting | serving | refused
          served   \* the argument vector and environment of the backend

vars == <<cmd, uid, session, served>>

Superuser  == 0
LocalHosts == {"localhost", "127.0.0.1", "0.0.0.0"}

----------------------------------------------------------------------------
(* Requests *)

\* ssh user@localhost borg serve [--umask=...].  Narrower than what borg may be
\* told to do: a host is local by one of three names, not by the machine's own,
\* and --umask has its argument in the same word.
Acceptable(c) ==
    /\ \A i \in DOMAIN c.opts : c.opts[i] # BadOption
    /\ Len(c.args) \in {3, 4}
    /\ c.args[2] = "borg"
    /\ c.args[3] = "serve"
    /\ Len(c.args) = 4 => c.args[4] \in UmaskWords
    /\ LET parts == Fields[c.args[1]]
       IN  Len(parts) = 2 /\ parts[1] \in DOMAIN Passwd /\ parts[2] \in LocalHosts

Login(c)   == Fields[c.args[1]][1]
Account(c) == Passwd[Login(c)]

\* Root may become anyone but root; anyone else only themselves.
MayServe(u, c) == Account(c).uid # Superuser /\ u \in {Superuser, Account(c).uid}

\* The forced command; of several -r the last one counts.
BackendArgv(c) ==
    <<"borg", "serve", "--umask", "077">>
    \o IF c.opts = <<>> THEN <<>>
       ELSE <<"--restrict-to-path", c.opts[Len(c.opts)]>>

\* What the client asked for is passed on in the environment, as ssh does.
BackendEnv(c) ==
    << <<"USER", <<Login(c)>>>>, <<"LOGNAME", <<Login(c)>>>>,
       <<"HOME", <<Account(c).dir>>>>, <<"SHELL", <<"/bin/sh">>>>, <<"LANG", <<"C">>>>,
       <<"SSH_ORIGINAL_COMMAND", SubSeq(c.args, 2, Len(c.args))>> >>

Backend(c) == [argv |-> BackendArgv(c), env |-> BackendEnv(c)]

----------------------------------------------------------------------------
Init == /\ cmd \in CommandLines
        /\ uid \in {who.uid : who \in Callers}
        /\ session = "connecting"
        /\ served = NULL

BecomeUser == /\ session = "connecting"
              /\ uid = Superuser
              /\ Acceptable(cmd) /\ MayServe(uid, cmd)
              /\ uid' = Account(cmd).uid
              /\ UNCHANGED <<cmd, session, served>>

Serve == /\ session = "connecting"
         /\ Acceptable(cmd)
         /\ uid = Account(cmd).uid /\ uid # Superuser
         /\ session' = "serving"
         /\ served' = Backend(cmd)
         /\ UNCHANGED <<cmd, uid>>

Refuse == /\ session = "connecting"
          /\ session' = "refused"
          /\ UNCHANGED <<cmd, uid, served>>

Next == BecomeUser \/ Serve \/ Refuse

Spec == Init /\ [][Next]_vars
=============================================================================
