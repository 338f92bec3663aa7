----------------------------- MODULE MCBorgRsh -----------------------------
(* Small instances of BorgRsh for TLC.                                        *)
EXTENDS BorgRsh, TLC

CONSTANTS client, init, other \* processes

MCArgv0 == "borg-rsh-local"

Request(opts, args) == [opts |-> opts, args |-> args]

Plain(dest) == Request(<<>>, <<dest, "borg", "serve", "--umask=077">>)

\* What borg sends, in its variants.
GoodLines ==
    {Plain("dumpuser@localhost"),
     Request(<<"/borg">>, <<"dumpuser@127.0.0.1", "borg", "serve">>),
     Request(<<"/a", "/borg">>, <<"other@0.0.0.0", "borg", "serve", "--umask=022">>)}

TypicalLine == Request(<<"/borg">>, <<"dumpuser@repohost", "borg", "serve", "--umask=077">>)

\* One line for each check that may turn a request down.
BadLines ==
    {Request(<<"/borg", BadOption>>, <<"dumpuser@localhost", "borg", "serve">>),
     Request(<<>>, <<>>),
     Request(<<>>, <<"dumpuser@localhost", "borg">>),
     Request(<<>>, <<"dumpuser@localhost", "borg", "serve", "--umask=077", "--info">>),
     Request(<<>>, <<"dumpuser@localhost", "attic", "serve">>),
     Request(<<>>, <<"dumpuser@localhost", "borg", "list">>),
     Request(<<>>, <<"dumpuser@localhost", "borg", "serve", "--info">>),
     Plain("localhost"), Plain("dumpuser@repohost"), Plain("dumpuser@localhost@localhost"),
     Plain("ghost@localhost"), Plain("root@localhost")}

MCCommandLines == GoodLines \cup {TypicalLine} \cup BadLines

MCFields ==
    "dumpuser@localhost" :> <<"dumpuser", "localhost">> @@
    "dumpuser@127.0.0.1" :> <<"dumpuser", "127.0.0.1">> @@
    "other@0.0.0.0" :> <<"other", "0.0.0.0">> @@
    "localhost" :> <<"localhost">> @@
    "dumpuser@repohost" :> <<"dumpuser", "repohost">> @@
    "dumpuser@localhost@localhost" :> <<"dumpuser", "localhost", "localhost">> @@
    "ghost@localhost" :> <<"ghost", "localhost">> @@
    "root@localhost" :> <<"root", "localhost">>

MCUmaskWords == {"--umask=077", "--umask=022"}

MCPasswd == "root"     :> [uid |-> 0,  gid |-> 0,  dir |-> "/root"] @@
            "dumpuser" :> [uid |-> 34, gid |-> 34, dir |-> "/borg"] @@
            "other"    :> [uid |-> 40, gid |-> 41, dir |-> "/home/other"]

MCGroupsOf == "root" :> {0} @@ "dumpuser" :> {6} @@ "other" :> {}

MCCallers == {[uid |-> 0,  gid |-> 0,  groups |-> {0, 1}],
              [uid |-> 34, gid |-> 34, groups |-> {6}],
              [uid |-> 40, gid |-> 6,  groups |-> {41}]}

MCCmdline == client :> <<"python3", "/usr/bin/borg", "create">> @@
             init   :> <<"/sbin/init", "splash">> @@
             other  :> <<"sh">>

MCWord ==
    LET Elems(seq) == {seq[i] : i \in DOMAIN seq}
    IN  Literals \cup {MCArgv0}
        \cup UNION {Elems(c.args) \cup (Elems(c.opts) \ {BadOption}) : c \in MCCommandLines}
        \cup UNION {Elems(MCFields[w]) : w \in DOMAIN MCFields}
        \cup UNION {Elems(MCCmdline[p]) : p \in DOMAIN MCCmdline}
        \cup {MCPasswd[login].dir : login \in DOMAIN MCPasswd}
=============================================================================
