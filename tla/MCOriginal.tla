----------------------------- MODULE MCOriginal -----------------------------
(* Small instances of Original for TLC.                                       *)
EXTENDS Original, TLC

MCArgv0 == "borg-rsh-local"

Request(opts, args) == [opts |-> opts, args |-> args]
BorgServe(dest)     == Request(<<>>, <<dest, "borg", "serve", "--umask=077">>)

\* What borg sends, in its variants, and what a check of the program refuses.
MCBorgLines ==
    {BorgServe("dumpuser@localhost"),
     Request(<<"/borg">>, <<"dumpuser@127.0.0.1", "borg", "serve", "--umask=077">>),
     Request(<<"/a", "/borg">>, <<"other@0.0.0.0", "borg", "serve", "--umask=022">>),
     Request(<<"serve">>, <<"dumpuser@localhost", "borg", "serve", "--umask=077">>),
     Request(<<"/borg">>, <<"dumpuser@localhost", "borg", "serve">>),
     Request(<<"/borg", BadOption>>, <<"dumpuser@localhost", "borg", "serve", "--umask=077">>),
     Request(<<>>, <<>>),
     BorgServe("localhost"), BorgServe("dumpuser@repohost"),
     BorgServe("dumpuser@localhost@localhost"), BorgServe("longuser@localhost"),
     BorgServe("deep@localhost"), BorgServe("ghost@localhost"), BorgServe("root@localhost")}

\* Lines for other programs, one too long by a word, and one of fifteen words.
MCOtherLines ==
    {Request(<<>>, <<"dumpuser@localhost", "attic", "list", "--info">>),
     Request(<<"/borg">>, <<"dumpuser@localhost", "other@localhost", "borg", "serve",
                            "--umask=077">>),
     Request(<<>>, [i \in 1 .. 15 |-> IF i = 1 THEN "dumpuser@localhost" ELSE "--info"])}

MCCommandLines == MCBorgLines \cup MCOtherLines

MCFields ==
    "dumpuser@localhost" :> <<"dumpuser", "localhost">> @@
    "dumpuser@127.0.0.1" :> <<"dumpuser", "127.0.0.1">> @@
    "other@0.0.0.0" :> <<"other", "0.0.0.0">> @@
    "other@localhost" :> <<"other", "localhost">> @@
    "dumpuser@repohost" :> <<"dumpuser", "repohost">> @@
    "dumpuser@localhost@localhost" :> <<"dumpuser", "localhost", "localhost">> @@
    "longuser@localhost" :> <<"longuser", "localhost">> @@
    "deep@localhost" :> <<"deep", "localhost">> @@
    "ghost@localhost" :> <<"ghost", "localhost">> @@
    "root@localhost" :> <<"root", "localhost">> @@
    [w \in {"localhost", "borg", "serve", "attic", "list", "--info",
            "--umask=077", "--umask=022"} |-> <<w>>]

MCUmaskWords == {"--umask=077", "--umask=022"}

MCTooLong == {"longuser", "/deep"}

MCPasswd == "root"     :> [uid |-> 0,  gid |-> 0,  dir |-> "/root"] @@
            "dumpuser" :> [uid |-> 34, gid |-> 34, dir |-> "/borg"] @@
            "longuser" :> [uid |-> 34, gid |-> 34, dir |-> "/borg"] @@
            "deep"     :> [uid |-> 34, gid |-> 34, dir |-> "/deep"] @@
            "other"    :> [uid |-> 40, gid |-> 41, dir |-> "/borg"]

MCGroupsOf == [login \in DOMAIN MCPasswd |-> IF login = "dumpuser" THEN {6} ELSE {}]

MCCallers == {[uid |-> 0,  gid |-> 0, groups |-> {0, 1}],
              [uid |-> 34, gid |-> 6, groups |-> {6}]}

MCWord == STRING
=============================================================================
