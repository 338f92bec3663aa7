--------------------------- MODULE Original_proofs ---------------------------
(* What the original program keeps true for every set of command lines,       *)
(* accounts and callers, and whichever appends lose their element.            *)
EXTENDS Original, SequenceTheorems, TLAPS

----------------------------------------------------------------------------
(* The inductive invariant: what remote_t and the loops hold, by how far main *)
(* has come.  From<f> is the states of a program that has come to f and has   *)
(* not exited.                                                                *)

FromExecve  == {"final_check", "execve", "backend"}
FromNargv   == {"setup_nargv"} \cup FromExecve
FromSetup   == {"setup_environ"} \cup FromNargv
FromSetuid  == {"setuid"} \cup FromSetup
FromGroups  == {"initgroups"} \cup FromSetuid
FromBecome  == {"become_user", "setgid"} \cup FromGroups
FromLookup  == {"lookup_user"} \cup FromBecome
FromHost    == {"host_is_local", "make_ssh_original_command"} \cup FromLookup
FromParse   == {"remote_parse"} \cup FromHost
FromCount   == {"count"} \cup FromParse
FromProcess == {"process_argv"} \cup FromCount

WholeArgv   == <<Argv0>> \o cmd.args
EnvEntry    == Word \X Seq(Word)
Destination == Fields[r.argv.cells[2]]

Remote == [argv : Strvec(Word), nargv : Strvec(Word), environ : Strvec(EnvEntry),
           restrict_path : {NULL} \cup Word, user : {NULL} \cup Word,
           host : {NULL} \cup Seq(Word), pw : {NULL} \cup Account,
           ssh_original_command : {NULL} \cup Seq(Word)]

InUse(sv) == \A i \in 1 .. sv.count : sv.cells[i] # NULL

Typed == /\ TypeOK
         /\ r \in Remote

\* The options that getopt has delivered are good; of several -r the last counts.
OptionsGood ==
    /\ pc = "getopt" => /\ k <= Len(cmd.opts)
                        /\ \A i \in 1 .. k : cmd.opts[i] # BadOption
                        /\ r.restrict_path = IF k = 0 THEN NULL ELSE cmd.opts[k]
    /\ pc \in FromProcess =>
          /\ \A i \in 1 .. Len(cmd.opts) : cmd.opts[i] # BadOption
          /\ r.restrict_path = IF cmd.opts = <<>> THEN NULL ELSE cmd.opts[Len(cmd.opts)]

\* A list to which the first n elements of another have been appended: some may
\* be missing, and those that are there have their order.
Appended(sv, list, n) ==
    /\ n \in 0 .. Len(list)
    /\ sv.count <= n
    /\ \A i \in 1 .. sv.count : \E j \in i .. n : sv.cells[i] = list[j]
    /\ sv.count = n => \A i \in 1 .. n : sv.cells[i] = list[i]

\* As long as there is memory none is missing.
NoneLost(sv, n) == "nomem" \notin faults => sv.count = n

\* A list of at most sixteen is the end of what has been appended to it: once an
\* element has found memory there is room for all that follow.
Ended(sv, list, n) ==
    /\ n \in 0 .. Len(list)
    /\ \/ sv = STRVEC_INIT
       \/ /\ Len(sv.cells) = REQ_STEP
          /\ sv.count <= n
          /\ \A i \in 1 .. sv.count : sv.cells[i] = list[n - sv.count + i]
          /\ \A i \in sv.count + 1 .. REQ_STEP : sv.cells[i] = NULL

\* So is any list, as long as it is shorter than that.
EndedIfShort(sv, list, n) == sv.count < REQ_STEP => Ended(sv, list, n)

ArgvBuilt ==
    /\ pc = "getopt" => r.argv = STRVEC_INIT
    /\ pc = "process_argv" => /\ Appended(r.argv, WholeArgv, k) /\ NoneLost(r.argv, k)
                              /\ EndedIfShort(r.argv, WholeArgv, k)
    /\ pc \in FromCount => /\ Appended(r.argv, WholeArgv, Len(WholeArgv))
                           /\ NoneLost(r.argv, Len(WholeArgv))
                           /\ EndedIfShort(r.argv, WholeArgv, Len(WholeArgv))
    /\ pc \in FromParse => r.argv.count = 5

ListsBuilt ==
    /\ pc \notin FromSetup \cup {"exited"} => r.environ = STRVEC_INIT
    /\ pc = "setup_environ" => Ended(r.environ, Environ, k) /\ NoneLost(r.environ, k)
    /\ pc \in FromNargv => /\ Ended(r.environ, Environ, Len(Environ))
                           /\ NoneLost(r.environ, Len(Environ))
    /\ pc \notin FromNargv \cup {"exited"} => r.nargv = STRVEC_INIT
    /\ pc = "setup_nargv" => Ended(r.nargv, ForcedCommand, k) /\ NoneLost(r.nargv, k)
    /\ pc \in FromExecve => /\ Ended(r.nargv, ForcedCommand, Len(ForcedCommand))
                            /\ NoneLost(r.nargv, Len(ForcedCommand))

\* What remote_parse, host_is_local and make_ssh_original_command have found.
RequestParsed ==
    /\ pc \in FromHost => /\ Len(Destination) > 1
                          /\ r.user = Head(Destination)
                          /\ r.host = Tail(Destination)
    /\ pc \in FromHost \ {"host_is_local"} =>
          r.host \in {<<"localhost">>, <<"127.0.0.1">>, <<"0.0.0.0">>}
    /\ pc \in FromLookup =>
          r.ssh_original_command = SubSeq(r.argv.cells, BORGOFF + 1, r.argv.count)

\* What lookup_user and become_user have.
AccountHeld ==
    /\ pc \in FromBecome => r.user \in DOMAIN Passwd /\ r.pw = Passwd[r.user]
    /\ pc \in {"setgid", "initgroups", "setuid"} =>
          r.pw.uid # Superuser /\ k = 0 /\ caller.uid = Superuser /\ cred.uid = Superuser
    /\ pc \in FromSetup => cred.uid = r.pw.uid /\ cred.uid # Superuser

\* The credentials: what the calls that set them have not failed to do has been
\* done, and nothing else.
CredentialsSet ==
    /\ pc \notin FromGroups \cup {"exited"} => cred = caller /\ "setgid" \notin faults
    /\ pc \notin FromSetuid \cup {"exited"} =>
          cred.groups = caller.groups /\ "initgroups" \notin faults
    /\ pc \in FromGroups /\ caller.uid = Superuser =>
          cred.gid = IF "setgid" \in faults THEN caller.gid ELSE r.pw.gid
    /\ pc \in FromSetuid /\ caller.uid = Superuser =>
          cred.groups = IF "initgroups" \in faults THEN caller.groups
                        ELSE GroupsOf[r.user] \cup {r.pw.gid}
    /\ pc \in FromSetup /\ caller.uid # Superuser => cred = caller

IInv == /\ Typed /\ OptionsGood /\ ArgvBuilt /\ ListsBuilt /\ RequestParsed
        /\ AccountHeld /\ CredentialsSet /\ NoSpuriousRefusal

----------------------------------------------------------------------------
(* The lists *)

\* What strvec_append may do to a list of elements that are not null: put one
\* more into a free cell, or into a block that has been made larger, or leave
\* the list as it is because it is full and there is no memory.
Lost(sv, o) == /\ o.nomem = TRUE /\ "nomem" \in MayFail
               /\ o.sv = sv /\ sv.count = Len(sv.cells)

Gained(sv, s, o) ==
    /\ o.nomem = FALSE
    /\ o.sv.count = sv.count + 1 /\ o.sv.cells[sv.count + 1] = s
    /\ \A i \in 1 .. sv.count : o.sv.cells[i] = sv.cells[i]
    /\ \/ /\ sv.count < Len(sv.cells) /\ Len(o.sv.cells) = Len(sv.cells)
          /\ \A i \in sv.count + 2 .. Len(sv.cells) : o.sv.cells[i] = sv.cells[i]
       \/ /\ sv.count = Len(sv.cells)
          /\ Len(o.sv.cells) = policy_size(sv.count + 1)
          /\ \A i \in sv.count + 2 .. Len(o.sv.cells) : o.sv.cells[i] = NULL

LEMMA AppendOutcome ==
    ASSUME NEW E, NULL \notin E, NEW sv \in Strvec(E), InUse(sv), NEW s \in E,
           NEW o \in strvec_append(sv, s)
    PROVE  /\ o.sv \in Strvec(E) /\ InUse(o.sv)
           /\ Lost(sv, o) \/ Gained(sv, s, o)
<1> DEFINE C == {NULL} \cup E
<1>1. /\ sv.count \in Nat /\ sv.cells \in Seq(C) /\ sv.count <= Len(sv.cells)
      /\ sv = [count |-> sv.count, cells |-> sv.cells] /\ s \in C /\ s # NULL
  BY DEF Strvec
<1>2. ASSUME NEW w \in Strvec(E), w.count < Len(w.cells), w.count = sv.count,
             \A i \in 1 .. sv.count : w.cells[i] = sv.cells[i]
      PROVE  /\ Put(w, s) \in Strvec(E) /\ InUse(Put(w, s))
             /\ Put(w, s).count = w.count + 1 /\ Put(w, s).cells[w.count + 1] = s
             /\ Len(Put(w, s).cells) = Len(w.cells)
             /\ \A i \in DOMAIN w.cells : i # w.count + 1 => Put(w, s).cells[i] = w.cells[i]
             /\ \A i \in 1 .. sv.count : Put(w, s).cells[i] = sv.cells[i]
  <2>1. w.count \in Nat /\ w.cells \in Seq(C) /\ w.count + 1 \in DOMAIN w.cells
    BY <1>2 DEF Strvec
  <2> DEFINE cells == [w.cells EXCEPT ![w.count + 1] = s]
  <2>2. /\ cells \in Seq(C) /\ Len(cells) = Len(w.cells) /\ cells[w.count + 1] = s
        /\ \A i \in DOMAIN w.cells : i # w.count + 1 => cells[i] = w.cells[i]
    BY <1>1, <2>1
  <2>3. Put(w, s) = [count |-> w.count + 1, cells |-> cells]
    BY DEF Put
  <2> HIDE DEF cells, C
  <2>4. w.count + 1 \in Nat /\ w.count + 1 <= Len(cells)
    BY <1>2, <2>1, <2>2
  <2>5. Put(w, s) \in Strvec(E)
    BY <2>2, <2>3, <2>4 DEF Strvec, C
  <2>6. \A i \in 1 .. sv.count : cells[i] = sv.cells[i]
    BY <1>2, <2>1, <2>2
  <2>7. InUse(Put(w, s))
    BY <1>1, <1>2, <2>1, <2>2, <2>3, <2>6 DEF InUse
  <2> QED BY <2>2, <2>3, <2>5, <2>6, <2>7
<1>3. CASE sv.count < Len(sv.cells) /\ o = [sv |-> Put(sv, s), nomem |-> FALSE]
  <2>1. \A i \in sv.count + 2 .. Len(sv.cells) : i \in DOMAIN sv.cells /\ i # sv.count + 1
    BY <1>1
  <2> QED BY <1>1, <1>2, <1>3, <2>1 DEF Gained
<1>4. CASE /\ ~(sv.count < Len(sv.cells))
           /\ o = [sv |-> Put(strvec_grow(sv, sv.count), s), nomem |-> FALSE]
  <2> DEFINE w == strvec_grow(sv, sv.count)
             size == policy_size(sv.count + 1)
  <2>1. size \in Nat /\ size >= sv.count + 1
    BY <1>1 DEF policy_size, REQ_STEP
  <2>2. sv.count = Len(sv.cells)
    BY <1>1, <1>4
  <2> DEFINE cells == [i \in 1 .. size |-> IF i <= sv.count THEN sv.cells[i] ELSE NULL]
  <2>3. w = [count |-> sv.count, cells |-> cells]
    <3>1. w = [sv EXCEPT !.cells = cells]
      BY Zenon DEF strvec_grow
    <3> HIDE DEF w, cells
    <3> QED BY <1>1, <3>1
  <2> HIDE DEF size, w
  <2>4. w.cells \in Seq(C) /\ Len(w.cells) = size
    <3>1. \A i \in 1 .. size : cells[i] \in C
      BY <1>1, <2>1, <2>2
    <3>2. cells \in [1 .. size -> C]
      BY <3>1
    <3> HIDE DEF C, cells
    <3> QED BY <2>1, <2>3, <3>2
  <2>5. w \in Strvec(E) /\ w.count = sv.count /\ w.count < Len(w.cells)
    BY <1>1, <2>1, <2>3, <2>4 DEF Strvec
  <2>6. \A i \in 1 .. sv.count : w.cells[i] = sv.cells[i]
    BY <1>1, <2>1, <2>3
  <2>7. \A i \in sv.count + 2 .. size : w.cells[i] = NULL /\ i \in DOMAIN w.cells /\ i # sv.count + 1
    BY <1>1, <2>1, <2>3
  <2>8. o.sv = Put(w, s) /\ o.nomem = FALSE
    BY <1>4 DEF w
  <2> QED BY <1>2, <2>2, <2>4, <2>5, <2>6, <2>7, <2>8 DEF size, Gained
<1>5. CASE /\ ~(sv.count < Len(sv.cells)) /\ "nomem" \in MayFail
           /\ o = [sv |-> sv, nomem |-> TRUE]
  BY <1>1, <1>5 DEF Lost
<1> QED BY <1>3, <1>4, <1>5 DEF strvec_append

\* A longer and longer part of a list is appended, or lost.
LEMMA AppendedMore ==
    ASSUME NEW E, NULL \notin E, NEW sv \in Strvec(E), InUse(sv), NEW list \in Seq(E),
           NEW n \in Nat, n < Len(list), Appended(sv, list, n),
           NEW o \in strvec_append(sv, list[n + 1])
    PROVE  /\ Appended(o.sv, list, n + 1)
           /\ ~o.nomem => o.sv.count = sv.count + 1
<1>1. list[n + 1] \in E /\ sv.count \in Nat /\ sv.count <= n
  BY DEF Appended, Strvec
<1>2. \A i \in 1 .. sv.count : \E j \in i .. n + 1 : sv.cells[i] = list[j]
  <2> SUFFICES ASSUME NEW i \in 1 .. sv.count PROVE \E j \in i .. n + 1 : sv.cells[i] = list[j]
    OBVIOUS
  <2>1. PICK j \in i .. n : sv.cells[i] = list[j]
    BY DEF Appended
  <2>2. j \in i .. n + 1
    BY <1>1
  <2> QED BY <2>1, <2>2
<1>3. CASE Lost(sv, o)
  BY <1>1, <1>2, <1>3 DEF Lost, Appended
<1>4. CASE Gained(sv, list[n + 1], o)
  <2>0. /\ o.nomem = FALSE
        /\ o.sv.count = sv.count + 1 /\ o.sv.cells[sv.count + 1] = list[n + 1]
        /\ \A i \in 1 .. sv.count : o.sv.cells[i] = sv.cells[i]
    BY <1>4 DEF Gained
  <2>1. ASSUME NEW i \in 1 .. o.sv.count PROVE \E j \in i .. n + 1 : o.sv.cells[i] = list[j]
    <3>1. CASE i \in 1 .. sv.count
      BY <1>2, <2>0, <3>1
    <3>2. CASE i = sv.count + 1
      <4>1. n + 1 \in i .. n + 1
        BY <1>1, <3>2
      <4> QED BY <2>0, <3>2, <4>1
    <3> QED BY <1>1, <2>0, <3>1, <3>2
  <2>2. ASSUME o.sv.count = n + 1, NEW i \in 1 .. n + 1 PROVE o.sv.cells[i] = list[i]
    <3>1. sv.count = n
      BY <1>1, <2>0, <2>2
    <3> QED BY <1>1, <2>0, <3>1 DEF Appended
  <2> QED BY <1>1, <2>0, <2>1, <2>2 DEF Appended
<1>5. Lost(sv, o) \/ Gained(sv, list[n + 1], o)
  BY <1>1, AppendOutcome, Zenon
<1> QED BY <1>3, <1>4, <1>5

\* A list of less than sixteen needs no more than its first block.
LEMMA EndedMore ==
    ASSUME NEW E, NULL \notin E, NEW sv \in Strvec(E), InUse(sv), NEW list \in Seq(E),
           sv.count < REQ_STEP, NEW n \in Nat, n < Len(list), Ended(sv, list, n),
           NEW o \in strvec_append(sv, list[n + 1])
    PROVE  /\ Ended(o.sv, list, n + 1)
           /\ ~o.nomem => o.sv.count = sv.count + 1
<1>1. list[n + 1] \in E /\ sv.count \in Nat /\ REQ_STEP = 16 /\ Len(list) \in Nat
  BY DEF Strvec, REQ_STEP
<1>2. sv.count <= n
  BY <1>1 DEF Ended, STRVEC_INIT
<1>3. Lost(sv, o) \/ Gained(sv, list[n + 1], o)
  BY <1>1, AppendOutcome, Zenon
<1>4. CASE sv = STRVEC_INIT
  <2>1. sv.count = 0 /\ Len(sv.cells) = 0 /\ policy_size(sv.count + 1) = 16
    BY <1>4 DEF STRVEC_INIT, policy_size, REQ_STEP
  <2>2. CASE Lost(sv, o)
    BY <1>1, <1>4, <2>2 DEF Lost, Ended
  <2>3. CASE Gained(sv, list[n + 1], o)
    <3>1. /\ o.nomem = FALSE
          /\ o.sv.count = 1 /\ o.sv.cells[1] = list[n + 1] /\ Len(o.sv.cells) = 16
          /\ \A i \in 2 .. 16 : o.sv.cells[i] = NULL
      <4>1. sv.count + 1 = 1 /\ sv.count + 2 = 2 /\ ~(sv.count < Len(sv.cells))
        BY <2>1
      <4>2. /\ o.nomem = FALSE
            /\ o.sv.count = 1 /\ o.sv.cells[1] = list[n + 1]
            /\ Len(o.sv.cells) = policy_size(sv.count + 1)
            /\ \A i \in 2 .. Len(o.sv.cells) : o.sv.cells[i] = NULL
        BY <2>3, <4>1 DEF Gained
      <4>3. Len(o.sv.cells) = 16
        BY <2>1, <4>2
      <4> QED BY <4>2, <4>3
    <3>2. ASSUME NEW i \in 1 .. o.sv.count PROVE o.sv.cells[i] = list[n + 1 - o.sv.count + i]
      <4>1. i = 1 /\ n + 1 - 1 + 1 = n + 1
        BY <3>1
      <4> QED BY <3>1, <4>1
    <3>3. ASSUME NEW i \in o.sv.count + 1 .. REQ_STEP PROVE o.sv.cells[i] = NULL
      <4>1. i \in 2 .. 16
        BY <1>1, <3>1
      <4> QED BY <3>1, <4>1
    <3>4. o.sv.count = sv.count + 1
      BY <2>1, <3>1
    <3>5. Ended(o.sv, list, n + 1)
      BY <1>1, <3>1, <3>2, <3>3 DEF Ended
    <3> QED BY <3>4, <3>5
  <2> QED BY <1>3, <2>2, <2>3
<1>5. CASE /\ Len(sv.cells) = REQ_STEP
           /\ \A i \in 1 .. sv.count : sv.cells[i] = list[n - sv.count + i]
           /\ \A i \in sv.count + 1 .. REQ_STEP : sv.cells[i] = NULL
  <2>1. sv.count < Len(sv.cells)
    BY <1>1, <1>2, <1>5
  <2>2. /\ o.nomem = FALSE
        /\ o.sv.count = sv.count + 1 /\ o.sv.cells[sv.count + 1] = list[n + 1]
        /\ \A i \in 1 .. sv.count : o.sv.cells[i] = sv.cells[i]
        /\ Len(o.sv.cells) = 16
        /\ \A i \in sv.count + 2 .. 16 : o.sv.cells[i] = sv.cells[i]
    BY <1>1, <1>3, <1>5, <2>1 DEF Lost, Gained
  <2>3. ASSUME NEW i \in 1 .. o.sv.count PROVE o.sv.cells[i] = list[n + 1 - o.sv.count + i]
    <3>1. n + 1 - o.sv.count + i = n - sv.count + i
      BY <1>1, <2>2
    <3>2. CASE i \in 1 .. sv.count
      BY <1>5, <2>2, <3>1, <3>2
    <3>3. CASE i = sv.count + 1
      <4>1. n - sv.count + i = n + 1
        BY <1>1, <3>3
      <4> QED BY <2>2, <3>1, <3>3, <4>1
    <3> QED BY <1>1, <2>2, <3>2, <3>3
  <2>4. ASSUME NEW i \in o.sv.count + 1 .. 16 PROVE o.sv.cells[i] = NULL
    <3>1. i \in sv.count + 2 .. 16 /\ i \in sv.count + 1 .. REQ_STEP
      BY <1>1, <2>2
    <3> QED BY <1>5, <2>2, <3>1
  <2> QED BY <1>1, <1>2, <2>2, <2>3, <2>4 DEF Ended
<1> QED BY <1>4, <1>5 DEF Ended

\* A longer one does not become shorter.
LEMMA EndedIfShortMore ==
    ASSUME NEW E, NULL \notin E, NEW sv \in Strvec(E), InUse(sv), NEW list \in Seq(E),
           NEW n \in Nat, n < Len(list), EndedIfShort(sv, list, n),
           NEW o \in strvec_append(sv, list[n + 1])
    PROVE  EndedIfShort(o.sv, list, n + 1)
<1>1. CASE sv.count < REQ_STEP
  <2>1. Ended(sv, list, n)
    BY <1>1 DEF EndedIfShort
  <2>2. Ended(o.sv, list, n + 1)
    BY <1>1, <2>1, EndedMore
  <2> QED BY <2>2 DEF EndedIfShort
<1>2. CASE ~(sv.count < REQ_STEP)
  <2>1. list[n + 1] \in E /\ sv.count \in Nat
    BY DEF Strvec
  <2>2. Lost(sv, o) \/ Gained(sv, list[n + 1], o)
    BY <2>1, AppendOutcome, Zenon
  <2>3. ~(o.sv.count < REQ_STEP)
    BY <1>2, <2>1, <2>2 DEF Lost, Gained, REQ_STEP
  <2> QED BY <2>3 DEF EndedIfShort
<1> QED BY <1>1, <1>2

----------------------------------------------------------------------------
(* Lemmas *)

USE DEF FromExecve, FromNargv, FromSetup, FromSetuid, FromGroups, FromBecome, FromLookup,
        FromHost, FromParse, FromCount, FromProcess

\* What the constants promise of a command line, and its words behind argv[0].
LEMMA CmdType ==
    ASSUME cmd \in CommandLines
    PROVE  /\ cmd.opts \in Seq({BadOption} \cup Word)
           /\ cmd.args \in Seq(Word)
           /\ WholeArgv \in Seq(Word) /\ Len(WholeArgv) = Len(cmd.args) + 1
           /\ \A i \in 1 .. Len(cmd.args) : WholeArgv[i + 1] = cmd.args[i]
<1>1. cmd.opts \in Seq({BadOption} \cup Word) /\ cmd.args \in Seq(Word) /\ Argv0 \in Word
  BY OriginalAssumption
<1> QED BY <1>1 DEF WholeArgv

\* A function that returns leaves every variable typed.
LEMMA ReturnTyped ==
    ASSUME Typed, NEW remote \in Remote, NEW next \in PCs, Return(remote, next),
           \A field \in Lists : remote[field] = r[field]
    PROVE  Typed'
<1>1. r' = remote /\ pc' = next /\ k' = 0 /\ UNCHANGED <<cmd, caller, cred, faults>>
  BY DEF Return
<1>2. remote.argv = r.argv /\ remote.nargv = r.nargv /\ remote.environ = r.environ
  BY DEF Lists
<1>3. \A field \in Lists : \A i \in 1 .. r'[field].count : r'[field].cells[i] # NULL
  BY <1>1 DEF Typed, TypeOK
<1> QED BY <1>1, <1>2, <1>3 DEF Typed, TypeOK, Remote

\* Why a request may be refused although no call has failed.
Reason == \/ Len(cmd.args) # 4
          \/ ~Promise!Acceptable(cmd)
          \/ ~Promise!MayServe(caller.uid, cmd)
          \/ Promise!Login(cmd) \in TooLong
          \/ Promise!Account(cmd).dir \in TooLong

\* A program that gives up keeps the invariant if it had a reason.
LEMMA ExitKeeps ==
    ASSUME IInv, pc' = "exited", k' = 0, UNCHANGED <<cmd, caller, cred, r>>,
           faults' \subseteq MayFail, faults' # {} \/ Reason
    PROVE  IInv'
<1>1. Typed'
  BY DEF IInv, Typed, TypeOK, PCs
<1>2. NoSpuriousRefusal'
  BY DEF NoSpuriousRefusal, Reason
<1> QED BY <1>1, <1>2 DEF IInv, OptionsGood, ArgvBuilt, ListsBuilt, RequestParsed, AccountHeld,
        CredentialsSet

LEMMA FailKeeps ==
    ASSUME IInv, NEW kind, Fail(kind)
    PROVE  IInv'
<1>1. /\ pc' = "exited" /\ k' = 0 /\ UNCHANGED <<cmd, caller, cred, r>>
      /\ faults' = faults \cup {kind} /\ kind \in MayFail
  BY DEF Fail
<1> QED BY <1>1, ExitKeeps DEF IInv, Typed, TypeOK

LEMMA RefuseKeeps ==
    ASSUME IInv, Refuse, faults # {} \/ Reason
    PROVE  IInv'
<1>1. pc' = "exited" /\ k' = 0 /\ UNCHANGED <<cmd, caller, cred, r, faults>>
  BY DEF Refuse, Return
<1> QED BY <1>1, ExitKeeps DEF IInv, Typed, TypeOK

\* The five words of a request: the second is the fourth from the end of the
\* command line, and if that has four, the words behind argv[0] are those.
LEMMA WordsHeld ==
    ASSUME Typed, ArgvBuilt, pc \in FromParse
    PROVE  /\ Len(cmd.args) >= 4
           /\ r.argv.cells[2] = cmd.args[Len(cmd.args) - 3]
           /\ Destination \in Seq(Word) /\ Destination # <<>>
           /\ r.argv.cells \in Seq({NULL} \cup Word) /\ Len(r.argv.cells) >= 5
           /\ \A i \in 1 .. 5 : r.argv.cells[i] \in Word
           /\ Len(cmd.args) = 4 => \A i \in 1 .. 4 : r.argv.cells[i + 1] = cmd.args[i]
           /\ "nomem" \notin faults => Len(cmd.args) = 4
<1> DEFINE sv == r.argv
           n == Len(WholeArgv)
<1>1. /\ sv.count = 5 /\ Appended(sv, WholeArgv, n) /\ NoneLost(sv, n)
      /\ EndedIfShort(sv, WholeArgv, n)
      /\ sv \in Strvec(Word) /\ InUse(sv)
  BY DEF ArgvBuilt, Typed, TypeOK, Remote, Lists, InUse
<1>2. /\ cmd.args \in Seq(Word) /\ n = Len(cmd.args) + 1
      /\ \A i \in 1 .. Len(cmd.args) : WholeArgv[i + 1] = cmd.args[i]
  BY CmdType DEF Typed, TypeOK
<1> HIDE DEF sv, n
<1>3. sv.cells \in Seq({NULL} \cup Word) /\ 5 <= Len(sv.cells)
  BY <1>1 DEF Strvec
<1>4. \A i \in 1 .. 5 : sv.cells[i] \in Word
  BY <1>1, <1>3 DEF InUse
<1>5. Len(cmd.args) >= 4 /\ sv.cells[2] = cmd.args[Len(cmd.args) - 3]
  <2> DEFINE m == Len(cmd.args)
  <2>1. m \in Nat /\ n = m + 1 /\ \A i \in 1 .. m : WholeArgv[i + 1] = cmd.args[i]
    BY <1>2
  <2> HIDE DEF m
  <2>2. sv.count < REQ_STEP /\ sv # STRVEC_INIT
    BY <1>1 DEF STRVEC_INIT, REQ_STEP
  <2>3. /\ sv.count <= n
        /\ \A i \in 1 .. sv.count : sv.cells[i] = WholeArgv[n - sv.count + i]
    BY <1>1, <2>2 DEF EndedIfShort, Ended
  <2>4. 5 <= n /\ 2 \in 1 .. sv.count /\ n - sv.count + 2 = (m - 3) + 1
    BY <1>1, <2>1, <2>3
  <2>5. m >= 4 /\ m - 3 \in 1 .. m
    BY <2>1, <2>4
  <2>6. sv.cells[2] = cmd.args[m - 3]
    BY <2>1, <2>3, <2>4, <2>5
  <2> QED BY <2>5, <2>6 DEF m
<1>6. Destination \in Seq(Word) /\ Destination # <<>>
  <2>1. Len(cmd.args) - 3 \in DOMAIN cmd.args /\ cmd \in CommandLines
    BY <1>2, <1>5 DEF Typed, TypeOK
  <2> QED BY <1>5, <2>1, OriginalAssumption DEF Destination, sv
<1>7. ASSUME Len(cmd.args) = 4, NEW i \in 1 .. 4 PROVE sv.cells[i + 1] = cmd.args[i]
  <2>1. n = 5 /\ i + 1 \in 1 .. n
    BY <1>2, <1>7
  <2>2. sv.cells[i + 1] = WholeArgv[i + 1]
    BY <1>1, <2>1 DEF Appended
  <2> QED BY <1>2, <1>7, <2>2
<1>8. ASSUME "nomem" \notin faults PROVE Len(cmd.args) = 4
  <2> DEFINE m == Len(cmd.args)
  <2>1. n = 5 /\ m \in Nat /\ n = m + 1
    BY <1>1, <1>2, <1>8 DEF NoneLost
  <2> HIDE DEF m
  <2>2. m = 4
    BY <2>1
  <2> QED BY <2>2 DEF m
<1> QED BY <1>3, <1>4, <1>5, <1>6, <1>7, <1>8 DEF sv

----------------------------------------------------------------------------
(* Every step keeps the invariant *)

LEMMA GetoptKeeps == ASSUME IInv, Getopt PROVE IInv'
<1>1. /\ pc = "getopt" /\ k \in Nat /\ k <= Len(cmd.opts) /\ r \in Remote
      /\ cmd \in CommandLines /\ cmd.opts \in Seq({BadOption} \cup Word)
  BY CmdType DEF Getopt, IInv, Typed, TypeOK, OptionsGood
<1>2. CASE /\ k < Len(cmd.opts) /\ cmd.opts[k + 1] # BadOption
           /\ r' = [r EXCEPT !.restrict_path = cmd.opts[k + 1]]
           /\ k' = k + 1 /\ UNCHANGED <<pc, cmd, caller, cred, faults>>
  <2>1. cmd.opts[k + 1] \in Word
    BY <1>1, <1>2
  <2>2. /\ r' \in Remote /\ r'.restrict_path = cmd.opts[k + 1]
        /\ r'.argv = r.argv /\ r'.nargv = r.nargv /\ r'.environ = r.environ
    BY <1>1, <1>2, <2>1 DEF Remote
  <2>3. \A field \in Lists : r'[field] = r[field]
    BY <2>2 DEF Lists
  <2>4. Typed'
    <3>1. \A field \in Lists : \A i \in 1 .. r'[field].count : r'[field].cells[i] # NULL
      BY <2>3 DEF IInv, Typed, TypeOK
    <3> QED BY <1>1, <1>2, <2>2, <3>1 DEF IInv, Typed, TypeOK, Remote
  <2>5. OptionsGood'
    BY <1>1, <1>2, <2>2 DEF IInv, OptionsGood
  <2> QED BY <1>1, <1>2, <2>2, <2>4, <2>5 DEF IInv, ArgvBuilt, ListsBuilt, RequestParsed,
          AccountHeld, CredentialsSet, NoSpuriousRefusal
<1>3. CASE k < Len(cmd.opts) /\ cmd.opts[k + 1] = BadOption /\ Refuse
  <2>1. k + 1 \in DOMAIN cmd.opts
    BY <1>1, <1>3
  <2>2. ~Promise!Acceptable(cmd)
    BY <1>3, <2>1 DEF Promise!Acceptable
  <2> QED BY <1>3, <2>2, RefuseKeeps DEF Reason
<1>4. CASE k = Len(cmd.opts) /\ Return(r, "process_argv")
  <2>1. Typed'
    BY <1>1, <1>4, ReturnTyped DEF IInv, PCs
  <2>2. pc' = "process_argv" /\ r' = r /\ k' = 0 /\ UNCHANGED <<cmd, caller, cred, faults>>
    BY <1>4 DEF Return
  <2>3. OptionsGood'
    BY <1>1, <1>4, <2>2 DEF IInv, OptionsGood
  <2>4. /\ Appended(STRVEC_INIT, WholeArgv, 0) /\ NoneLost(STRVEC_INIT, 0)
        /\ EndedIfShort(STRVEC_INIT, WholeArgv, 0)
    BY <1>1, CmdType DEF Appended, STRVEC_INIT, NoneLost, EndedIfShort, Ended
  <2>5. ArgvBuilt'
    BY <1>1, <2>2, <2>4 DEF IInv, ArgvBuilt, WholeArgv, NoneLost
  <2> QED BY <1>1, <2>1, <2>2, <2>3, <2>5 DEF IInv, ListsBuilt, RequestParsed, AccountHeld,
          CredentialsSet, NoSpuriousRefusal
<1> QED BY <1>1, <1>2, <1>3, <1>4 DEF Getopt

\* One round of appending to a list of elements of E: the list has got its next
\* element, or has lost it, and faults tells.
LEMMA AppendStep ==
    ASSUME Typed, NEW field \in Lists, NEW E, NULL \notin E, r[field] \in Strvec(E),
           NEW list \in Seq(E), AppendNext(field, list)
    PROVE  /\ k < Len(list) /\ k' = k + 1 /\ UNCHANGED <<pc, cmd, caller, cred>>
           /\ faults' \subseteq MayFail /\ faults \subseteq faults'
           /\ faults' \subseteq faults \cup {"nomem"}
           /\ \E o \in strvec_append(r[field], list[k + 1]) :
                 /\ r' = [r EXCEPT ![field] = o.sv]
                 /\ o.sv \in Strvec(E) /\ InUse(o.sv)
                 /\ "nomem" \notin faults' => "nomem" \notin faults /\ ~o.nomem
<1>1. k < Len(list) /\ k' = k + 1 /\ UNCHANGED <<pc, cmd, caller, cred>>
  BY DEF AppendNext
<1>2. PICK o \in strvec_append(r[field], list[k + 1]) :
          /\ r' = [r EXCEPT ![field] = o.sv]
          /\ faults' = IF o.nomem THEN faults \cup {"nomem"} ELSE faults
  BY DEF AppendNext
<1>3. list[k + 1] \in E /\ InUse(r[field]) /\ faults \subseteq MayFail
  BY <1>1 DEF Typed, TypeOK, InUse
<1>4. /\ o.sv \in Strvec(E) /\ InUse(o.sv)
      /\ Lost(r[field], o) \/ Gained(r[field], list[k + 1], o)
  BY <1>3, AppendOutcome, Zenon
<1>5. faults' \subseteq MayFail /\ faults \subseteq faults'
      /\ faults' \subseteq faults \cup {"nomem"}
  BY <1>2, <1>3, <1>4 DEF Lost, Gained
<1>6. "nomem" \notin faults' => "nomem" \notin faults /\ ~o.nomem
  BY <1>2
<1> QED BY <1>1, <1>2, <1>4, <1>5, <1>6

LEMMA NullIsNoElement == NULL \notin Word /\ NULL \notin EnvEntry
  BY OriginalAssumption DEF EnvEntry

LEMMA ProcessArgvKeeps == ASSUME IInv, ProcessArgv PROVE IInv'
<1>1. /\ pc = "process_argv" /\ k \in Nat /\ r \in Remote
      /\ cmd \in CommandLines /\ WholeArgv \in Seq(Word)
      /\ r.argv \in Strvec(Word) /\ InUse(r.argv)
  BY CmdType DEF ProcessArgv, IInv, Typed, TypeOK, Remote, InUse, Lists
<1>2. /\ Appended(r.argv, WholeArgv, k) /\ NoneLost(r.argv, k)
      /\ EndedIfShort(r.argv, WholeArgv, k)
  BY <1>1 DEF IInv, ArgvBuilt
<1>3. CASE AppendNext("argv", WholeArgv)
  <2>1. /\ k < Len(WholeArgv) /\ k' = k + 1 /\ UNCHANGED <<pc, cmd, caller, cred>>
        /\ faults' \subseteq MayFail /\ faults \subseteq faults'
        /\ faults' \subseteq faults \cup {"nomem"}
        /\ \E o \in strvec_append(r.argv, WholeArgv[k + 1]) :
              /\ r' = [r EXCEPT !.argv = o.sv]
              /\ o.sv \in Strvec(Word) /\ InUse(o.sv)
              /\ "nomem" \notin faults' => "nomem" \notin faults /\ ~o.nomem
    <3>1. "argv" \in Lists /\ r["argv"] \in Strvec(Word)
      BY <1>1 DEF Lists
    <3> QED BY <1>1, <1>3, <3>1, NullIsNoElement, AppendStep DEF IInv
  <2>2. PICK o \in strvec_append(r.argv, WholeArgv[k + 1]) :
              /\ r' = [r EXCEPT !.argv = o.sv]
              /\ o.sv \in Strvec(Word) /\ InUse(o.sv)
              /\ "nomem" \notin faults' => "nomem" \notin faults /\ ~o.nomem
    BY <2>1
  <2>3. /\ r' \in Remote /\ r'.argv = o.sv
        /\ r'.nargv = r.nargv /\ r'.environ = r.environ /\ r'.restrict_path = r.restrict_path
    BY <1>1, <2>2 DEF Remote
  <2>4. Typed'
    <3>1. \A field \in Lists : \A i \in 1 .. r'[field].count : r'[field].cells[i] # NULL
      BY <2>2, <2>3 DEF IInv, Typed, TypeOK, Lists, InUse
    <3> QED BY <1>1, <2>1, <2>3, <3>1 DEF IInv, Typed, TypeOK, Remote
  <2>5. Appended(o.sv, WholeArgv, k + 1) /\ (~o.nomem => o.sv.count = r.argv.count + 1)
    BY <1>1, <1>2, <2>1, <2>2, NullIsNoElement, AppendedMore
  <2>6. EndedIfShort(o.sv, WholeArgv, k + 1)
    BY <1>1, <1>2, <2>1, <2>2, NullIsNoElement, EndedIfShortMore
  <2>7. ArgvBuilt'
    <3>1. "nomem" \notin faults' => o.sv.count = k + 1
      BY <1>2, <2>2, <2>5 DEF NoneLost
    <3>2. /\ Appended(r.argv, WholeArgv, k)' /\ NoneLost(r.argv, k)'
          /\ EndedIfShort(r.argv, WholeArgv, k)'
      BY <2>1, <2>3, <2>5, <2>6, <3>1 DEF WholeArgv, NoneLost
    <3> QED BY <1>1, <2>1, <3>2 DEF ArgvBuilt
  <2> QED BY <1>1, <2>1, <2>3, <2>4, <2>7 DEF IInv, OptionsGood, ListsBuilt, RequestParsed,
          AccountHeld, CredentialsSet, NoSpuriousRefusal
<1>4. CASE k = Len(WholeArgv) /\ Return(r, "count")
  <2>1. Typed'
    BY <1>1, <1>4, ReturnTyped DEF IInv, PCs
  <2>2. pc' = "count" /\ r' = r /\ k' = 0 /\ UNCHANGED <<cmd, caller, cred, faults>>
    BY <1>4 DEF Return
  <2>3. ArgvBuilt'
    BY <1>1, <1>2, <1>4, <2>2 DEF ArgvBuilt, WholeArgv, NoneLost
  <2> QED BY <1>1, <2>1, <2>2, <2>3 DEF IInv, OptionsGood, ListsBuilt, RequestParsed,
          AccountHeld, CredentialsSet, NoSpuriousRefusal
<1> QED BY <1>3, <1>4 DEF ProcessArgv, AppendAll, WholeArgv

LEMMA CountArgsKeeps == ASSUME IInv, CountArgs PROVE IInv'
<1>1. /\ pc = "count" /\ r \in Remote /\ cmd \in CommandLines
      /\ Appended(r.argv, WholeArgv, Len(WholeArgv)) /\ NoneLost(r.argv, Len(WholeArgv))
      /\ EndedIfShort(r.argv, WholeArgv, Len(WholeArgv))
  BY DEF CountArgs, IInv, Typed, TypeOK, ArgvBuilt
<1>2. CASE r.argv.count = 5 /\ Return(r, "remote_parse")
  <2>1. Typed'
    BY <1>1, <1>2, ReturnTyped DEF IInv, PCs
  <2>2. pc' = "remote_parse" /\ r' = r /\ k' = 0 /\ UNCHANGED <<cmd, caller, cred, faults>>
    BY <1>2 DEF Return
  <2>3. ArgvBuilt'
    BY <1>1, <1>2, <2>2 DEF ArgvBuilt, WholeArgv, NoneLost
  <2> QED BY <1>1, <2>1, <2>2, <2>3 DEF IInv, OptionsGood, ListsBuilt, RequestParsed,
          AccountHeld, CredentialsSet, NoSpuriousRefusal
<1>3. CASE r.argv.count # 5 /\ Refuse
  <2> DEFINE n == Len(WholeArgv)
             m == Len(cmd.args)
  <2>1. (faults = {} => n # 5) /\ n = m + 1
    BY <1>1, <1>3, CmdType DEF NoneLost
  <2> HIDE DEF n, m
  <2>2. faults = {} => m # 4
    BY <2>1
  <2> QED BY <1>3, <2>2, RefuseKeeps DEF Reason, m
<1> QED BY <1>2, <1>3 DEF CountArgs, Check, Refuse

\* What of Destination is a reason to refuse, and how RemoteShell names its parts.
LEMMA DestinationIsFirst ==
    ASSUME Typed, ArgvBuilt, pc \in FromParse, Len(cmd.args) = 4
    PROVE  /\ Destination = Fields[cmd.args[1]]
           /\ Len(Destination) > 0 => Head(Destination) = Promise!Login(cmd)
           /\ Promise!Acceptable(cmd) =>
                 /\ Len(Destination) = 2
                 /\ Promise!Login(cmd) \in DOMAIN Passwd
                 /\ Tail(Destination) \in {<<"localhost">>, <<"127.0.0.1">>, <<"0.0.0.0">>}
                 /\ Destination[2] \in {"localhost", "127.0.0.1", "0.0.0.0"}
<1>1. Destination \in Seq(Word) /\ r.argv.cells[1 + 1] = cmd.args[1]
  BY WordsHeld
<1>2. Destination = Fields[cmd.args[1]]
  BY <1>1 DEF Destination
<1>3. Len(Destination) > 0 => Head(Destination) = Promise!Login(cmd)
  BY <1>1, <1>2 DEF Promise!Login
<1>4. ASSUME Promise!Acceptable(cmd)
      PROVE  /\ Len(Destination) = 2
             /\ Promise!Login(cmd) \in DOMAIN Passwd
             /\ Destination[2] \in {"localhost", "127.0.0.1", "0.0.0.0"}
  BY <1>2, <1>4 DEF Promise!Acceptable, Promise!Login, Promise!LocalHosts
<1>5. ASSUME Len(Destination) = 2
      PROVE  Tail(Destination) = <<Destination[2]>>
  <2>1. /\ Len(Tail(Destination)) = 1 /\ Tail(Destination) \in Seq(Word)
        /\ Tail(Destination)[1] = Destination[2]
    BY <1>1, <1>5, HeadTailProperties
  <2> DEFINE t == Tail(Destination)
             u == <<Destination[2]>>
  <2>2. u \in Seq(Word) /\ Len(u) = 1 /\ u[1] = Destination[2]
    <3>1. Destination[2] \in Word
      BY <1>1, <1>5, ElementOfSeq
    <3> QED BY <3>1
  <2> HIDE DEF t, u
  <2>3. t \in Seq(Word) /\ Len(t) = 1 /\ t[1] = u[1]
    BY <2>1, <2>2 DEF t
  <2>4. t = u
    BY <2>2, <2>3, SeqEqual
  <2> QED BY <2>4 DEF t, u
<1> QED BY <1>2, <1>3, <1>4, <1>5

LEMMA RemoteParseKeeps == ASSUME IInv, RemoteParse PROVE IInv'
<1> DEFINE fits == \A i \in DOMAIN Destination : Destination[i] \notin TooLong
           parsed == [r EXCEPT !.user = Head(Destination), !.host = Tail(Destination)]
<1>1. /\ pc = "remote_parse" /\ r \in Remote /\ cmd \in CommandLines
      /\ Typed /\ ArgvBuilt /\ pc \in FromParse
      /\ Destination \in Seq(Word) /\ Destination # <<>>
      /\ faults = {} => Len(cmd.args) = 4
  BY WordsHeld DEF RemoteParse, IInv, Typed, TypeOK
<1>2. CASE Len(Destination) > 1 /\ Return(parsed, "host_is_local")
  <2>1. Head(Destination) \in Word /\ Tail(Destination) \in Seq(Word)
    BY <1>1, <1>2
  <2>2. /\ parsed \in Remote /\ parsed.argv = r.argv /\ parsed.nargv = r.nargv
        /\ parsed.environ = r.environ /\ parsed.restrict_path = r.restrict_path
        /\ parsed.user = Head(Destination) /\ parsed.host = Tail(Destination)
    BY <1>1, <2>1 DEF Remote
  <2>3. \A field \in Lists : parsed[field] = r[field]
    BY <2>2 DEF Lists
  <2> HIDE DEF parsed
  <2>4. Typed'
    BY <1>1, <1>2, <2>2, <2>3, ReturnTyped DEF PCs
  <2>5. pc' = "host_is_local" /\ r' = parsed /\ k' = 0 /\ UNCHANGED <<cmd, caller, cred, faults>>
    BY <1>2 DEF Return
  <2>6. ArgvBuilt'
    BY <1>1, <2>2, <2>5 DEF ArgvBuilt, WholeArgv, NoneLost
  <2>7. RequestParsed'
    BY <1>1, <1>2, <2>2, <2>5 DEF RequestParsed, Destination
  <2> QED BY <1>1, <2>2, <2>4, <2>5, <2>6, <2>7 DEF IInv, OptionsGood, ListsBuilt,
          AccountHeld, CredentialsSet, NoSpuriousRefusal
<1>3. CASE ~(Len(Destination) > 1 /\ fits) /\ Refuse
  <2>1. ASSUME faults = {} PROVE Reason
    <3>1. CASE Promise!Acceptable(cmd)
      <4>1. /\ Len(Destination) = 2 /\ Head(Destination) = Promise!Login(cmd)
            /\ Destination[2] \in {"localhost", "127.0.0.1", "0.0.0.0"}
        BY <1>1, <2>1, <3>1, DestinationIsFirst
      <4>2. Destination[2] \notin TooLong
        BY <4>1, OriginalAssumption
      <4>3. Destination[1] \in TooLong
        BY <1>1, <1>3, <4>1, <4>2
      <4> QED BY <1>1, <4>1, <4>3 DEF Reason
    <3> QED BY <3>1 DEF Reason
  <2> QED BY <1>3, <2>1, RefuseKeeps
<1> QED BY <1>2, <1>3 DEF RemoteParse, Destination

LEMMA HostIsLocalKeeps == ASSUME IInv, HostIsLocal PROVE IInv'
<1>1. /\ pc = "host_is_local" /\ r \in Remote /\ Typed /\ ArgvBuilt /\ pc \in FromParse
      /\ r.host = Tail(Destination)
      /\ faults = {} => Len(cmd.args) = 4
  BY WordsHeld DEF HostIsLocal, IInv, Typed, RequestParsed
<1>2. CASE /\ r.host \in {<<"localhost">>, <<"127.0.0.1">>, <<"0.0.0.0">>}
           /\ Return(r, "make_ssh_original_command")
  <2>1. Typed'
    BY <1>1, <1>2, ReturnTyped DEF PCs
  <2>2. /\ pc' = "make_ssh_original_command" /\ r' = r /\ k' = 0
        /\ UNCHANGED <<cmd, caller, cred, faults>>
    BY <1>2 DEF Return
  <2>3. ArgvBuilt'
    BY <1>1, <2>2 DEF ArgvBuilt, WholeArgv, NoneLost
  <2> QED BY <1>1, <1>2, <2>1, <2>2, <2>3 DEF IInv, OptionsGood, ListsBuilt, RequestParsed,
          Destination, AccountHeld, CredentialsSet, NoSpuriousRefusal
<1>3. CASE r.host \notin {<<"localhost">>, <<"127.0.0.1">>, <<"0.0.0.0">>} /\ Refuse
  <2>1. faults = {} => ~Promise!Acceptable(cmd)
    BY <1>1, <1>3, DestinationIsFirst
  <2> QED BY <1>3, <2>1, RefuseKeeps DEF Reason
<1> QED BY <1>2, <1>3 DEF HostIsLocal, Check, Refuse

LEMMA MakeSshOriginalCommandKeeps == ASSUME IInv, MakeSshOriginalCommand PROVE IInv'
<1> DEFINE words == SubSeq(r.argv.cells, BORGOFF + 1, r.argv.count)
           made == [r EXCEPT !.ssh_original_command = words]
<1>1. /\ pc = "make_ssh_original_command" /\ r \in Remote /\ Typed /\ ArgvBuilt
      /\ pc \in FromParse /\ r.argv.count = 5
  BY DEF MakeSshOriginalCommand, IInv, Typed, ArgvBuilt
<1>2. words \in Seq(Word)
  <2>1. /\ r.argv.cells \in Seq({NULL} \cup Word) /\ Len(r.argv.cells) >= 5
        /\ \A i \in 1 .. 5 : r.argv.cells[i] \in Word
    BY <1>1, WordsHeld
  <2> QED BY <1>1, <2>1 DEF BORGOFF
<1>3. CASE Return(made, "lookup_user")
  <2>1. /\ made \in Remote /\ made.argv = r.argv /\ made.nargv = r.nargv
        /\ made.environ = r.environ /\ made.restrict_path = r.restrict_path
        /\ made.user = r.user /\ made.host = r.host /\ made.ssh_original_command = words
    <3> HIDE DEF words
    <3> QED BY <1>1, <1>2 DEF Remote
  <2>2. \A field \in Lists : made[field] = r[field]
    BY <2>1 DEF Lists
  <2> HIDE DEF made
  <2>3. Typed'
    BY <1>1, <1>3, <2>1, <2>2, ReturnTyped DEF PCs
  <2>4. pc' = "lookup_user" /\ r' = made /\ k' = 0 /\ UNCHANGED <<cmd, caller, cred, faults>>
    BY <1>3 DEF Return
  <2>5. ArgvBuilt'
    BY <1>1, <2>1, <2>4 DEF ArgvBuilt, WholeArgv, NoneLost
  <2>6. RequestParsed'
    BY <1>1, <2>1, <2>4 DEF IInv, RequestParsed, Destination
  <2> QED BY <1>1, <2>1, <2>3, <2>4, <2>5, <2>6 DEF IInv, OptionsGood, ListsBuilt,
          AccountHeld, CredentialsSet, NoSpuriousRefusal
<1>4. CASE Fail("nomem")
  BY <1>4, FailKeeps
<1> QED BY <1>3, <1>4 DEF MakeSshOriginalCommand

LEMMA LookupUserKeeps == ASSUME IInv, LookupUser PROVE IInv'
<1> DEFINE held == [r EXCEPT !.pw = Passwd[r.user]]
<1>1. /\ pc = "lookup_user" /\ r \in Remote /\ Typed /\ ArgvBuilt /\ pc \in FromParse
      /\ r.user = Head(Destination) /\ Len(Destination) > 1
      /\ faults = {} => Len(cmd.args) = 4
  BY WordsHeld DEF LookupUser, IInv, Typed, RequestParsed
<1>2. CASE r.user \in DOMAIN Passwd /\ Return(held, "become_user")
  <2>1. Passwd[r.user] \in Account
    BY <1>2, OriginalAssumption
  <2>2. /\ held \in Remote /\ held.argv = r.argv /\ held.nargv = r.nargv
        /\ held.environ = r.environ /\ held.restrict_path = r.restrict_path
        /\ held.user = r.user /\ held.host = r.host /\ held.pw = Passwd[r.user]
        /\ held.ssh_original_command = r.ssh_original_command
    BY <1>1, <2>1 DEF Remote
  <2>3. \A field \in Lists : held[field] = r[field]
    BY <2>2 DEF Lists
  <2> HIDE DEF held
  <2>4. Typed'
    BY <1>1, <1>2, <2>2, <2>3, ReturnTyped DEF PCs
  <2>5. pc' = "become_user" /\ r' = held /\ k' = 0 /\ UNCHANGED <<cmd, caller, cred, faults>>
    BY <1>2 DEF Return
  <2>6. ArgvBuilt'
    BY <1>1, <2>2, <2>5 DEF ArgvBuilt, WholeArgv, NoneLost
  <2>7. RequestParsed' /\ AccountHeld'
    BY <1>1, <1>2, <2>2, <2>5 DEF IInv, RequestParsed, Destination, AccountHeld
  <2> QED BY <1>1, <2>2, <2>4, <2>5, <2>6, <2>7 DEF IInv, OptionsGood, ListsBuilt,
          CredentialsSet, NoSpuriousRefusal
<1>3. CASE r.user \in DOMAIN Passwd /\ Passwd[r.user].dir \in TooLong /\ Refuse
  <2>1. faults = {} => Promise!Account(cmd).dir \in TooLong
    BY <1>1, <1>3, DestinationIsFirst DEF Promise!Account
  <2> QED BY <1>3, <2>1, RefuseKeeps DEF Reason
<1>4. CASE Fail("lookup")
  BY <1>4, FailKeeps
<1>5. CASE r.user \notin DOMAIN Passwd /\ Refuse
  <2>1. faults = {} => ~Promise!Acceptable(cmd)
    BY <1>1, <1>5, DestinationIsFirst
  <2> QED BY <1>5, <2>1, RefuseKeeps DEF Reason
<1> QED BY <1>2, <1>3, <1>4, <1>5 DEF LookupUser

LEMMA BecomeUserKeeps == ASSUME IInv, BecomeUser PROVE IInv'
<1>1. /\ pc = "become_user" /\ r \in Remote /\ Typed /\ ArgvBuilt /\ pc \in FromParse
      /\ r.user = Head(Destination) /\ Len(Destination) > 1 /\ r.pw = Passwd[r.user]
      /\ cred = caller
      /\ faults = {} => Len(cmd.args) = 4
  BY WordsHeld DEF BecomeUser, IInv, Typed, RequestParsed, AccountHeld, CredentialsSet
<1>2. faults = {} => r.pw = Promise!Account(cmd)
  BY <1>1, DestinationIsFirst DEF Promise!Account
<1>3. ASSUME NEW next \in {"setgid", "setup_environ"}, Return(r, next), r.pw.uid # Superuser,
             next = "setgid" => cred.uid = Superuser,
             next = "setup_environ" => cred.uid = r.pw.uid
      PROVE  IInv'
  <2>1. Typed'
    BY <1>1, <1>3, ReturnTyped DEF PCs
  <2>2. pc' = next /\ r' = r /\ k' = 0 /\ UNCHANGED <<cmd, caller, cred, faults>>
    BY <1>3 DEF Return
  <2>3. ArgvBuilt'
    BY <1>1, <1>3, <2>2 DEF ArgvBuilt, WholeArgv, NoneLost
  <2>4. RequestParsed' /\ AccountHeld' /\ CredentialsSet'
    BY <1>1, <1>3, <2>2 DEF IInv, RequestParsed, Destination, AccountHeld, CredentialsSet,
       Superuser
  <2>5. Ended(STRVEC_INIT, Environ', 0) /\ STRVEC_INIT.count = 0
    BY DEF Ended, Environ, STRVEC_INIT
  <2>6. ListsBuilt'
    BY <1>1, <1>3, <2>2, <2>5 DEF IInv, ListsBuilt, NoneLost
  <2> QED BY <1>1, <1>3, <2>1, <2>2, <2>3, <2>4, <2>6 DEF IInv, OptionsGood, NoSpuriousRefusal
<1>4. CASE Refuse /\ (r.pw.uid = Superuser \/ (cred.uid # Superuser /\ r.pw.uid # cred.uid))
  <2>1. faults = {} => ~Promise!MayServe(caller.uid, cmd)
    BY <1>1, <1>2, <1>4 DEF Promise!MayServe, Promise!Superuser, Superuser
  <2> QED BY <1>4, <2>1, RefuseKeeps DEF Reason
<1>5. CASE cred.uid = Superuser /\ Check(r.pw.uid # Superuser, "setgid")
  <2>1. CASE r.pw.uid # Superuser
    BY <1>3, <1>5, <2>1 DEF Check
  <2>2. CASE r.pw.uid = Superuser
    <3>1. Refuse
      BY <1>5, <2>2 DEF Check, Refuse
    <3> QED BY <1>4, <2>2, <3>1
  <2> QED BY <2>1, <2>2
<1>6. CASE cred.uid # Superuser /\ Check(r.pw.uid = cred.uid, "setup_environ")
  <2>1. CASE r.pw.uid = cred.uid
    BY <1>3, <1>6, <2>1 DEF Check
  <2>2. CASE r.pw.uid # cred.uid
    BY <1>4, <1>6, <2>2 DEF Check, Refuse
  <2> QED BY <2>1, <2>2
<1> QED BY <1>5, <1>6 DEF BecomeUser

\* The calls that change credentials leave the rest alone; some may fail.
LEMMA CredKeeps ==
    ASSUME IInv, pc \in {"setgid", "initgroups", "setuid"},
           pc' \in {"initgroups", "setuid", "setup_environ"}, UNCHANGED <<cmd, caller, r, k>>,
           cred' \in Credential, faults \subseteq faults', faults' \subseteq MayFail
    PROVE  Typed' /\ OptionsGood' /\ ArgvBuilt' /\ ListsBuilt' /\ RequestParsed'
           /\ NoSpuriousRefusal'
<1>1. Typed'
  BY DEF IInv, Typed, TypeOK, PCs
<1>2. ArgvBuilt'
  BY DEF IInv, ArgvBuilt, WholeArgv, NoneLost
<1>3. ListsBuilt'
  <2>1. Ended(STRVEC_INIT, Environ', 0) /\ STRVEC_INIT.count = 0
    BY DEF Ended, Environ, STRVEC_INIT
  <2>2. k = 0
    BY DEF IInv, AccountHeld
  <2> QED BY <2>1, <2>2 DEF IInv, ListsBuilt, NoneLost
<1> QED BY <1>1, <1>2, <1>3 DEF IInv, OptionsGood, RequestParsed, Destination,
        NoSpuriousRefusal

LEMMA SetgidKeeps == ASSUME IInv, Setgid PROVE IInv'
<1>1. /\ pc = "setgid" /\ pc' = "initgroups" /\ UNCHANGED <<cmd, caller, r, k>>
      /\ r \in Remote /\ cred \in Credential /\ faults \subseteq MayFail
      /\ r.user \in DOMAIN Passwd /\ r.pw = Passwd[r.user]
      /\ cred = caller /\ cred.uid = Superuser
      /\ "setgid" \notin faults /\ "initgroups" \notin faults
  BY DEF Setgid, Changes, IInv, Typed, TypeOK, AccountHeld, CredentialsSet
<1>2. /\ \/ cred' = [cred EXCEPT !.gid = r.pw.gid] /\ faults' = faults
         \/ "setgid" \in MayFail /\ faults' = faults \cup {"setgid"} /\ cred' = cred
  BY DEF Setgid, Changes
<1>3. r.pw.gid \in Nat
  BY <1>1, OriginalAssumption DEF Account
<1>4. /\ cred' \in Credential /\ faults \subseteq faults' /\ faults' \subseteq MayFail
      /\ cred'.gid = IF "setgid" \in faults' THEN cred.gid ELSE r.pw.gid
      /\ cred'.uid = cred.uid /\ cred'.groups = cred.groups /\ "initgroups" \notin faults'
  BY <1>1, <1>2, <1>3 DEF Credential
<1>5. AccountHeld' /\ CredentialsSet'
  BY <1>1, <1>4 DEF IInv, AccountHeld, CredentialsSet
<1> QED BY <1>1, <1>4, <1>5, CredKeeps DEF IInv

LEMMA InitgroupsKeeps == ASSUME IInv, Initgroups PROVE IInv'
<1> DEFINE groups == GroupsOf[r.user] \cup {r.pw.gid}
<1>1. /\ pc = "initgroups" /\ pc' = "setuid" /\ UNCHANGED <<cmd, caller, r, k>>
      /\ r \in Remote /\ cred \in Credential /\ faults \subseteq MayFail
      /\ r.user \in DOMAIN Passwd /\ r.pw = Passwd[r.user]
      /\ caller.uid = Superuser /\ cred.uid = Superuser
      /\ cred.gid = IF "setgid" \in faults THEN caller.gid ELSE r.pw.gid
      /\ cred.groups = caller.groups /\ "initgroups" \notin faults
  BY DEF Initgroups, Changes, IInv, Typed, TypeOK, AccountHeld, CredentialsSet
<1>2. /\ \/ cred' = [cred EXCEPT !.groups = groups] /\ faults' = faults
         \/ /\ "initgroups" \in MayFail /\ faults' = faults \cup {"initgroups"}
            /\ cred' = cred
  BY DEF Initgroups, Changes
<1>3. groups \subseteq Nat
  BY <1>1, OriginalAssumption DEF Account
<1> HIDE DEF groups
<1>4. /\ cred' \in Credential /\ faults \subseteq faults' /\ faults' \subseteq MayFail
      /\ cred'.groups = IF "initgroups" \in faults' THEN cred.groups ELSE groups
      /\ "setgid" \in faults' <=> "setgid" \in faults
      /\ cred'.gid = cred.gid /\ cred'.uid = cred.uid
  BY <1>1, <1>2, <1>3 DEF Credential
<1>5. AccountHeld' /\ CredentialsSet'
  BY <1>1, <1>4 DEF IInv, AccountHeld, CredentialsSet, groups
<1> QED BY <1>1, <1>4, <1>5, CredKeeps DEF IInv

LEMMA SetuidKeeps == ASSUME IInv, Setuid PROVE IInv'
<1>1. CASE /\ cred' = [cred EXCEPT !.uid = r.pw.uid] /\ pc' = "setup_environ"
           /\ UNCHANGED <<cmd, caller, r, k, faults>>
  <2>1. /\ pc = "setuid" /\ r \in Remote /\ cred \in Credential /\ faults \subseteq MayFail
        /\ r.user \in DOMAIN Passwd /\ r.pw = Passwd[r.user] /\ r.pw.uid # Superuser
    BY DEF Setuid, IInv, Typed, TypeOK, AccountHeld
  <2>2. r.pw.uid \in Nat
    BY <2>1, OriginalAssumption DEF Account
  <2>3. /\ cred' \in Credential /\ cred'.uid = r.pw.uid
        /\ cred'.gid = cred.gid /\ cred'.groups = cred.groups
    BY <1>1, <2>1, <2>2 DEF Credential
  <2>4. AccountHeld' /\ CredentialsSet'
    BY <1>1, <2>1, <2>3 DEF IInv, AccountHeld, CredentialsSet
  <2> QED BY <1>1, <2>1, <2>3, <2>4, CredKeeps DEF IInv
<1>2. CASE Fail("setuid")
  BY <1>2, FailKeeps
<1> QED BY <1>1, <1>2 DEF Setuid

\* The lists of the backend have less than sixteen elements.
LEMMA EnvironFits ==
    ASSUME IInv, pc \in FromBecome
    PROVE  Environ \in Seq(EnvEntry) /\ Len(Environ) = 6
<1>1. r.user \in Word /\ r.ssh_original_command \in Seq(Word) /\ r.pw.dir \in Word
  <2>1. /\ r.user \in DOMAIN Passwd /\ r.pw = Passwd[r.user] /\ r.user = Head(Destination)
        /\ Len(Destination) > 1 /\ Destination \in Seq(Word)
    BY WordsHeld DEF IInv, AccountHeld, RequestParsed
  <2>2. r.user \in Word /\ r.pw.dir \in Word
    BY <2>1, OriginalAssumption DEF Account
  <2>3. /\ r.argv.cells \in Seq({NULL} \cup Word) /\ Len(r.argv.cells) >= 5
        /\ \A i \in 1 .. 5 : r.argv.cells[i] \in Word
        /\ r.argv.count = 5
    BY WordsHeld DEF IInv, ArgvBuilt
  <2>4. SubSeq(r.argv.cells, BORGOFF + 1, r.argv.count) \in Seq(Word)
    BY <2>3 DEF BORGOFF
  <2> QED BY <2>2, <2>4 DEF IInv, RequestParsed
<1>2. \A key \in Word : \A value \in Seq(Word) : <<key, value>> \in EnvEntry
  BY DEF EnvEntry
<1>3. /\ <<r.user>> \in Seq(Word) /\ <<r.pw.dir>> \in Seq(Word)
      /\ <<"/bin/sh">> \in Seq(Word) /\ <<"C">> \in Seq(Word)
      /\ {"USER", "LOGNAME", "HOME", "SHELL", "LANG", "SSH_ORIGINAL_COMMAND"} \subseteq Word
  <2>1. Literals \subseteq Word
    BY OriginalAssumption
  <2> QED BY <1>1, <2>1 DEF Literals
<1>4. /\ <<"USER", <<r.user>>>> \in EnvEntry /\ <<"LOGNAME", <<r.user>>>> \in EnvEntry
      /\ <<"HOME", <<r.pw.dir>>>> \in EnvEntry /\ <<"SHELL", <<"/bin/sh">>>> \in EnvEntry
      /\ <<"LANG", <<"C">>>> \in EnvEntry
      /\ <<"SSH_ORIGINAL_COMMAND", r.ssh_original_command>> \in EnvEntry
  BY <1>1, <1>2, <1>3
<1> QED BY <1>4 DEF Environ

LEMMA ForcedCommandFits ==
    ASSUME Typed
    PROVE  ForcedCommand \in Seq(Word) /\ Len(ForcedCommand) \in {4, 6}
<1> DEFINE serve == <<"borg", "serve", "--umask", "077">>
<1>1. r.restrict_path \in {NULL} \cup Word /\ Literals \subseteq Word
  BY OriginalAssumption DEF Typed, Remote
<1>2. serve \in Seq(Word) /\ Len(serve) = 4
  BY <1>1 DEF Literals
<1>3. CASE r.restrict_path = NULL
  BY <1>2, <1>3 DEF ForcedCommand
<1>4. CASE r.restrict_path # NULL
  <2> DEFINE path == <<"--restrict-to-path", r.restrict_path>>
  <2>1. path \in Seq(Word) /\ Len(path) = 2
    BY <1>1, <1>4 DEF Literals
  <2>2. ForcedCommand = serve \o path
    BY <1>4 DEF ForcedCommand
  <2> HIDE DEF serve, path
  <2>3. serve \o path \in Seq(Word)
    BY <1>2, <2>1
  <2>4. Len(serve \o path) = Len(serve) + Len(path)
    BY <1>2, <2>1, ConcatProperties, Zenon
  <2>5. Len(serve \o path) = 6
    BY <1>2, <2>1, <2>4
  <2> QED BY <2>2, <2>3, <2>5
<1> QED BY <1>3, <1>4

LEMMA SetupEnvironKeeps == ASSUME IInv, SetupEnviron PROVE IInv'
<1>1. /\ pc = "setup_environ" /\ k \in Nat /\ r \in Remote /\ Typed
      /\ r.environ \in Strvec(EnvEntry) /\ InUse(r.environ)
      /\ Environ \in Seq(EnvEntry) /\ Len(Environ) = 6 /\ Ended(r.environ, Environ, k)
      /\ NoneLost(r.environ, k)
  BY EnvironFits DEF SetupEnviron, IInv, Typed, TypeOK, Remote, InUse, Lists, ListsBuilt
<1>2. CASE AppendNext("environ", Environ)
  <2>1. /\ k < Len(Environ) /\ k' = k + 1 /\ UNCHANGED <<pc, cmd, caller, cred>>
        /\ faults' \subseteq MayFail /\ faults \subseteq faults'
        /\ faults' \subseteq faults \cup {"nomem"}
        /\ \E o \in strvec_append(r.environ, Environ[k + 1]) :
              /\ r' = [r EXCEPT !.environ = o.sv]
              /\ o.sv \in Strvec(EnvEntry) /\ InUse(o.sv)
              /\ "nomem" \notin faults' => "nomem" \notin faults /\ ~o.nomem
    <3>1. "environ" \in Lists /\ r["environ"] \in Strvec(EnvEntry)
      BY <1>1 DEF Lists
    <3> QED BY <1>1, <1>2, <3>1, NullIsNoElement, AppendStep
  <2>2. PICK o \in strvec_append(r.environ, Environ[k + 1]) :
              /\ r' = [r EXCEPT !.environ = o.sv]
              /\ o.sv \in Strvec(EnvEntry) /\ InUse(o.sv)
              /\ "nomem" \notin faults' => "nomem" \notin faults /\ ~o.nomem
    BY <2>1
  <2>3. /\ r' \in Remote /\ r'.environ = o.sv
        /\ r'.nargv = r.nargv /\ r'.argv = r.argv /\ r'.restrict_path = r.restrict_path
        /\ r'.user = r.user /\ r'.host = r.host /\ r'.pw = r.pw
        /\ r'.ssh_original_command = r.ssh_original_command
    BY <1>1, <2>2 DEF Remote
  <2>4. Typed'
    <3>1. \A field \in Lists : \A i \in 1 .. r'[field].count : r'[field].cells[i] # NULL
      BY <2>2, <2>3 DEF IInv, Typed, TypeOK, Lists, InUse
    <3>2. r'.environ \in Strvec(Word \X Seq(Word))
      BY <2>2, <2>3 DEF EnvEntry
    <3> QED BY <1>1, <2>1, <2>3, <3>1, <3>2 DEF IInv, Typed, TypeOK, Remote
  <2>5. Ended(o.sv, Environ, k + 1) /\ (~o.nomem => o.sv.count = r.environ.count + 1)
    <3>1. r.environ.count < REQ_STEP
      BY <1>1, <2>1 DEF Ended, STRVEC_INIT, REQ_STEP, Strvec
    <3>2. /\ NULL \notin EnvEntry /\ k < Len(Environ)
          /\ o \in strvec_append(r.environ, Environ[k + 1])
      BY <2>1, <2>2, NullIsNoElement
    <3>3. Ended(o.sv, Environ, k + 1)
      BY <1>1, <3>1, <3>2, EndedMore
    <3>4. ~o.nomem => o.sv.count = r.environ.count + 1
      BY <1>1, <3>1, <3>2, EndedMore
    <3> QED BY <3>3, <3>4
  <2>6. ListsBuilt'
    <3>1. Environ' = Environ
      BY <2>3 DEF Environ
    <3>2. "nomem" \notin faults' => o.sv.count = k + 1
      BY <1>1, <2>2, <2>5 DEF NoneLost
    <3>3. NoneLost(r.environ, k)'
      BY <2>1, <2>3, <3>2 DEF NoneLost
    <3> QED BY <1>1, <2>1, <2>3, <2>5, <3>1, <3>3 DEF IInv, ListsBuilt, NoneLost
  <2>7. ArgvBuilt'
    BY <1>1, <2>1, <2>3 DEF IInv, ArgvBuilt, WholeArgv, NoneLost
  <2>8. RequestParsed' /\ AccountHeld' /\ CredentialsSet'
    BY <1>1, <2>1, <2>3 DEF IInv, RequestParsed, Destination, AccountHeld, CredentialsSet
  <2> QED BY <1>1, <2>1, <2>3, <2>4, <2>6, <2>7, <2>8 DEF IInv, OptionsGood, NoSpuriousRefusal
<1>3. CASE k = Len(Environ) /\ Return(r, "setup_nargv")
  <2>1. Typed'
    BY <1>1, <1>3, ReturnTyped DEF PCs
  <2>2. pc' = "setup_nargv" /\ r' = r /\ k' = 0 /\ UNCHANGED <<cmd, caller, cred, faults>>
    BY <1>3 DEF Return
  <2>3. ListsBuilt'
    <3>1. Environ' = Environ /\ ForcedCommand' = ForcedCommand
      BY <2>2 DEF Environ, ForcedCommand
    <3>2. Ended(STRVEC_INIT, ForcedCommand, 0) /\ STRVEC_INIT.count = 0
      BY <1>1, ForcedCommandFits DEF Ended, STRVEC_INIT
    <3> QED BY <1>1, <1>3, <2>2, <3>1, <3>2 DEF IInv, ListsBuilt, NoneLost
  <2>4. ArgvBuilt'
    BY <1>1, <2>2 DEF IInv, ArgvBuilt, WholeArgv, NoneLost
  <2> QED BY <1>1, <2>1, <2>2, <2>3, <2>4 DEF IInv, OptionsGood, RequestParsed, Destination,
          AccountHeld, CredentialsSet, NoSpuriousRefusal
<1>4. CASE Fail("nomem")
  BY <1>4, FailKeeps
<1> QED BY <1>2, <1>3, <1>4 DEF SetupEnviron, AppendAll

LEMMA SetupNargvKeeps == ASSUME IInv, SetupNargv PROVE IInv'
<1>1. /\ pc = "setup_nargv" /\ k \in Nat /\ r \in Remote /\ Typed
      /\ r.nargv \in Strvec(Word) /\ InUse(r.nargv)
      /\ ForcedCommand \in Seq(Word) /\ Len(ForcedCommand) \in {4, 6}
      /\ Ended(r.nargv, ForcedCommand, k)
      /\ NoneLost(r.nargv, k)
  BY ForcedCommandFits DEF SetupNargv, IInv, Typed, TypeOK, Remote, InUse, Lists, ListsBuilt
<1>2. CASE AppendNext("nargv", ForcedCommand)
  <2>1. /\ k < Len(ForcedCommand) /\ k' = k + 1 /\ UNCHANGED <<pc, cmd, caller, cred>>
        /\ faults' \subseteq MayFail /\ faults \subseteq faults'
        /\ faults' \subseteq faults \cup {"nomem"}
        /\ \E o \in strvec_append(r.nargv, ForcedCommand[k + 1]) :
              /\ r' = [r EXCEPT !.nargv = o.sv]
              /\ o.sv \in Strvec(Word) /\ InUse(o.sv)
              /\ "nomem" \notin faults' => "nomem" \notin faults /\ ~o.nomem
    <3>1. "nargv" \in Lists /\ r["nargv"] \in Strvec(Word)
      BY <1>1 DEF Lists
    <3> QED BY <1>1, <1>2, <3>1, NullIsNoElement, AppendStep
  <2>2. PICK o \in strvec_append(r.nargv, ForcedCommand[k + 1]) :
              /\ r' = [r EXCEPT !.nargv = o.sv]
              /\ o.sv \in Strvec(Word) /\ InUse(o.sv)
              /\ "nomem" \notin faults' => "nomem" \notin faults /\ ~o.nomem
    BY <2>1
  <2>3. /\ r' \in Remote /\ r'.nargv = o.sv
        /\ r'.environ = r.environ /\ r'.argv = r.argv /\ r'.restrict_path = r.restrict_path
        /\ r'.user = r.user /\ r'.host = r.host /\ r'.pw = r.pw
        /\ r'.ssh_original_command = r.ssh_original_command
    BY <1>1, <2>2 DEF Remote
  <2>4. Typed'
    <3>1. \A field \in Lists : \A i \in 1 .. r'[field].count : r'[field].cells[i] # NULL
      BY <2>2, <2>3 DEF IInv, Typed, TypeOK, Lists, InUse
    <3> QED BY <1>1, <2>1, <2>2, <2>3, <3>1 DEF IInv, Typed, TypeOK, Remote
  <2>5. Ended(o.sv, ForcedCommand, k + 1) /\ (~o.nomem => o.sv.count = r.nargv.count + 1)
    <3>1. r.nargv.count < REQ_STEP
      <4> DEFINE n == Len(ForcedCommand)
      <4>1. n \in {4, 6} /\ k < n
        BY <1>1, <2>1
      <4>2. r.nargv.count \in Nat /\ r.nargv.count <= k
        BY <1>1 DEF Ended, STRVEC_INIT, Strvec
      <4> HIDE DEF n
      <4> QED BY <1>1, <4>1, <4>2 DEF REQ_STEP
    <3> QED BY <1>1, <2>1, <2>2, <3>1, NullIsNoElement, EndedMore
  <2>6. ListsBuilt'
    <3>1. Environ' = Environ /\ ForcedCommand' = ForcedCommand
      BY <2>3 DEF Environ, ForcedCommand
    <3>2. "nomem" \notin faults' => o.sv.count = k + 1
      BY <1>1, <2>2, <2>5 DEF NoneLost
    <3>3. NoneLost(r.nargv, k)'
      BY <2>1, <2>3, <3>2 DEF NoneLost
    <3> QED BY <1>1, <2>1, <2>3, <2>5, <3>1, <3>3 DEF IInv, ListsBuilt, NoneLost
  <2>7. ArgvBuilt'
    BY <1>1, <2>1, <2>3 DEF IInv, ArgvBuilt, WholeArgv, NoneLost
  <2>8. RequestParsed' /\ AccountHeld' /\ CredentialsSet'
    BY <1>1, <2>1, <2>3 DEF IInv, RequestParsed, Destination, AccountHeld, CredentialsSet
  <2> QED BY <1>1, <2>1, <2>3, <2>4, <2>6, <2>7, <2>8 DEF IInv, OptionsGood, NoSpuriousRefusal
<1>3. CASE k = Len(ForcedCommand) /\ Return(r, "final_check")
  <2>1. Typed'
    BY <1>1, <1>3, ReturnTyped DEF PCs
  <2>2. pc' = "final_check" /\ r' = r /\ k' = 0 /\ UNCHANGED <<cmd, caller, cred, faults>>
    BY <1>3 DEF Return
  <2>3. ListsBuilt'
    <3>1. Environ' = Environ /\ ForcedCommand' = ForcedCommand
      BY <2>2 DEF Environ, ForcedCommand
    <3> QED BY <1>1, <1>3, <2>2, <3>1 DEF IInv, ListsBuilt, NoneLost
  <2>4. ArgvBuilt'
    BY <1>1, <2>2 DEF IInv, ArgvBuilt, WholeArgv, NoneLost
  <2> QED BY <1>1, <2>1, <2>2, <2>3, <2>4 DEF IInv, OptionsGood, RequestParsed, Destination,
          AccountHeld, CredentialsSet, NoSpuriousRefusal
<1> QED BY <1>2, <1>3 DEF SetupNargv, AppendAll

\* The last two steps keep everything: final_check cannot refuse.
LEMMA LastStepsKeep == ASSUME IInv, FinalCheck \/ Execve PROVE IInv'
<1>1. /\ Typed /\ r \in Remote /\ pc \in {"final_check", "execve"}
      /\ cred.uid # Superuser
  BY DEF FinalCheck, Execve, IInv, Typed, AccountHeld
<1>2. ASSUME NEW next \in {"execve", "backend"}, Return(r, next)
      PROVE  IInv'
  <2>1. Typed'
    BY <1>1, <1>2, ReturnTyped DEF PCs
  <2>2. pc' = next /\ r' = r /\ k' = 0 /\ UNCHANGED <<cmd, caller, cred, faults>>
    BY <1>2 DEF Return
  <2>3. ListsBuilt'
    <3>1. Environ' = Environ /\ ForcedCommand' = ForcedCommand
      BY <2>2 DEF Environ, ForcedCommand
    <3> QED BY <1>1, <2>2, <3>1 DEF IInv, ListsBuilt, NoneLost
  <2>4. ArgvBuilt'
    BY <1>1, <2>2 DEF IInv, ArgvBuilt, WholeArgv, NoneLost
  <2> QED BY <1>1, <2>1, <2>2, <2>3, <2>4 DEF IInv, OptionsGood, RequestParsed, Destination,
          AccountHeld, CredentialsSet, NoSpuriousRefusal
<1>3. CASE FinalCheck
  BY <1>1, <1>2, <1>3 DEF FinalCheck, Check
<1>4. CASE Execve
  BY <1>2, <1>4, FailKeeps DEF Execve
<1> QED BY <1>3, <1>4

LEMMA InitHolds == Init => IInv
<1> SUFFICES ASSUME Init PROVE IInv
  OBVIOUS
<1>1. /\ STRVEC_INIT.count = 0 /\ STRVEC_INIT.cells = <<>>
      /\ \A E : STRVEC_INIT \in Strvec(E)
  BY DEF STRVEC_INIT, Strvec
<1>2. /\ Remote0 \in Remote /\ Remote0.restrict_path = NULL
      /\ \A field \in Lists : Remote0[field] = STRVEC_INIT
  BY <1>1 DEF Remote0, Remote, Lists
<1>3. Typed
  <2>1. \A field \in Lists : \A i \in 1 .. r[field].count : r[field].cells[i] # NULL
    BY <1>1, <1>2 DEF Init
  <2>2. cmd \in CommandLines /\ caller \in Callers /\ cred \in Credential /\ faults = {}
    BY OriginalAssumption DEF Init
  <2>3. r.environ \in Strvec(Word \X Seq(Word))
    BY <1>1, <1>2 DEF Init, Lists
  <2> QED BY <1>2, <2>1, <2>2, <2>3 DEF Init, Typed, TypeOK, PCs, Remote
<1>4. OptionsGood
  BY <1>2, <1>3, CmdType DEF Init, OptionsGood, Typed, TypeOK
<1> QED BY <1>2, <1>3, <1>4 DEF Init, IInv, ArgvBuilt, ListsBuilt, RequestParsed, AccountHeld,
        CredentialsSet, NoSpuriousRefusal, Lists

\* The inductive invariant: what the lists hold of the words of the command line
\* and of the backend's, whichever elements were lost, and what the functions
\* that have returned have found.
THEOREM Invariance == Spec => []IInv
<1>1. Init => IInv
  BY InitHolds
<1>2. IInv /\ [Next]_vars => IInv'
  <2> SUFFICES ASSUME IInv, [Next]_vars PROVE IInv'
    OBVIOUS
  <2>1. CASE Next
    BY <2>1, GetoptKeeps, ProcessArgvKeeps, CountArgsKeeps, RemoteParseKeeps, HostIsLocalKeeps,
       MakeSshOriginalCommandKeeps, LookupUserKeeps, BecomeUserKeeps, SetgidKeeps,
       InitgroupsKeeps, SetuidKeeps, SetupEnvironKeeps, SetupNargvKeeps, LastStepsKeep
       DEF Next
  <2>2. CASE UNCHANGED vars
    <3>1. /\ WholeArgv' = WholeArgv /\ Environ' = Environ /\ ForcedCommand' = ForcedCommand
          /\ Destination' = Destination
      BY <2>2 DEF vars, WholeArgv, Environ, ForcedCommand, Destination
    <3> QED BY <2>2, <3>1 DEF vars, IInv, Typed, TypeOK, OptionsGood, ArgvBuilt, NoneLost,
            ListsBuilt, RequestParsed, AccountHeld, CredentialsSet, NoSpuriousRefusal
  <2> QED BY <2>1, <2>2
<1> QED BY <1>1, <1>2, PTL DEF Spec

----------------------------------------------------------------------------
(* What the invariant means *)

\* What execve reads of such a list is what is in use of it.
LEMMA SeenIsUsed ==
    ASSUME NEW E, NULL \notin E, NEW sv \in Strvec(E), InUse(sv), NEW list \in Seq(E),
           Len(list) < REQ_STEP, Ended(sv, list, Len(list))
    PROVE  /\ Seen(sv) \in Seq(E) /\ Len(Seen(sv)) = sv.count /\ sv.count <= Len(list)
           /\ \A i \in 1 .. sv.count : Seen(sv)[i] = list[Len(list) - sv.count + i]
           /\ sv.cells # <<>> => Terminated(sv)
<1> DEFINE n == Len(list)
           nulls == {i \in DOMAIN sv.cells : sv.cells[i] = NULL} \cup {Len(sv.cells) + 1}
<1>1. /\ sv.count \in Nat /\ sv.cells \in Seq({NULL} \cup E) /\ sv.count <= Len(sv.cells)
      /\ REQ_STEP = 16 /\ n \in Nat
  BY DEF Strvec, REQ_STEP
<1>2. \/ sv.count = 0 /\ Len(sv.cells) = 0
      \/ Len(sv.cells) = 16 /\ sv.cells[16] = NULL
  BY <1>1 DEF Ended, STRVEC_INIT
<1>3. /\ sv.count <= n
      /\ \A i \in 1 .. sv.count : sv.cells[i] = list[n - sv.count + i]
  BY <1>1 DEF Ended, STRVEC_INIT
<1>4. sv.count + 1 \in nulls
  BY <1>1, <1>2 DEF Ended, STRVEC_INIT
<1>5. \A i \in nulls : i \in Nat /\ sv.count + 1 <= i
  BY <1>1 DEF InUse
<1>6. Min(nulls) = sv.count + 1
  <2> HIDE DEF nulls
  <2> QED BY <1>1, <1>4, <1>5 DEF Min
<1>7. Seen(sv) = SubSeq(sv.cells, 1, sv.count)
  <2>1. Seen(sv) = SubSeq(sv.cells, 1, Min(nulls) - 1)
    BY DEF Seen
  <2>2. Min(nulls) - 1 = sv.count
    BY <1>1, <1>6
  <2> QED BY <2>1, <2>2
<1>8. \A i \in 1 .. sv.count : sv.cells[i] \in E
  BY <1>1 DEF InUse
<1>9. /\ Seen(sv) \in Seq(E) /\ Len(Seen(sv)) = sv.count
      /\ \A i \in 1 .. sv.count : Seen(sv)[i] = sv.cells[i]
  BY <1>1, <1>7, <1>8
<1>10. sv.cells # <<>> => Terminated(sv)
  BY <1>1, <1>2 DEF Terminated
<1> QED BY <1>3, <1>9, <1>10

\* So it is with both lists of the backend.
LEMMA NargvSeen ==
    ASSUME IInv, pc \in FromExecve
    PROVE  /\ Seen(r.nargv) \in Seq(Word) /\ Len(Seen(r.nargv)) = r.nargv.count
           /\ r.nargv.count \in Nat /\ r.nargv.count <= Len(ForcedCommand)
           /\ \A i \in 1 .. r.nargv.count :
                 Seen(r.nargv)[i] = ForcedCommand[Len(ForcedCommand) - r.nargv.count + i]
           /\ r.nargv.cells # <<>> => Terminated(r.nargv)
<1>1. /\ r.nargv \in Strvec(Word) /\ InUse(r.nargv) /\ r.nargv.count \in Nat
      /\ Ended(r.nargv, ForcedCommand, Len(ForcedCommand))
  BY DEF IInv, Typed, TypeOK, Remote, InUse, Lists, ListsBuilt, Strvec
<1>2. ForcedCommand \in Seq(Word) /\ Len(ForcedCommand) < REQ_STEP
  <2> DEFINE n == Len(ForcedCommand)
  <2>1. ForcedCommand \in Seq(Word) /\ n \in {4, 6}
    BY ForcedCommandFits DEF IInv
  <2> HIDE DEF n
  <2>2. n < REQ_STEP
    BY <2>1 DEF REQ_STEP
  <2> QED BY <2>1, <2>2 DEF n
<1> QED BY <1>1, <1>2, NullIsNoElement, SeenIsUsed

LEMMA EnvironSeen ==
    ASSUME IInv, pc \in FromExecve
    PROVE  /\ Seen(r.environ) \in Seq(EnvEntry) /\ Len(Seen(r.environ)) = r.environ.count
           /\ \A i \in 1 .. r.environ.count :
                 Seen(r.environ)[i] = Environ[Len(Environ) - r.environ.count + i]
           /\ r.environ.cells # <<>> => Terminated(r.environ)
<1>1. /\ r.environ \in Strvec(EnvEntry) /\ InUse(r.environ)
      /\ Ended(r.environ, Environ, Len(Environ))
  BY DEF IInv, Typed, TypeOK, Remote, InUse, Lists, ListsBuilt
<1>2. Environ \in Seq(EnvEntry) /\ Len(Environ) < REQ_STEP
  <2>1. Environ \in Seq(EnvEntry) /\ Len(Environ) = 6
    BY EnvironFits
  <2> QED BY <2>1 DEF REQ_STEP
<1> QED BY <1>1, <1>2, NullIsNoElement, SeenIsUsed

\* TypeOK, for every value of the constants: no word of a list in use is null.
THEOREM TypeCorrect == Spec => []TypeOK
<1>1. IInv => TypeOK
  BY DEF IInv, Typed
<1> QED BY <1>1, Invariance, PTL

\* The backend never runs as root: it runs as the user named by the fourth word
\* from the end, whichever appends were lost, and that is not the first word
\* only if some were (become_user, main).
THEOREM RunsAsRequestedUser == Spec => []BackendRunsAsRequestedUser
<1>1. IInv => BackendRunsAsRequestedUser
  <2> SUFFICES ASSUME IInv, pc = "backend"
               PROVE  /\ cred.uid # Superuser
                      /\ cred.uid = Passwd[Named(cmd)].uid
                      /\ Len(cmd.args) = 4 \/ "nomem" \in faults
    BY DEF BackendRunsAsRequestedUser
  <2>1. /\ cred.uid # Superuser /\ cred.uid = r.pw.uid /\ r.pw = Passwd[r.user]
        /\ r.user = Head(Destination) /\ Len(Destination) > 1
        /\ Typed /\ ArgvBuilt
    BY DEF IInv, AccountHeld, RequestParsed
  <2>2. /\ r.argv.cells[2] = cmd.args[Len(cmd.args) - 3] /\ Destination \in Seq(Word)
        /\ Len(cmd.args) = 4 \/ "nomem" \in faults
    BY <2>1, WordsHeld
  <2>3. r.user = Named(cmd)
    BY <2>1, <2>2 DEF Named, Destination
  <2> QED BY <2>1, <2>2, <2>3
<1> QED BY <1>1, Invariance, PTL

\* A backend that root started has the gid and the groups of the user it runs as,
\* but for what the one of setgid and initgroups that has failed would have set,
\* which is root's; any other has those it was started with (become_user).
THEOREM DropsGroups == Spec => []GroupsDropped
<1>1. IInv => GroupsDropped
  <2> SUFFICES ASSUME IInv, pc = "backend" PROVE GroupsDropped
    BY DEF GroupsDropped
  <2>1. /\ r.pw = Passwd[r.user] /\ r.user = Head(Destination) /\ Len(Destination) > 1
        /\ Typed /\ ArgvBuilt
    BY DEF IInv, AccountHeld, RequestParsed
  <2>2. r.user = Named(cmd)
    <3>1. r.argv.cells[2] = cmd.args[Len(cmd.args) - 3] /\ Destination \in Seq(Word)
      BY <2>1, WordsHeld
    <3> QED BY <2>1, <3>1 DEF Named, Destination
  <2>3. CASE caller.uid = Superuser
    BY <2>1, <2>2, <2>3 DEF IInv, CredentialsSet, GroupsDropped
  <2>4. CASE caller.uid # Superuser
    BY <2>4 DEF IInv, CredentialsSet, GroupsDropped
  <2> QED BY <2>3, <2>4
<1> QED BY <1>1, Invariance, PTL

\* The program gives up only for one of the reasons listed.
THEOREM RefusesForReason == Spec => []NoSpuriousRefusal
<1>1. IInv => NoSpuriousRefusal
  BY DEF IInv
<1> QED BY <1>1, Invariance, PTL

\* execve finds the ends of both lists, although strvec_append keeps no room
\* for a null: neither list is ever as long as its block.
THEOREM ListsEnd == Spec => []ListsTerminated
<1>1. IInv => ListsTerminated
  <2> SUFFICES ASSUME IInv, pc = "execve"
               PROVE  /\ r.nargv.cells # <<>> => Terminated(r.nargv)
                      /\ r.environ.cells # <<>> => Terminated(r.environ)
    BY DEF ListsTerminated
  <2> QED BY NargvSeen, EnvironSeen
<1> QED BY <1>1, Invariance, PTL

\* With a -r the forced command has six words, of which the last is the path.
LEMMA RestrictedCommand ==
    ASSUME IInv, pc \in FromProcess, cmd.opts # <<>>
    PROVE  /\ ForcedCommand = Promise!BackendArgv(cmd)
           /\ ForcedCommand = <<"borg", "serve", "--umask", "077",
                                "--restrict-to-path", r.restrict_path>>
           /\ r.restrict_path = cmd.opts[Len(cmd.opts)]
<1> DEFINE last == cmd.opts[Len(cmd.opts)]
<1>1. r.restrict_path = last /\ last \in Word
  <2>1. /\ cmd \in CommandLines /\ cmd.opts \in Seq({BadOption} \cup Word)
        /\ \A i \in 1 .. Len(cmd.opts) : cmd.opts[i] # BadOption
        /\ r.restrict_path = last
    BY CmdType DEF IInv, Typed, TypeOK, OptionsGood
  <2>2. Len(cmd.opts) \in DOMAIN cmd.opts
    BY <2>1
  <2> QED BY <2>1, <2>2
<1>2. r.restrict_path # NULL
  BY <1>1, NullIsNoElement
<1> HIDE DEF last
<1>3. ForcedCommand = <<"borg", "serve", "--umask", "077">>
                      \o <<"--restrict-to-path", r.restrict_path>>
  BY <1>2 DEF ForcedCommand
<1>4. Promise!BackendArgv(cmd) = <<"borg", "serve", "--umask", "077">>
                                 \o <<"--restrict-to-path", last>>
  BY DEF Promise!BackendArgv, last
<1>5. ForcedCommand = <<"borg", "serve", "--umask", "077",
                        "--restrict-to-path", r.restrict_path>>
  <2> DEFINE serve == <<"borg", "serve", "--umask", "077">>
             path  == <<"--restrict-to-path", r.restrict_path>>
             all   == <<"borg", "serve", "--umask", "077",
                        "--restrict-to-path", r.restrict_path>>
  <2>1. Literals \subseteq Word /\ r.restrict_path \in Word
    BY <1>1, OriginalAssumption
  <2>2. /\ serve \in Seq(Word) /\ Len(serve) = 4
        /\ path \in Seq(Word) /\ Len(path) = 2
        /\ all \in Seq(Word) /\ Len(all) = 6
    BY <2>1 DEF Literals
  <2>3. /\ serve[1] = all[1] /\ serve[2] = all[2] /\ serve[3] = all[3] /\ serve[4] = all[4]
        /\ path[1] = all[5] /\ path[2] = all[6]
    OBVIOUS
  <2>4. ForcedCommand = serve \o path
    BY <1>3
  <2> HIDE DEF serve, path, all
  <2>5. /\ serve \o path \in Seq(Word)
        /\ Len(serve \o path) = Len(serve) + Len(path)
        /\ \A i \in 1 .. Len(serve) + Len(path) :
              (serve \o path)[i] = IF i <= Len(serve) THEN serve[i] ELSE path[i - Len(serve)]
    BY <2>2, ConcatProperties, Zenon
  <2>6. Len(serve \o path) = 6
    BY <2>2, <2>5
  <2>7. \A i \in 1 .. 6 : (serve \o path)[i] = all[i]
    BY <2>2, <2>3, <2>5
  <2>8. serve \o path = all
    BY <2>2, <2>5, <2>6, <2>7, SeqEqual
  <2> QED BY <2>4, <2>8 DEF all
<1> QED BY <1>1, <1>3, <1>4, <1>5 DEF last

\* A backend that is told to serve is told what it is restricted to: whatever
\* setup_nargv lost, it lost the first words of the command.
THEOREM Restricts == Spec => []ServesRestricted
<1>1. IInv => ServesRestricted
  <2> DEFINE seen == Seen(r.nargv)
             c    == r.nargv.count
             F    == ForcedCommand
  <2> SUFFICES ASSUME IInv, pc = "backend", cmd.opts # <<>>, cmd.opts[Len(cmd.opts)] # "serve",
                      NEW i \in DOMAIN seen, seen[i] = "serve"
               PROVE  SubSeq(seen, i, Len(seen)) = Tail(Promise!BackendArgv(cmd))
    BY DEF ServesRestricted
  <2>1. /\ F = Promise!BackendArgv(cmd)
        /\ F = <<"borg", "serve", "--umask", "077", "--restrict-to-path", r.restrict_path>>
        /\ r.restrict_path # "serve"
    BY RestrictedCommand
  <2>2. F \in Seq(Word) /\ Len(F) = 6
    BY <2>1, ForcedCommandFits DEF IInv
  <2>3. \A j \in 1 .. 6 : F[j] = "serve" => j = 2
    BY <2>1
  <2>4. /\ seen \in Seq(Word) /\ Len(seen) = c /\ c \in Nat /\ c <= Len(F)
        /\ \A j \in 1 .. c : seen[j] = F[Len(F) - c + j]
    BY NargvSeen
  <2> HIDE DEF seen, c, F
  <2>5. c \in Nat /\ c <= 6 /\ i \in Nat /\ 1 <= i /\ i <= c
    BY <2>2, <2>4
  <2>6. \A j \in 1 .. c : seen[j] = F[6 - c + j]
    BY <2>2, <2>4
  <2>7. i = c - 4 /\ c >= 5
    <3> DEFINE m == 6 - c + i
    <3>1. m \in 1 .. 6
      BY <2>5
    <3>2. i \in 1 .. c
      BY <2>5
    <3>3. F[m] = "serve"
      BY <2>6, <3>2
    <3> HIDE DEF m
    <3>4. m = 2
      BY <2>3, <3>1, <3>3
    <3> QED BY <2>5, <3>4 DEF m
  <2> DEFINE told == SubSeq(seen, i, Len(seen))
             rest == Tail(F)
  <2>8. /\ told \in Seq(Word) /\ Len(told) = 5
        /\ \A j \in 1 .. 5 : told[j] = seen[i + j - 1]
    BY <2>4, <2>5, <2>7
  <2>9. /\ rest \in Seq(Word) /\ Len(rest) = 5
        /\ \A j \in 1 .. 5 : rest[j] = F[j + 1]
    <3>1. F # <<>>
      BY <2>1 DEF F
    <3>2. /\ rest \in Seq(Word) /\ Len(rest) = Len(F) - 1
          /\ \A j \in 1 .. Len(F) - 1 : rest[j] = F[j + 1]
      BY <2>2, <3>1, HeadTailProperties, Zenon
    <3>3. Len(F) - 1 = 5
      BY <2>2
    <3> QED BY <3>2, <3>3
  <2>10. ASSUME NEW j \in 1 .. 5 PROVE told[j] = rest[j]
    <3>1. i + j - 1 \in 1 .. c /\ 6 - c + (i + j - 1) = j + 1
      BY <2>5, <2>7
    <3>2. seen[i + j - 1] = F[6 - c + (i + j - 1)]
      BY <2>6, <3>1
    <3> QED BY <2>8, <2>9, <3>1, <3>2
  <2> HIDE DEF told, rest
  <2>11. told = rest
    BY <2>8, <2>9, <2>10, SeqEqual
  <2> QED BY <2>1, <2>11 DEF told, rest
<1> QED BY <1>1, Invariance, PTL

----------------------------------------------------------------------------
(* Refinement *)

\* As long as there is memory, what has come past host_is_local of a command
\* line of borg is acceptable, and main holds the account it names.
LEMMA RequestAcceptable ==
    ASSUME IInv, pc \in FromBecome, "nomem" \notin faults, BorgLine(cmd)
    PROVE  /\ Promise!Acceptable(cmd)
           /\ Promise!Login(cmd) = r.user /\ Promise!Account(cmd) = r.pw
           /\ Len(cmd.args) = 4
<1>1. /\ Len(cmd.args) = 4 /\ Typed /\ ArgvBuilt /\ pc \in FromParse
      /\ Destination \in Seq(Word)
  BY WordsHeld DEF IInv
<1>2. /\ Destination = Fields[cmd.args[1]]
      /\ Len(Destination) > 1 /\ r.user = Head(Destination)
      /\ Head(Destination) = Promise!Login(cmd)
      /\ r.user \in DOMAIN Passwd /\ r.pw = Passwd[r.user]
  BY <1>1, DestinationIsFirst DEF IInv, RequestParsed, AccountHeld
<1>3. Len(Destination) = 2 /\ Destination[2] \in {"localhost", "127.0.0.1", "0.0.0.0"}
  <2> DEFINE host == Tail(Destination)
  <2>1. host \in {<<"localhost">>, <<"127.0.0.1">>, <<"0.0.0.0">>}
    BY DEF IInv, RequestParsed
  <2>2. Len(host) = 1 /\ host[1] \in {"localhost", "127.0.0.1", "0.0.0.0"}
    <3> HIDE DEF host
    <3> QED BY <2>1
  <2>3. Len(host) = Len(Destination) - 1 /\ host[1] = Destination[2]
    BY <1>1, <1>2, <2>2, HeadTailProperties
  <2>4. Len(Destination) = 2
    <3> DEFINE n == Len(Destination)
    <3>1. n \in Nat /\ n - 1 = 1
      BY <1>1, <2>2, <2>3
    <3> HIDE DEF n
    <3>2. n = 2
      BY <3>1
    <3> QED BY <3>2 DEF n
  <2> QED BY <2>2, <2>3, <2>4
<1>4. Destination[1] \in DOMAIN Passwd
  BY <1>1, <1>2
<1>5. \A i \in DOMAIN cmd.opts : cmd.opts[i] # BadOption
  <2>1. /\ cmd.opts \in Seq({BadOption} \cup Word)
        /\ \A i \in 1 .. Len(cmd.opts) : cmd.opts[i] # BadOption
    BY CmdType DEF IInv, Typed, TypeOK, OptionsGood
  <2> QED BY <2>1
<1>6. Promise!Acceptable(cmd)
  BY <1>1, <1>2, <1>3, <1>4, <1>5 DEF BorgLine, Promise!Acceptable, Promise!LocalHosts
<1> QED BY <1>1, <1>2, <1>6 DEF Promise!Account

\* And execve then finds the whole lists that RemoteShell promises.
LEMMA NargvPromised ==
    ASSUME IInv, pc \in FromExecve, "nomem" \notin faults
    PROVE  Seen(r.nargv) = Promise!BackendArgv(cmd)
<1>1. ForcedCommand = Promise!BackendArgv(cmd)
  <2>1. CASE cmd.opts # <<>>
    BY <2>1, RestrictedCommand
  <2>2. CASE cmd.opts = <<>>
    BY <2>2 DEF IInv, OptionsGood, ForcedCommand, Promise!BackendArgv
  <2> QED BY <2>1, <2>2
<1> DEFINE seen == Seen(r.nargv)
           F    == ForcedCommand
<1>2. /\ F \in Seq(Word) /\ seen \in Seq(Word) /\ Len(seen) = r.nargv.count
      /\ \A i \in 1 .. r.nargv.count : seen[i] = F[Len(F) - r.nargv.count + i]
  BY NargvSeen, ForcedCommandFits DEF IInv
<1>3. r.nargv.count = Len(F)
  BY DEF IInv, ListsBuilt, NoneLost
<1> HIDE DEF seen, F
<1>4. \A i \in 1 .. Len(seen) : seen[i] = F[i]
  BY <1>2, <1>3
<1>5. seen = F
  BY <1>2, <1>3, <1>4, SeqEqual
<1> QED BY <1>1, <1>5 DEF seen, F

LEMMA EnvironPromised ==
    ASSUME IInv, pc \in FromExecve, "nomem" \notin faults, BorgLine(cmd)
    PROVE  Seen(r.environ) = Promise!BackendEnv(cmd)
<1> DEFINE seen == Seen(r.environ)
           F    == Environ
<1>1. /\ F \in Seq(EnvEntry) /\ seen \in Seq(EnvEntry) /\ Len(seen) = r.environ.count
      /\ \A i \in 1 .. r.environ.count : seen[i] = F[Len(F) - r.environ.count + i]
  BY EnvironSeen, EnvironFits
<1>2. r.environ.count = Len(F)
  BY DEF IInv, ListsBuilt, NoneLost
<1>3. Environ = Promise!BackendEnv(cmd)
  <2>1. Promise!Login(cmd) = r.user /\ Promise!Account(cmd) = r.pw /\ Len(cmd.args) = 4
    BY RequestAcceptable
  <2>2. r.ssh_original_command = SubSeq(cmd.args, 2, Len(cmd.args))
    <3> DEFINE words == SubSeq(r.argv.cells, 3, 5)
               args  == SubSeq(cmd.args, 2, 4)
    <3>1. /\ r.argv.cells \in Seq({NULL} \cup Word) /\ Len(r.argv.cells) >= 5
          /\ cmd.args \in Seq(Word) /\ Len(cmd.args) = 4
          /\ \A i \in 1 .. 4 : r.argv.cells[i + 1] = cmd.args[i]
      BY <2>1, WordsHeld, CmdType DEF IInv, Typed, TypeOK
    <3>2. r.ssh_original_command = words
      BY DEF IInv, RequestParsed, ArgvBuilt, BORGOFF
    <3>3. /\ words \in Seq({NULL} \cup Word) /\ Len(words) = 3
          /\ args \in Seq({NULL} \cup Word) /\ Len(args) = 3
          /\ \A i \in 1 .. 3 : words[i] = r.argv.cells[i + 2] /\ args[i] = cmd.args[i + 1]
      BY <3>1
    <3> HIDE DEF words, args
    <3>4. ASSUME NEW i \in 1 .. 3 PROVE words[i] = args[i]
      <4>1. i + 1 \in 1 .. 4 /\ i + 1 + 1 = i + 2
        OBVIOUS
      <4>2. r.argv.cells[i + 1 + 1] = cmd.args[i + 1]
        BY <3>1, <4>1
      <4> QED BY <3>3, <4>1, <4>2
    <3>5. words = args
      BY <3>3, <3>4, SeqEqual
    <3> QED BY <2>1, <3>2, <3>5 DEF args
  <2> QED BY <2>1, <2>2 DEF Environ, Promise!BackendEnv
<1> HIDE DEF seen, F
<1>4. \A i \in 1 .. Len(seen) : seen[i] = F[i]
  BY <1>1, <1>2
<1>5. seen = F
  BY <1>1, <1>2, <1>4, SeqEqual
<1> QED BY <1>3, <1>5 DEF seen, F

\* Only execve ends main without exiting, only setuid changes the user, and
\* main takes no step once it has ended.
LEMMA WhoDoesWhat ==
    ASSUME IInv, Next
    PROVE  /\ pc \notin {"exited", "backend"} /\ UNCHANGED cmd
           /\ pc' = "backend" => pc = "execve" /\ UNCHANGED <<cred, r, faults>>
           /\ cred'.uid # cred.uid => Setuid
           /\ pc' = "exited" => cred' = cred
           /\ faults \subseteq faults'
<1> USE DEF Return, Refuse, Fail, Check
<1>0. cred \in Credential
  BY DEF IInv, Typed, TypeOK
<1>1. CASE Getopt \/ CountArgs \/ RemoteParse \/ HostIsLocal \/ MakeSshOriginalCommand \/ LookupUser
  BY <1>1 DEF Getopt, CountArgs, RemoteParse, HostIsLocal, MakeSshOriginalCommand, LookupUser
<1>2. CASE ProcessArgv \/ SetupEnviron \/ SetupNargv
  <2> USE DEF ProcessArgv, SetupEnviron, SetupNargv, AppendAll
  <2>1. CASE \E field, list : AppendNext(field, list)
    <3>1. UNCHANGED <<pc, cmd, cred>> /\ faults \subseteq faults'
      BY <2>1 DEF AppendNext
    <3> QED BY <1>2, <3>1
  <2>2. CASE ~\E field, list : AppendNext(field, list)
    BY <1>2, <2>2
  <2> QED BY <2>1, <2>2
<1>3. CASE BecomeUser \/ FinalCheck \/ Execve
  BY <1>3 DEF BecomeUser, FinalCheck, Execve
<1>4. CASE Setgid
  <2>1. cred' = [cred EXCEPT !.gid = r.pw.gid] \/ cred' = cred
    BY <1>4 DEF Setgid, Changes
  <2>2. cred'.uid = cred.uid
    BY <1>0, <2>1 DEF Credential
  <2> QED BY <1>4, <2>2 DEF Setgid, Changes
<1>5. CASE Initgroups
  <2>1. cred' = [cred EXCEPT !.groups = GroupsOf[r.user] \cup {r.pw.gid}] \/ cred' = cred
    BY <1>5 DEF Initgroups, Changes
  <2>2. cred'.uid = cred.uid
    BY <1>0, <2>1 DEF Credential
  <2> QED BY <1>5, <2>2 DEF Initgroups, Changes
<1>6. CASE Setuid
  BY <1>6 DEF Setuid
<1> QED BY <1>1, <1>2, <1>3, <1>4, <1>5, <1>6 DEF Next

\* Main's steps, as RemoteShell sees them.
LEMMA StepPromised ==
    ASSUME IInv, Next
    PROVE  [Promise!Next \/ "nomem" \in faults' \/ ~BorgLine(cmd)]_(Promise!vars)
<1>1. /\ pc \notin {"exited", "backend"} /\ UNCHANGED cmd /\ faults \subseteq faults'
  BY WhoDoesWhat
<1>2. CASE "nomem" \in faults' \/ ~BorgLine(cmd)
  BY <1>2
<1>3. CASE pc' = "exited"
  <2>1. Promise!Refuse
    BY <1>1, <1>3, WhoDoesWhat DEF Promise!Refuse
  <2> QED BY <2>1 DEF Promise!Next
<1>4. CASE pc' = "backend" /\ "nomem" \notin faults' /\ BorgLine(cmd)
  <2>1. pc = "execve" /\ UNCHANGED <<cred, r, faults>>
    BY <1>4, WhoDoesWhat
  <2>2. /\ Promise!Acceptable(cmd)
        /\ cred.uid = Promise!Account(cmd).uid /\ cred.uid # Promise!Superuser
    BY <1>4, <2>1, RequestAcceptable DEF IInv, AccountHeld, Superuser, Promise!Superuser
  <2>3. /\ Seen(r.nargv) = Promise!BackendArgv(cmd)
        /\ Seen(r.environ) = Promise!BackendEnv(cmd)
    BY <1>4, <2>1, NargvPromised, EnvironPromised
  <2>4. Seen(r.nargv)' = Seen(r.nargv) /\ Seen(r.environ)' = Seen(r.environ)
    BY <2>1 DEF Seen
  <2>5. Promise!Serve
    BY <1>1, <1>4, <2>1, <2>2, <2>3, <2>4 DEF Promise!Serve, Promise!Backend
  <2> QED BY <2>5 DEF Promise!Next
<1>5. CASE /\ pc' \notin {"exited", "backend"} /\ cred'.uid # cred.uid
           /\ "nomem" \notin faults' /\ BorgLine(cmd)
  <2>1. pc = "setuid" /\ Setuid /\ cred' = [cred EXCEPT !.uid = r.pw.uid]
    BY <1>5, WhoDoesWhat DEF Setuid, Fail
  <2>2. cred'.uid = r.pw.uid
    BY <2>1 DEF IInv, Typed, TypeOK, Credential
  <2>3. /\ cred.uid = Promise!Superuser /\ r.pw.uid # Promise!Superuser
        /\ Promise!Acceptable(cmd) /\ Promise!Account(cmd) = r.pw
    BY <1>1, <1>5, <2>1, RequestAcceptable DEF IInv, AccountHeld, Superuser, Promise!Superuser
  <2>4. Promise!BecomeUser
    BY <1>1, <1>5, <2>2, <2>3 DEF Promise!BecomeUser, Promise!MayServe
  <2> QED BY <2>4 DEF Promise!Next
<1>6. CASE pc' \notin {"exited", "backend"} /\ cred'.uid = cred.uid
  BY <1>1, <1>6 DEF Promise!vars
<1> QED BY <1>2, <1>3, <1>4, <1>5, <1>6

\* On the command lines of borg, and as long as memory lasts, the original is
\* the RemoteShell that its successor is.
THEOREM Implementation == Spec => ImplementsRemoteShell
<1>1. Init => Promise!Init
  BY DEF Init, Promise!Init
<1>2. IInv /\ [Next]_vars =>
         [Promise!Next \/ "nomem" \in faults' \/ ~BorgLine(cmd)]_(Promise!vars)
  <2> SUFFICES ASSUME IInv, [Next]_vars
               PROVE  [Promise!Next \/ "nomem" \in faults' \/ ~BorgLine(cmd)]_(Promise!vars)
    OBVIOUS
  <2>1. CASE Next
    BY <2>1, StepPromised
  <2>2. CASE UNCHANGED vars
    BY <2>2 DEF vars, Promise!vars, Seen
  <2> QED BY <2>1, <2>2
<1> QED BY <1>1, <1>2, Invariance, PTL DEF Spec, ImplementsRemoteShell
=============================================================================
