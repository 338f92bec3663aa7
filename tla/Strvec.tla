------------------------------- MODULE Strvec -------------------------------
(* The lists of strings of strvec.c, and their use by str_execve and          *)
(* str_execv.  A strvec_t is a pointervec whose elements point to strings, or *)
(* are null; the strings do not change here, and one is named by its text.    *)
(*                                                                            *)
(* A program builds two lists, calling the functions in any order, and runs   *)
(* another with them.                                                         *)
EXTENDS VectorOps, FiniteSetsExt

CONSTANTS Environ, \* environ of the program
          MaxUsed  \* bound on the length of a list

\* The sizes that lists of such lengths have.
Sizes == {0} \cup {POLICY_SIZE_STEP(n) : n \in 0 .. MaxUsed}

\* Lengths are of size_t; NULL and LOST are no lists; environ ends at its null.
ASSUME StrvecAssumption == /\ MaxUsed \in 0 .. WordSize - 1
                           /\ \A size \in Sizes : VectorsOf(size) \cap {NULL, LOST} = {}
                           /\ Environ \in Seq(Val \ {Default})

VARIABLES list,  \* "args" and "env" -> a strvec_t*
          x,     \* a str_t* that the program has
          ret,   \* what the last function returned
          holes, \* the program has put a null element into a list
          lost,  \* "null", or "memory": it has used a null string, or memory of another
          ran    \* what execve has run, or NULL

vars == <<list, x, ret, holes, lost, ran>>

Lists   == {"args", "env"}
Strings == Val \ {Default}

Init == /\ list = [l \in Lists |-> NULL]
        /\ x = Default
        /\ ret = "ok"
        /\ holes = FALSE
        /\ lost = "no"
        /\ ran = NULL

Runs    == lost = "no" /\ ran = NULL
Live(l) == Runs /\ list[l] # NULL
Used(l) == list[l].used

\* A function has been called on a list and had one of its outcomes.  hole: one
\* that is ok puts a null into it.
Returns(l, outcomes, hole) ==
    \E o \in outcomes :
       /\ ret' = o.ret
       /\ \/ o.vec = LOST /\ lost' = "memory" /\ UNCHANGED <<list, holes>>
          \/ /\ o.vec # LOST
             /\ list' = [list EXCEPT ![l] = o.vec]
             /\ holes' = (holes \/ (hole /\ o.ret = "ok"))
             /\ UNCHANGED lost
       /\ UNCHANGED <<x, ran>>

----------------------------------------------------------------------------
(* Functions that are not those of pointervec.c *)

\* Mutant of Assigned: what could not be created is assigned too.
AssignedAlways(old, outcomes) == outcomes

\* *vpp is assigned only if the list could be created.
Assigned(old, outcomes) == {IF o.ret = "ok" THEN o ELSE Outcome(o.ret, old) : o \in outcomes}

\* Mutant of strvec_append_cstring: whether there is a string is not looked at.
strvec_append_cstring_untested(v, text) == AppendOne(v, text) \cup AppendOne(v, Default)

\* If the string cannot be appended it is deleted, which frees nothing.
strvec_append_cstring(v, text) == {Outcome("ENOMEM", v)} \cup AppendOne(v, text)

\* Mutant of strvec_argc_argv: a null element is copied.
strvec_argc_argv_null(v) ==
    {[ret |-> "ok", argv |-> Append(Contents(v), Default)], [ret |-> "ENOMEM", argv |-> <<>>]}

\* The C strings of all elements and a null.  str_cstring of a null element
\* reads what it points to.
strvec_argc_argv(v) ==
    {[ret |-> "ENOMEM", argv |-> <<>>]}
    \cup IF \E k \in 1 .. v.used : Contents(v)[k] = Default
         THEN {[ret |-> "null", argv |-> <<>>]}
         ELSE {[ret |-> "ok", argv |-> Append(Contents(v), Default)]}

\* What execve reads of an argument: up to the first null.
Read(argv) == SubSeq(argv, 1, Min({k \in DOMAIN argv : argv[k] = Default}) - 1)

----------------------------------------------------------------------------
(* Building lists *)

Index == 0 .. MaxUsed - 1

CallCreate(l) == Runs /\ Returns(l, Assigned(list[l], Create("pointer", 0)), FALSE)
CallCopyNew == Live("args") /\ Returns("env", Assigned(list["env"],
                                                       CreateFrom("pointer", Contents(list["args"]))), FALSE)
CallCopy == Live("args") /\ Live("env")
            /\ Returns("env", CopyFrom(list["env"], Contents(list["args"])), FALSE)

\* pointervec_Delete frees nothing and returns ok.
CallDelete(l) == Runs /\ Returns(l, {Outcome("ok", NULL)}, FALSE)

\* EDOM comes with the default, null.
CallGet(i) == /\ Live("args")
              /\ ret' = IF i < Used("args") THEN "ok" ELSE "EDOM"
              /\ x' = IF i < Used("args") THEN list["args"].cells[i] ELSE Default
              /\ UNCHANGED <<list, holes, lost, ran>>

CallAppend == Live("args") /\ Used("args") < MaxUsed
              /\ Returns("args", AppendOne(list["args"], x), x = Default)

CallAppendN(strs) == Live("args") /\ Used("args") + Len(strs) <= MaxUsed
                     /\ Returns("args", Concatenate(list["args"],
                            [used |-> Len(strs), cells |-> [k \in 0 .. Len(strs) - 1 |-> strs[k + 1]]],
                            FALSE), FALSE)

CallAppendCstring(text) == Live("args") /\ Used("args") < MaxUsed
                           /\ Returns("args", strvec_append_cstring(list["args"], text), FALSE)

\* Elements between the end of the list and i become null.
CallReplace(i) == Live("args") /\ Returns("args", Replace(list["args"], i, x),
                                          x = Default \/ i > Used("args"))
CallInsert(i)  == Live("args") /\ Used("args") < MaxUsed
                  /\ Returns("args", Insert(list["args"], i, x),
                             x = Default \/ i > Used("args"))

CallClear(i)   == Live("args") /\ Returns("args", Clear(list["args"], i), TRUE)
CallRemove(i)  == Live("args") /\ Returns("args", Remove(list["args"], i), FALSE)
CallRemoveLast == Live("args") /\ Returns("args", RemoveLast(list["args"]), FALSE)

CallConcatenate == Live("args") /\ Live("env") /\ Used("args") + Used("env") <= MaxUsed
                   /\ Returns("args", Concatenate(list["args"], list["env"], FALSE), FALSE)

CallSlice(start, len) ==
    Live("args") /\ Live("env")
    /\ Returns("env", Slice(list["env"], list["args"], start, len, FALSE), FALSE)

----------------------------------------------------------------------------
(* Running a program *)

Fails(result) == /\ ret' = result
                 /\ lost' = IF result = "null" THEN "null" ELSE "no"
                 /\ UNCHANGED <<list, x, holes, ran>>

\* execve (cpath, argv, envp), which returns only if it fails.
Execve(argv, envp) ==
    \/ /\ ran' = [argv |-> Read(argv), envp |-> Read(envp)]
       /\ UNCHANGED <<list, x, ret, holes, lost>>
    \/ Fails("errno")

\* str_execve.  Without a list env the environment is empty.
str_execve(path) ==
    /\ Runs
    /\ \/ (path = Default \/ list["args"] = NULL) /\ Fails("EINVAL")
       \/ /\ path # Default /\ list["args"] # NULL
          /\ \E a \in strvec_argc_argv(list["args"]) :
             \/ a.ret # "ok" /\ Fails(a.ret)
             \/ a.ret = "ok" /\ list["env"] = NULL /\ Execve(a.argv, <<Default>>)
             \/ a.ret = "ok" /\ list["env"] # NULL
                /\ \E e \in strvec_argc_argv(list["env"]) :
                   \/ e.ret # "ok" /\ Fails(e.ret)
                   \/ e.ret = "ok" /\ Execve(a.argv, e.argv)

\* str_execv: with the program's own environment.
str_execv(path) ==
    /\ Runs
    /\ \/ (path = Default \/ list["args"] = NULL) /\ Fails("EINVAL")
       \/ /\ path # Default /\ list["args"] # NULL
          /\ \E a \in strvec_argc_argv(list["args"]) :
             \/ a.ret # "ok" /\ Fails(a.ret)
             \/ a.ret = "ok" /\ Execve(a.argv, Append(Environ, Default))

Change == \/ \E l \in Lists : CallCreate(l) \/ CallDelete(l)
          \/ CallCopyNew \/ CallCopy \/ CallAppend \/ CallRemoveLast \/ CallConcatenate
          \/ \E text \in Strings : CallAppendCstring(text)
          \/ \E s, t \in Strings : CallAppendN(<<s, t>>)
          \/ \E i \in Index :
                \/ CallGet(i) \/ CallReplace(i) \/ CallInsert(i) \/ CallClear(i) \/ CallRemove(i)
                \/ CallSlice(i, 1) \/ CallSlice(i, MaxUsed)

Next == Change \/ \E path \in Val : str_execve(path) \/ str_execv(path)

Spec == Init /\ [][Next]_vars

----------------------------------------------------------------------------
(* Correctness *)

Elements(l) == IF list[l] = NULL THEN <<>> ELSE Contents(list[l])

\* No element is null unless the program has put one there, by appending or
\* inserting a null, by clearing one or by leaving a gap: what removing,
\* growing and failing leave in the block never comes into use.  So str_execve
\* and str_execv never use a null string in a program that does none of these,
\* as the launcher, whose lists are built by append_cstring and append.
NullsComeFromHoles ==
    ~holes => /\ \A l \in Lists : \A k \in 1 .. Len(Elements(l)) : Elements(l)[k] # Default
              /\ lost # "null"

\* A program that is run is given every element of the lists, not the
\* beginning of them, and its own environment or none if there is no list.
RunsWithWholeLists ==
    ran # NULL => /\ ran.argv = Elements("args")
                  /\ ran.envp \in {Elements("env"), Environ}

\* A function that does not return ok has left the elements of both lists alone,
\* although it may have made them room.
FailureKeepsLists == [][ret' # "ok" => UNCHANGED <<Elements("args"), Elements("env")>>]_vars
=============================================================================
