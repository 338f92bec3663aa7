--------------------------------- MODULE Str ---------------------------------
(* The strings of str.c: a str_t is a charvec that ends with a NUL, which the *)
(* functions take off, and put back, to change the string.  A program calls   *)
(* them on its strings in any order; its C strings, and the characters that   *)
(* it appends, are not NUL.                                                   *)
EXTENDS VectorOps

CONSTANTS NUL,     \* what ends a string
          Handles, \* the strings of the program
          MaxUsed  \* bound on what is stored for a string

VARIABLES str,  \* handle -> its charvec, or NULL
          lost, \* memory outside a block has been accessed
          call  \* the call just made and its result

vars == <<str, lost, call>>

\* The sizes that strings of such lengths have.
Sizes == {0} \cup {POLICY_SIZE_STEP(n) : n \in 0 .. MaxUsed}

\* The bound is a size_t and holds the caller's longest string, SizeMax is a
\* multiple of SizeStep, as powers of two are, and NULL and LOST are no strings.
ASSUME StrAssumption == /\ NUL \in Val
                        /\ MaxUsed \in 4 .. WordSize - 1
                        /\ SizeMax % SizeStep = 0
                        /\ \A size \in Sizes : VectorsOf(size) \cap {NULL, LOST} = {}

----------------------------------------------------------------------------
(* The functions, as the outcomes of the functions of charvec.c they call *)

\* if (result == ok) result = f (v)
Then(outcomes, f(_)) ==
    UNION {IF o.ret = "ok" /\ o.vec # LOST THEN f(o.vec) ELSE {o} : o \in outcomes}

\* There is room for the NUL: whether it is appended is not looked at.
str_Create(n) ==
    Then(Create("char", n + 1), LAMBDA v : {Outcome("ok", o.vec) : o \in AppendOne(v, NUL)})

str_Create_cstring(cs)    == CreateFrom("char", Append(cs, NUL))
str_copy_cstring(dst, cs) == CopyFrom(dst, Append(cs, NUL))
str_Copy(src)             == CreateFrom("char", Contents(src))
str_copy(dst, src)        == CopyFrom(dst, Contents(src))

\* Mutant of str_append: the NUL of dst is not taken off.
str_append_after_nul(dst, src, same) == Concatenate(dst, src, same)

\* The NUL of dst is removed, that of src comes with its elements.
str_append(dst, src, same) ==
    Then(RemoveLast(dst), LAMBDA v : Concatenate(v, IF same THEN v ELSE src, same))

str_append_char(s, ch) ==
    Then(RemoveLast(s), LAMBDA v :
         Then(AppendOne(v, ch), LAMBDA w : AppendOne(w, NUL)))

\* Mutant of str_substr: off by one in when the slice has its NUL already.
str_substr_early(dst, src, start, len, same) ==
    Then(Slice(dst, src, start, len, same), LAMBDA v :
         IF start + len + 1 < (IF same THEN v ELSE src).used
         THEN AppendOne(v, NUL) ELSE {Outcome("ok", v)})

\* A slice that does not reach the NUL of src gets one of its own.
str_substr(dst, src, start, len, same) ==
    Then(Slice(dst, src, start, len, same), LAMBDA v :
         IF start + len < (IF same THEN v ELSE src).used
         THEN AppendOne(v, NUL) ELSE {Outcome("ok", v)})

----------------------------------------------------------------------------
(* The program *)

Init == /\ str = [h \in Handles |-> NULL]
        /\ lost = FALSE
        /\ call = [fn |-> "none", on |-> NULL, args |-> <<>>, ret |-> "ok"]

Live == {h \in Handles : str[h] # NULL}

\* The function fn has been called on h and has had one of its outcomes.
Returns(fn, h, args, outcomes) ==
    \E o \in outcomes :
       /\ call' = [fn |-> fn, on |-> h, args |-> args, ret |-> o.ret]
       /\ \/ o.vec = LOST /\ lost' = TRUE /\ UNCHANGED str
          \/ o.vec # LOST /\ str' = [str EXCEPT ![h] = o.vec] /\ UNCHANGED lost

Index    == 0 .. MaxUsed - 1
Char     == Val \ {NUL}
CStrings == UNION {[1 .. n -> Char] : n \in 0 .. 3} \* of the caller

CallCreate(h, n) == str[h] = NULL /\ Returns("Create", h, <<n>>, str_Create(n))

CallCreateCstring(h, cs) ==
    str[h] = NULL /\ Returns("copy_cstring", h, <<cs>>, str_Create_cstring(cs))

CallCopyCstring(h, cs) ==
    h \in Live /\ Returns("copy_cstring", h, <<cs>>, str_copy_cstring(str[h], cs))

\* str_Copy makes a new string, whether there was one or not; if it cannot,
\* the old one stays.
CallCopyNew(h, g) ==
    g \in Live /\ Returns("copy", h, <<g>>,
                          {Outcome(o.ret, IF o.ret = "ok" THEN o.vec ELSE str[h]) :
                              o \in str_Copy(str[g])})

CallCopy(h, g) == {h, g} \subseteq Live /\ Returns("copy", h, <<g>>, str_copy(str[h], str[g]))

CallAppend(h, g) ==
    /\ {h, g} \subseteq Live
    /\ str[h].used + str[g].used <= MaxUsed
    /\ Returns("append", h, <<g>>, str_append(str[h], str[g], h = g))

CallAppendChar(h, ch) ==
    /\ h \in Live
    /\ str[h].used < MaxUsed
    /\ Returns("append_char", h, <<ch>>, str_append_char(str[h], ch))

CallSubstr(h, g, start, len) ==
    /\ {h, g} \subseteq Live
    /\ Returns("substr", h, <<g, start, len>>, str_substr(str[h], str[g], start, len, h = g))

Next == /\ ~lost
        /\ \E h \in Handles :
              \/ \E n \in Index : CallCreate(h, n)
              \/ \E cs \in CStrings : CallCreateCstring(h, cs) \/ CallCopyCstring(h, cs)
              \/ \E g \in Handles : CallCopyNew(h, g) \/ CallCopy(h, g) \/ CallAppend(h, g)
              \/ \E g \in Handles : \E start, len \in Index : CallSubstr(h, g, start, len)
              \/ \E ch \in Char : CallAppendChar(h, ch)

Spec == Init /\ [][Next]_vars

----------------------------------------------------------------------------
(* Correctness *)

\* What is stored for a string that ends with a NUL, and what C reads of it.
Terminated(v) == v.used > 0 /\ v.cells[v.used - 1] = NUL

Text(v) == LET ends == {k \in 0 .. v.used - 1 : v.cells[k] = NUL}
               end  == CHOOSE k \in ends : \A j \in ends : k <= j
           IN  SubSeq(Contents(v), 1, end)

AllTerminated == \A h \in Live : Terminated(str[h])

\* A string keeps its NUL through every call that returns ok, unless it is
\* given itself to append or to take a part of; and only the functions that
\* append a character can lose it by running out of memory.
NulIsKept ==
    [][AllTerminated /\ ~lost' /\ ~AllTerminated' =>
          \/ call'.fn \in {"append_char", "substr"} /\ call'.ret = "ENOMEM"
          \/ call'.fn \in {"append", "substr"} /\ call'.args[1] = call'.on]_vars

\* What a string function that succeeds leaves in the string, as C reads it.
Expected(fn, h, args) ==
    CASE fn = "Create"       -> <<>>
      [] fn = "copy_cstring" -> args[1]
      [] fn = "copy"         -> Text(str[args[1]])
      [] fn = "append"       -> Text(str[h]) \o Text(str[args[1]])
      [] fn = "append_char"  -> Append(Text(str[h]), args[1])
      [] fn = "substr"       ->
            LET s == Text(str[args[1]])
            IN  SubSeq(s, args[2] + 1, IF args[2] + args[3] > Len(s) THEN Len(s)
                                       ELSE args[2] + args[3])

\* Whatever was stored in the blocks before, the functions copy, join and cut
\* the strings that C reads; the other strings stay as they are.
StringsAreJoined ==
    [][AllTerminated /\ ~lost' /\ AllTerminated' /\ call'.ret = "ok" =>
          \A h \in Live' : Text(str'[h]) = IF h = call'.on
                                           THEN Expected(call'.fn, h, call'.args)
                                           ELSE Text(str[h])]_vars

\* "so we must allocate at least length+1 / Hence length == used - 1": what is
\* stored for a string lies within the size its charvec asked malloc for.
AllocatesLengthPlusOne == \A h \in Live : str[h].used <= str[h].size
=============================================================================
