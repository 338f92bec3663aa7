------------------------------- MODULE Search -------------------------------
(* The functions of charvec.c and pointervec.c that read an element, compare  *)
(* vectors and look for an element or for a part, and those of str.c and      *)
(* strvec.c made of them.  They change nothing: the result of one is the set  *)
(* of the values it may return, more than one when it depends on memory       *)
(* outside a block.  Here a program calls one of them on two vectors it has.  *)
EXTENDS VectorOps, FiniteSetsExt

CONSTANTS Vectors,    \* the vectors that the program may have
          NUL,        \* what ends a string
          IntRange    \* how many values an int has

VARIABLES ref, seg, \* two of them
          call      \* the call just made and its result

vars == <<ref, seg, call>>

\* Elements are numbers: addresses, or characters, which have a sign; and lengths
\* are of size_t.
ASSUME SearchAssumption == /\ Val \subseteq Int
                           /\ \A v \in Vectors : IsVector(v) /\ v.used < WordSize
                           /\ IntRange \in Nat \ {0}

----------------------------------------------------------------------------
(* Comparing *)

Wrapped(n) == n % WordSize
SIZE_MAX   == WordSize - 1

\* The difference of two elements, which of pointers is cut down to an int.
Minus(v, x, y) ==
    IF v.of = "char" THEN x - y
    ELSE ((x - y + IntRange \div 2) % IntRange) - IntRange \div 2

\* Mutant of Difference: the last elements are not looked at.
DifferenceButLast(r, roff, s, soff, len) ==
    LET differ == {k \in 0 .. Min({len - 1, Usable(r.size) - roff, Usable(s.size) - soff}) - 1 :
                      Minus(r, r.cells[roff + k], s.cells[soff + k]) # 0}
    IN  {IF differ = {} THEN 0
         ELSE Minus(r, r.cells[roff + Min(differ)], s.cells[soff + Min(differ)])}

\* The loop of compare_offset_n: the difference of the first two elements that
\* differ, which may lie outside the blocks.
Difference(r, roff, s, soff, len) ==
    LET known  == Min({len, Usable(r.size) - roff, Usable(s.size) - soff})
        differ == {k \in 0 .. known - 1 : Minus(r, r.cells[roff + k], s.cells[soff + k]) # 0}
    IN  IF differ # {}
        THEN {Minus(r, r.cells[roff + Min(differ)], s.cells[soff + Min(differ)])}
        ELSE IF known = len THEN {0} ELSE {Minus(r, x, y) : x, y \in Val}

\* roff + len and soff + len are unsigned.  If the one or the other ends
\* first, the elements after that end decide.
compare_offset_n(r, roff, s, soff, len) ==
    IF Wrapped(roff + len) <= r.used /\ Wrapped(soff + len) <= s.used
    THEN Difference(r, roff, s, soff, len)
    ELSE IF roff > r.used THEN {-1}
    ELSE IF soff > s.used THEN {1}
    ELSE Difference(r, roff, s, soff, 1 + Min({len, r.used - roff, s.used - soff}))

charvec_compare_n(r, s, len) == compare_offset_n(r, 0, s, 0, len)
charvec_compare(r, s)        == charvec_compare_n(r, s, SIZE_MAX)

\* Mutant of str_length: the NUL is counted.
str_length_with_nul(s) == s.used

\* length == used - 1
str_length(s)     == s.used - 1
str_compare(r, s) == charvec_compare_n(r, s, str_length(s))

----------------------------------------------------------------------------
(* Reading and finding *)

\* The element, or the default and EDOM.
charvec_get(r, i) == {IF i < r.used THEN <<"ok", r.cells[i]>> ELSE <<"EDOM", Default>>}

\* The loop stops at the first i for which found(i) contains only TRUE, and may
\* stop before at one for which it contains TRUE.
FirstOf(positions, found(_)) ==
    LET certain  == {i \in positions : found(i) = {TRUE}}
        possible == {i \in positions : TRUE \in found(i) /\ \A j \in certain : i <= j}
    IN  possible \cup IF certain = {} THEN {-1} ELSE {}

charvec_find(r, x) == FirstOf(0 .. r.used - 1, LAMBDA i : {r.cells[i] = x})

charvec_find_last(r, x) ==
    LET at == {i \in 0 .. r.used - 1 : r.cells[i] = x}
    IN  {IF at = {} THEN -1 ELSE Max(at)}

\* Mutant of charvec_find_vec_n: the element after the part is compared too.
find_vec_n_beyond(r, s, n) ==
    LET len == Min({n, s.used}) IN
    FirstOf(0 .. r.used - len - 1,
            LAMBDA i : IF s.cells[0] # r.cells[i] THEN {FALSE}
                       ELSE {d = 0 : d \in compare_offset_n(r, i + 1, s, 1, len)})

\* Mutant of charvec_find_vec_n: the part is compared from its start.
find_vec_n_from_start(r, s, n) ==
    LET len == Min({n, s.used}) IN
    FirstOf(0 .. r.used - len - 1,
            LAMBDA i : IF s.cells[0] # r.cells[i] THEN {FALSE}
                       ELSE {d = 0 : d \in compare_offset_n(r, i + 1, s, 0, Wrapped(len - 1))})

\* while (i != j), with j the last position at which the part fits: it is not
\* tried.  If len is 0 then len-1 is SIZE_MAX.
charvec_find_vec_n(r, s, n) ==
    LET len == Min({n, s.used}) IN
    FirstOf(0 .. r.used - len - 1,
            LAMBDA i : IF s.cells[0] # r.cells[i] THEN {FALSE}
                       ELSE {d = 0 : d \in compare_offset_n(r, i + 1, s, 1, Wrapped(len - 1))})

charvec_find_vec(r, s) == charvec_find_vec_n(r, s, s.used)

str_findstr(r, s)   == charvec_find_vec_n(r, s, str_length(s))
str_findchar(s, c)  == charvec_find(s, c)
str_findrchar(s, c) == charvec_find_last(s, c)

\* The strings of vec are compared with x as str_compare does.
strvec_find(vec, x) ==
    FirstOf(0 .. Len(vec) - 1, LAMBDA i : {d = 0 : d \in str_compare(vec[i + 1], x)})

\* From the end on.
strvec_find_last(vec, x) ==
    LET from == FirstOf(0 .. Len(vec) - 1,
                        LAMBDA i : {d = 0 : d \in str_compare(vec[Len(vec) - i], x)})
    IN  {IF i = -1 THEN -1 ELSE Len(vec) - 1 - i : i \in from}

----------------------------------------------------------------------------
(* The program *)

Terminated(v) == v.used > 0 /\ v.cells[v.used - 1] = NUL
IsString(v)   == v.of = "char" /\ Terminated(v) /\ \A k \in 0 .. v.used - 2 : v.cells[k] # NUL

Init == /\ ref \in Vectors
        /\ seg \in {v \in Vectors : v.of = ref.of}
        /\ call = [fn |-> "none", arg |-> 0, ret |-> 0]

Returns(fn, arg, results) == /\ \E ret \in results : call' = [fn |-> fn, arg |-> arg, ret |-> ret]
                             /\ UNCHANGED <<ref, seg>>

CallGet      == \E i \in 0 .. 4 : Returns("get", i, charvec_get(ref, i))
CallCompareN == \E n \in 0 .. 4 : Returns("compare_n", n, charvec_compare_n(ref, seg, n))
CallCompare  == Returns("compare", 0, charvec_compare(ref, seg))
CallFindVecN == \E n \in 0 .. 4 : Returns("find_vec_n", n, charvec_find_vec_n(ref, seg, n))
CallFindVec  == Returns("find_vec", 0, charvec_find_vec(ref, seg))
CallFind     == \E x \in Val : Returns("find", x, charvec_find(ref, x))
CallFindLast == \E x \in Val : Returns("find_last", x, charvec_find_last(ref, x))

Vector == \/ CallGet \/ CallCompareN \/ CallCompare
          \/ CallFindVecN \/ CallFindVec \/ CallFind \/ CallFindLast

String == /\ IsString(ref) /\ IsString(seg)
          /\ \/ Returns("str_compare", 0, str_compare(ref, seg))
             \/ Returns("findstr", 0, str_findstr(ref, seg))
             \/ \E c \in Val : Returns("findchar", c, str_findchar(ref, c))
             \/ \E c \in Val : Returns("findrchar", c, str_findrchar(ref, c))
             \/ Returns("strvec_find", 0, strvec_find(<<ref, seg, ref>>, seg))
             \/ Returns("strvec_find_last", 0, strvec_find_last(<<ref, seg, ref>>, seg))

Next == call.fn = "none" /\ (Vector \/ String)

Spec == Init /\ [][Next]_vars

----------------------------------------------------------------------------
(* Correctness *)

Text(v) == SubSeq(Contents(v), 1, str_length(v))

Occurs(part, whole, i) == /\ i + Len(part) <= Len(whole)
                          /\ SubSeq(whole, i + 1, i + Len(part)) = part

FirstAmong(at) == IF at = {} THEN -1 ELSE Min(at)

\* str_compare is C's strncmp of as many characters as the second string has,
\* whatever lies behind the strings: the second is a prefix of the first, or
\* the first character that differs decides, which may be the NUL of the first.
\* It decides as a number with a sign, which strncmp's have not.
StrCompareIsStrncmp ==
    call.fn = "str_compare" =>
        LET p == SubSeq(Contents(seg), 1, seg.used - 1)
        IN  /\ call.ret = 0 <=> Occurs(p, Text(ref), 0)
            /\ call.ret < 0 <=> \E k \in 1 .. Min({Len(p), ref.used}) :
                                   /\ Occurs(SubSeq(p, 1, k - 1), Contents(ref), 0)
                                   /\ Contents(ref)[k] < p[k]

\* str_findstr finds the first place of a string that is not empty, although
\* charvec_find_vec_n leaves out the last place: there the NUL is; as C's do,
\* str_findchar and str_findrchar find the NUL too; and strvec_find and
\* strvec_find_last find the first and the last string that begins with the
\* given one.
FindstrIsStrstr ==
    LET prefix    == Occurs(Text(seg), Text(ref), 0)
        places(c) == {i \in 0 .. ref.used - 1 : Occurs(<<c>>, Append(Text(ref), NUL), i)}
    IN  /\ call.fn = "findstr" /\ Text(seg) # <<>> =>
              call.ret = FirstAmong({i \in 0 .. ref.used : Occurs(Text(seg), Text(ref), i)})
        /\ call.fn = "findchar"  => call.ret = FirstAmong(places(call.arg))
        /\ call.fn = "findrchar" => call.ret = Max(places(call.arg) \cup {-1})
        /\ call.fn = "strvec_find"      => call.ret = IF prefix THEN 0 ELSE 1
        /\ call.fn = "strvec_find_last" => call.ret = IF prefix THEN 2 ELSE 1

\* A part of characters that is found is there, and is not there before.  One
\* that is not found is not there, but for the last place where it fits.
FindVecFindsFirst ==
    ref.of = "char" /\ call.fn \in {"find_vec_n", "find_vec"} =>
        LET n    == IF call.fn = "find_vec" THEN seg.used ELSE Min({call.arg, seg.used})
            part == SubSeq(Contents(seg), 1, n)
            at   == {i \in 0 .. ref.used - Len(part) - 1 : Occurs(part, Contents(ref), i)}
        IN  part # <<>> => call.ret = FirstAmong(at)

\* As far as both have elements, vectors of characters compare as equal just if
\* they are, whatever lies behind; vectors of pointers also if their elements
\* differ by multiples of the range of an int.  compare, which asks for all
\* there are and looks behind them, does not miss a difference before.
OnlyEqualCompareEqual ==
    LET alike(k) == IF ref.of = "char" THEN Contents(ref)[k] = Contents(seg)[k]
                    ELSE (Contents(ref)[k] - Contents(seg)[k]) % IntRange = 0
        both     == Min({ref.used, seg.used})
    IN  /\ call.fn = "compare_n" /\ call.arg <= both =>
              (call.ret = 0 <=> \A k \in 1 .. call.arg : alike(k))
        /\ call.fn = "compare" /\ call.ret = 0 => \A k \in 1 .. both : alike(k)
=============================================================================
