---------------------------- MODULE Strvec_proofs ----------------------------
(* Building two lists of strings and running a program with them, for any     *)
(* strings, environment, memory that malloc adds, size policy and bound.      *)
EXTENDS Strvec, VectorOps_proofs

\* A list as the functions leave one.
Fine(v) == /\ IsVector(v) /\ v.of = "pointer"
           /\ v.used <= v.size /\ v.used <= MaxUsed
           /\ v.size \in Sizes

Sound(v) == v = NULL \/ Fine(v)

\* A list without a null.
Full(v) == v = NULL \/ Contents(v) \in Seq(Strings)

\* The inductive invariant: that the block of a list has room for what is in
\* use is what makes append and append_n stay within it.
IInv == /\ list \in [Lists -> {list[l] : l \in Lists}]
        /\ \A l \in Lists : Sound(list[l])
        /\ x \in Val
        /\ holes \in BOOLEAN
        /\ ~holes => (\A l \in Lists : Full(list[l])) /\ lost # "null"
        /\ RunsWithWholeLists

----------------------------------------------------------------------------
(* One call *)

\* An outcome of a function on a list v that can come of it.  clean: no null is
\* in a list, and the function puts none into one.
Good(o, v, clean) ==
    \/ o.ret # "ok" /\ o.vec = v
    \/ o.ret = "ok" /\ Sound(o.vec) /\ (clean => Full(o.vec))
    \/ o.ret = "ok" /\ o.vec = LOST

\* NULL and LOST are no lists.
LEMMA SoundIsNotLost == ASSUME NEW v, Sound(v) PROVE v # LOST
<1>1. CASE v = NULL
  BY <1>1, VectorAssumption
<1>2. CASE Fine(v)
  <2>1. v \in VectorsOf(v.size) /\ v.size \in Sizes
    BY <1>2 DEF Fine, IsVector
  <2> QED BY <2>1, StrvecAssumption
<1> QED BY <1>1, <1>2 DEF Sound

LEMMA FineIsList == ASSUME NEW v, Fine(v) PROVE v # NULL /\ v # LOST
<1>1. v \in VectorsOf(v.size) /\ v.size \in Sizes
  BY DEF Fine, IsVector
<1> QED BY <1>1, StrvecAssumption

\* A step keeps the invariant, and the lists unless it returns ok.
Kept == IInv' /\ (ret' # "ok" => list' = list)

\* Good outcomes do.
LEMMA ReturnsGood ==
    ASSUME IInv, Runs, NEW l \in Lists, NEW outcomes, NEW hole \in BOOLEAN,
           Returns(l, outcomes, hole),
           \A o \in outcomes : Good(o, list[l], ~holes /\ ~hole)
    PROVE  Kept
<1>1. PICK o \in outcomes :
         /\ ret' = o.ret
         /\ \/ o.vec = LOST /\ lost' = "memory" /\ UNCHANGED <<list, holes>>
            \/ /\ o.vec # LOST
               /\ list' = [list EXCEPT ![l] = o.vec]
               /\ holes' = (holes \/ (hole /\ o.ret = "ok"))
               /\ UNCHANGED lost
         /\ UNCHANGED <<x, ran>>
  BY DEF Returns
<1>2. ran = NULL /\ ran' = NULL /\ x' = x /\ RunsWithWholeLists'
  BY <1>1 DEF Runs, RunsWithWholeLists
<1>3. Sound(list[l]) /\ list[l] # LOST
  BY SoundIsNotLost DEF IInv
<1>4. CASE o.vec = LOST
  <2>1. lost' = "memory" /\ list' = list /\ holes' = holes
    BY <1>1, <1>4
  <2>2. o.ret = "ok"
    BY <1>3, <1>4 DEF Good
  <2>3. IInv'
    BY <1>2, <2>1 DEF IInv
  <2> QED BY <1>1, <2>2, <2>3 DEF Kept
<1>5. CASE o.vec # LOST /\ o.ret # "ok"
  <2>1. o.vec = list[l]
    BY <1>5 DEF Good
  <2>2. list' = list /\ holes' = holes /\ lost' = lost
    BY <1>1, <1>5, <2>1 DEF IInv
  <2>3. IInv'
    BY <1>2, <2>2 DEF IInv
  <2> QED BY <2>2, <2>3 DEF Kept
<1>6. CASE o.vec # LOST /\ o.ret = "ok"
  <2> DEFINE v == o.vec
  <2>1. list' = [list EXCEPT ![l] = v] /\ holes' = (holes \/ hole) /\ lost' = lost
    BY <1>1, <1>6
  <2>2. Sound(v) /\ (~holes /\ ~hole => Full(v))
    BY <1>6 DEF Good
  <2> HIDE DEF v
  <2>3. /\ \A k \in Lists : list'[k] = IF k = l THEN v ELSE list[k]
        /\ list' = [k \in Lists |-> list'[k]]
    BY <2>1 DEF IInv
  <2>4. \A k \in Lists : Sound(list'[k])
    BY <2>2, <2>3 DEF IInv
  <2>5. list' \in [Lists -> {list'[k] : k \in Lists}]
    BY <2>3
  <2>6. holes' \in BOOLEAN
    BY <2>1 DEF IInv
  <2>7. ~holes' => (\A k \in Lists : Full(list'[k])) /\ lost' # "null"
    BY <2>1, <2>2, <2>3 DEF IInv
  <2>8. IInv'
    BY <1>2, <2>4, <2>5, <2>6, <2>7 DEF IInv
  <2> QED BY <1>1, <1>6, <2>8 DEF Kept
<1> QED BY <1>4, <1>5, <1>6

----------------------------------------------------------------------------
(* Sequences of strings *)

\* Neither a part of a sequence of strings ...
LEMMA PartFull ==
    ASSUME NEW s \in Seq(Strings), NEW m \in Nat, NEW n \in 0 .. Len(s)
    PROVE  /\ SubSeq(s, m + 1, n) \in Seq(Strings)
           /\ Len(SubSeq(s, m + 1, n)) = IF m < n THEN n - m ELSE 0
<1>1. Len(s) \in Nat
  BY LenProperties
<1>2. m + 1 \in Int /\ n \in Int /\ m \in Int
  BY <1>1
<1>3. \A k \in m + 1 .. n : s[k] \in Strings
  <2> SUFFICES ASSUME NEW k \in m + 1 .. n PROVE s[k] \in Strings
    OBVIOUS
  <2>1. k \in 1 .. Len(s)
    BY <1>1, <1>2
  <2> QED BY <2>1, ElementOfSeq
<1>4. /\ SubSeq(s, m + 1, n) \in Seq(Strings)
      /\ Len(SubSeq(s, m + 1, n)) = IF m + 1 <= n THEN n - (m + 1) + 1 ELSE 0
  BY <1>2, <1>3, SubSeqProperties
<1> QED BY <1>1, <1>2, <1>4

\* ... nor one with another behind it has a null.
LEMMA JoinedFull ==
    ASSUME NEW s \in Seq(Strings), NEW t \in Seq(Strings)
    PROVE  s \o t \in Seq(Strings) /\ Len(s \o t) = Len(s) + Len(t)
BY ConcatProperties, Zenon

LEMMA OneFull == ASSUME NEW y \in Strings
                 PROVE  <<y>> \in Seq(Strings) /\ Len(<<y>>) = 1
OBVIOUS

\* Setting, inserting and removing an element within a sequence or next to its
\* end leave no null in it.
LEMMA ReplacedFull ==
    ASSUME NEW s \in Seq(Strings), NEW i \in 0 .. Len(s), NEW y \in Strings
    PROVE  Replaced(s, i, y) \in Seq(Strings) /\ Inserted(s, i, y) \in Seq(Strings)
<1>1. Len(s) \in Nat
  BY LenProperties
<1>2. CASE i < Len(s)
  <2>1. i + 1 \in 1 .. Len(s) /\ i \in 0 .. Len(s) /\ Len(s) \in 0 .. Len(s)
    BY <1>1, <1>2
  <2>2. [s EXCEPT ![i + 1] = y] \in Seq(Strings)
    BY <2>1, ExceptSeq
  <2>3. SubSeq(s, i + 1, Len(s)) \in Seq(Strings)
    BY <1>1, <2>1, PartFull
  <2>4. SubSeq(s, 1, i) \in Seq(Strings)
    <3>1. SubSeq(s, 0 + 1, i) \in Seq(Strings)
      BY <2>1, PartFull
    <3> QED BY <3>1
  <2>5. SubSeq(s, 1, i) \o <<y>> \in Seq(Strings)
    BY <2>4, OneFull, JoinedFull, Zenon
  <2>6. SubSeq(s, 1, i) \o <<y>> \o SubSeq(s, i + 1, Len(s)) \in Seq(Strings)
    BY <2>3, <2>5, JoinedFull, Zenon
  <2> QED BY <1>2, <2>2, <2>6 DEF Replaced, Inserted
<1>3. CASE ~(i < Len(s))
  <2>1. i - Len(s) = 0
    BY <1>1, <1>3
  <2>2. Fill(0) = <<>>
    BY DEF Fill
  <2>3. <<>> \in Seq(Strings)
    OBVIOUS
  <2>4. s \o <<>> \in Seq(Strings)
    BY <2>3, JoinedFull, Zenon
  <2>5. s \o <<>> \o <<y>> \in Seq(Strings)
    BY <2>4, OneFull, JoinedFull, Zenon
  <2> QED BY <1>3, <2>1, <2>2, <2>5 DEF Replaced, Inserted
<1> QED BY <1>2, <1>3

LEMMA RemovedFull ==
    ASSUME NEW s \in Seq(Strings), NEW i \in 0 .. Len(s) - 1
    PROVE  Removed(s, i) \in Seq(Strings)
<1>1. Len(s) \in Nat /\ i \in Nat /\ i \in 0 .. Len(s) /\ Len(s) \in 0 .. Len(s)
  BY LenProperties
<1>2. SubSeq(s, (i + 1) + 1, Len(s)) \in Seq(Strings)
  BY <1>1, PartFull
<1>3. SubSeq(s, 0 + 1, i) \in Seq(Strings)
  BY <1>1, PartFull
<1>4. (i + 1) + 1 = i + 2 /\ 0 + 1 = 1
  BY <1>1
<1>5. SubSeq(s, 1, i) \in Seq(Strings) /\ SubSeq(s, i + 2, Len(s)) \in Seq(Strings)
  BY <1>2, <1>3, <1>4
<1> QED BY <1>5, JoinedFull, Zenon DEF Removed

LEMMA SlicedFull ==
    ASSUME NEW s \in Seq(Strings), NEW start \in Nat, NEW len \in Nat
    PROVE  Sliced(s, start, len) \in Seq(Strings)
<1> DEFINE stop == IF start + len > Len(s) THEN Len(s) ELSE start + len
<1>1. Len(s) \in Nat
  BY LenProperties
<1>2. stop \in 0 .. Len(s)
  BY <1>1
<1> HIDE DEF stop
<1>3. SubSeq(s, start + 1, stop) \in Seq(Strings)
  BY <1>2, PartFull
<1> QED BY <1>3 DEF stop, Sliced

\* Strings are elements.
LEMMA StringsAreElements == ASSUME NEW s \in Seq(Strings) PROVE s \in Seq(Val)
<1>1. Len(s) \in Nat /\ s \in [1 .. Len(s) -> Strings]
  BY LenProperties
<1>2. s \in [1 .. Len(s) -> Val]
  BY <1>1 DEF Strings
<1> QED BY <1>1, <1>2

----------------------------------------------------------------------------
(* Outcomes *)

\* What functions make of a list is one whose block has room for it.
LEMMA BecomesFine ==
    ASSUME NEW v, Fine(v), NEW request \in 0 .. MaxUsed, NEW seq, Len(seq) <= MaxUsed,
           NEW u, Became(u, v, request, seq)
    PROVE  Fine(u) /\ Contents(u) = seq
BY DEF Fine, Became, Sizes

LEMMA DoesGood ==
    ASSUME NEW v, Fine(v), NEW request \in 0 .. MaxUsed, NEW seq, Len(seq) <= MaxUsed,
           NEW overrun, NEW clean, clean => seq \in Seq(Strings),
           NEW o, Does(o, v, request, seq, overrun)
    PROVE  Good(o, v, clean)
<1>1. CASE o = Outcome("ENOMEM", v)
  BY <1>1 DEF Good, Outcome
<1>2. CASE o.ret = "ok" /\ Became(o.vec, v, request, seq)
  BY <1>2, BecomesFine DEF Good, Sound, Full
<1>3. CASE o = Outcome("ok", LOST) /\ overrun
  BY <1>3 DEF Good, Outcome
<1> QED BY <1>1, <1>2, <1>3 DEF Does

LEMMA InPlaceGood ==
    ASSUME NEW v, Fine(v), NEW seq, Len(seq) <= MaxUsed,
           NEW clean, NEW o, (clean /\ o.ret = "ok") => seq \in Seq(Strings),
           DoesInPlace(o, v, seq)
    PROVE  Good(o, v, clean)
<1>1. CASE o = Outcome("EDOM", v)
  BY <1>1 DEF Good, Outcome
<1>2. CASE o.ret = "ok" /\ Became(o.vec, v, 0, seq)
  <2>1. 0 \in 0 .. MaxUsed
    BY StrvecAssumption, PolicySizeAssumption
  <2> QED BY <1>2, <2>1, BecomesFine DEF Good, Sound, Full
<1> QED BY <1>1, <1>2 DEF DoesInPlace

\* What is known of a list that is used.
LEMMA LiveFine ==
    ASSUME IInv, NEW l \in Lists, Live(l)
    PROVE  /\ Runs /\ Fine(list[l]) /\ IsVector(list[l]) /\ list[l].of = "pointer"
           /\ list[l].used \in 0 .. MaxUsed /\ list[l].used < WordSize
           /\ Contents(list[l]) \in Seq(Val) /\ Len(Contents(list[l])) = list[l].used
           /\ ~holes => Contents(list[l]) \in Seq(Strings)
<1>1. Runs /\ Fine(list[l]) /\ IsVector(list[l]) /\ list[l].of = "pointer"
  BY DEF IInv, Live, Sound, Fine
<1>2. list[l].used \in Nat /\ list[l].used <= MaxUsed
  BY <1>1, VectorParts, UsableType DEF Fine
<1>3. ~holes => Contents(list[l]) \in Seq(Strings)
  BY DEF IInv, Live, Full
<1> QED BY <1>1, <1>2, <1>3, ContentsType, StrvecAssumption, PolicySizeAssumption

----------------------------------------------------------------------------
(* The calls *)

\* Creating an empty list or one with elements.
LEMMA CreateGood ==
    ASSUME NEW v, Sound(v), NEW n \in 0 .. MaxUsed, NEW o \in Assigned(v, Create("pointer", n)), NEW clean
    PROVE  Good(o, v, clean)
<1>1. PICK c \in Create("pointer", n) : o = IF c.ret = "ok" THEN c ELSE Outcome(c.ret, v)
  BY DEF Assigned
<1>2. n \in 0 .. WordSize - 1 /\ "pointer" \in Type
  BY StrvecAssumption, PolicySizeAssumption DEF Type
<1>3. CASE c = Outcome("ENOMEM", NULL)
  BY <1>1, <1>3 DEF Outcome, Good
<1>4. CASE c.ret = "ok" /\ Became(c.vec, Empty("pointer"), n, <<>>)
  <2>1. Fine(Empty("pointer")) /\ Len(<<>>) <= MaxUsed /\ <<>> \in Seq(Strings)
    BY <1>2, EmptyVector, StrvecAssumption DEF Fine, Sizes
  <2>2. Fine(c.vec) /\ Contents(c.vec) = <<>>
    BY <1>4, <2>1, BecomesFine
  <2> QED BY <1>1, <1>4, <2>1, <2>2 DEF Good, Sound, Full
<1> QED BY <1>2, <1>3, <1>4, CreateDoes

LEMMA CreateFromGood ==
    ASSUME NEW v, Sound(v), NEW xs \in Seq(Val), Len(xs) <= MaxUsed,
           NEW o \in Assigned(v, CreateFrom("pointer", xs)),
           NEW clean, clean => xs \in Seq(Strings)
    PROVE  Good(o, v, clean)
<1>1. PICK c \in CreateFrom("pointer", xs) : o = IF c.ret = "ok" THEN c ELSE Outcome(c.ret, v)
  BY DEF Assigned
<1>2. Len(xs) < WordSize /\ Len(xs) \in 0 .. MaxUsed /\ "pointer" \in Type
  BY LenProperties, StrvecAssumption, PolicySizeAssumption DEF Type
<1>3. CASE c = Outcome("ENOMEM", NULL)
  BY <1>1, <1>3 DEF Outcome, Good
<1>4. CASE c.ret = "ok" /\ Became(c.vec, Empty("pointer"), Len(xs), xs)
  <2>1. Fine(Empty("pointer"))
    BY <1>2, EmptyVector, StrvecAssumption DEF Fine, Sizes
  <2>2. Fine(c.vec) /\ Contents(c.vec) = xs
    BY <1>2, <1>4, <2>1, BecomesFine
  <2> QED BY <1>1, <1>4, <2>2 DEF Good, Sound, Full
<1> QED BY <1>2, <1>3, <1>4, CreateFromDoes

LEMMA CreateKept == ASSUME IInv, NEW l \in Lists, CallCreate(l) PROVE Kept
<1>1. Runs /\ Returns(l, Assigned(list[l], Create("pointer", 0)), FALSE)
  BY DEF CallCreate
<1>2. Sound(list[l]) /\ 0 \in 0 .. MaxUsed
  BY StrvecAssumption, PolicySizeAssumption DEF IInv
<1>3. \A o \in Assigned(list[l], Create("pointer", 0)) : Good(o, list[l], ~holes /\ ~FALSE)
  BY <1>2, CreateGood
<1> QED BY <1>1, <1>3, ReturnsGood

LEMMA DeleteKept == ASSUME IInv, NEW l \in Lists, CallDelete(l) PROVE Kept
<1> DEFINE outcomes == {Outcome("ok", NULL)}
<1>1. Runs /\ Returns(l, outcomes, FALSE)
  BY DEF CallDelete
<1>2. \A o \in outcomes : Good(o, list[l], ~holes /\ ~FALSE)
  BY DEF Outcome, Good, Sound, Full
<1> HIDE DEF outcomes
<1> QED BY <1>1, <1>2, ReturnsGood

LEMMA CopyNewKept == ASSUME IInv, CallCopyNew PROVE Kept
<1> DEFINE xs == Contents(list["args"])
           outcomes == Assigned(list["env"], CreateFrom("pointer", xs))
<1>1. Live("args") /\ Returns("env", outcomes, FALSE)
  BY DEF CallCopyNew
<1>2. {"args", "env"} \subseteq Lists /\ Sound(list["env"])
  BY DEF Lists, IInv
<1>3. xs \in Seq(Val) /\ Len(xs) <= MaxUsed /\ Runs /\ (~holes => xs \in Seq(Strings))
  BY <1>1, <1>2, LiveFine, StrvecAssumption
<1> HIDE DEF xs
<1>4. \A o \in outcomes : Good(o, list["env"], ~holes /\ ~FALSE)
  BY <1>2, <1>3, CreateFromGood
<1> HIDE DEF outcomes
<1> QED BY <1>1, <1>2, <1>3, <1>4, ReturnsGood

\* Copying elements to a list.
LEMMA CopyFromGood ==
    ASSUME NEW v, Fine(v), NEW xs \in Seq(Val), Len(xs) <= MaxUsed, NEW o \in CopyFrom(v, xs),
           NEW clean, clean => xs \in Seq(Strings)
    PROVE  Good(o, v, clean)
<1>1. Len(xs) < WordSize /\ Len(xs) \in 0 .. MaxUsed
  BY LenProperties, StrvecAssumption, PolicySizeAssumption
<1>2. Does(o, v, Len(xs), xs, FALSE)
  BY <1>1, CopyFromDoes DEF Fine
<1> QED BY <1>1, <1>2, DoesGood

LEMMA CopyKept == ASSUME IInv, CallCopy PROVE Kept
<1> DEFINE xs == Contents(list["args"])
           outcomes == CopyFrom(list["env"], xs)
<1>1. Live("args") /\ Live("env") /\ Returns("env", outcomes, FALSE)
  BY DEF CallCopy
<1>2. {"args", "env"} \subseteq Lists
  BY DEF Lists
<1>3. /\ xs \in Seq(Val) /\ Len(xs) <= MaxUsed /\ Runs /\ (~holes => xs \in Seq(Strings))
      /\ Fine(list["env"])
  BY <1>1, <1>2, LiveFine, StrvecAssumption
<1> HIDE DEF xs
<1>4. \A o \in outcomes : Good(o, list["env"], ~holes /\ ~FALSE)
  BY <1>3, CopyFromGood
<1> HIDE DEF outcomes
<1> QED BY <1>1, <1>2, <1>3, <1>4, ReturnsGood

\* get changes no list.
LEMMA GetKept == ASSUME IInv, NEW i \in Index, CallGet(i) PROVE Kept
<1>1. /\ Live("args") /\ UNCHANGED <<list, holes, lost, ran>>
      /\ x' = IF i < Used("args") THEN list["args"].cells[i] ELSE Default
  BY DEF CallGet
<1>2. x' \in Val
  <2>1. CASE i < Used("args")
    <3> DEFINE v == list["args"]
    <3>1. "args" \in Lists
      BY DEF Lists
    <3>2. v.used \in Nat /\ i \in Nat /\ i < v.used /\ Contents(v) \in Seq(Val) /\ Len(Contents(v)) = v.used
          /\ IsVector(v)
      BY <1>1, <2>1, <3>1, LiveFine DEF Used, Index
    <3> HIDE DEF v
    <3>3. i + 1 \in 1 .. Len(Contents(v)) /\ i + 1 \in 1 .. v.used /\ (i + 1) - 1 = i
      BY <3>2
    <3>4. Contents(v)[i + 1] \in Val
      BY <3>2, <3>3, ElementOfSeq
    <3>5. Contents(v)[i + 1] = v.cells[i]
      BY <3>2, <3>3, ContentsType
    <3> QED BY <1>1, <2>1, <3>4, <3>5 DEF v
  <2>2. CASE ~(i < Used("args"))
    BY <1>1, <2>2, VectorAssumption
  <2> QED BY <2>1, <2>2
<1>3. IInv'
  BY <1>1, <1>2 DEF IInv, RunsWithWholeLists, Elements
<1> QED BY <1>1, <1>3 DEF Kept

\* Appending one element.
LEMMA AppendOneGood ==
    ASSUME NEW v, Fine(v), v.used \in Nat, v.used < MaxUsed, Len(Contents(v)) = v.used,
           Contents(v) \in Seq(Val), NEW y \in Val, NEW o \in AppendOne(v, y),
           NEW clean, clean => Contents(v) \in Seq(Strings) /\ y \in Strings
    PROVE  Good(o, v, clean)
<1> DEFINE seq == Contents(v) \o <<y>>
           overrun == v.used >= v.size /\ ~AppendGrows(v)
<1>1. v.used + 1 < WordSize /\ v.used + 1 \in 0 .. MaxUsed
  BY StrvecAssumption, PolicySizeAssumption
<1>2. Does(o, v, v.used + 1, seq, overrun)
  BY <1>1, AppendOneDoes DEF Fine
<1>3. Len(seq) = v.used + 1
  <2>1. <<y>> \in Seq(Val) /\ Len(<<y>>) = 1
    OBVIOUS
  <2>2. Len(seq) = Len(Contents(v)) + Len(<<y>>)
    BY <2>1, ConcatProperties, Zenon
  <2> QED BY <2>1, <2>2
<1>4. clean => seq \in Seq(Strings)
  BY OneFull, JoinedFull, Zenon
<1> HIDE DEF seq, overrun
<1>5. Len(seq) <= MaxUsed
  BY <1>1, <1>3
<1> QED BY <1>1, <1>2, <1>4, <1>5, DoesGood

LEMMA AppendKept == ASSUME IInv, CallAppend PROVE Kept
<1> DEFINE v == list["args"]
           outcomes == AppendOne(v, x)
           hole == x = Default
<1>1. Live("args") /\ v.used < MaxUsed /\ Returns("args", outcomes, hole) /\ "args" \in Lists
  BY DEF CallAppend, Used, Lists
<1>2. /\ Runs /\ Fine(v) /\ v.used \in Nat /\ Len(Contents(v)) = v.used /\ Contents(v) \in Seq(Val)
      /\ ~holes => Contents(v) \in Seq(Strings)
  BY <1>1, LiveFine
<1>3. x \in Val /\ (~hole => x \in Strings) /\ hole \in BOOLEAN
  BY DEF IInv, Strings
<1> HIDE DEF v, hole
<1>4. \A o \in outcomes : Good(o, v, ~holes /\ ~hole)
  BY <1>1, <1>2, <1>3, AppendOneGood
<1> HIDE DEF outcomes
<1> QED BY <1>1, <1>2, <1>3, <1>4, ReturnsGood DEF v

LEMMA AppendCstringKept == ASSUME IInv, NEW text \in Strings, CallAppendCstring(text) PROVE Kept
<1> DEFINE v == list["args"]
           outcomes == strvec_append_cstring(v, text)
<1>1. Live("args") /\ v.used < MaxUsed /\ Returns("args", outcomes, FALSE) /\ "args" \in Lists
  BY DEF CallAppendCstring, Used, Lists
<1>2. /\ Runs /\ Fine(v) /\ v.used \in Nat /\ Len(Contents(v)) = v.used /\ Contents(v) \in Seq(Val)
      /\ ~holes => Contents(v) \in Seq(Strings)
  BY <1>1, LiveFine
<1>3. text \in Val
  BY DEF Strings
<1> HIDE DEF v
<1>4. ASSUME NEW o \in outcomes PROVE Good(o, v, ~holes /\ ~FALSE)
  <2>1. CASE o = Outcome("ENOMEM", v)
    BY <2>1 DEF Outcome, Good
  <2>2. CASE o \in AppendOne(v, text)
    BY <1>1, <1>2, <1>3, <2>2, AppendOneGood
  <2> QED BY <1>4, <2>1, <2>2 DEF strvec_append_cstring
<1> HIDE DEF outcomes
<1> QED BY <1>1, <1>2, <1>4, ReturnsGood DEF v

\* Appending several.
LEMMA ConcatenateGood ==
    ASSUME NEW v, Fine(v), v.used \in Nat, Len(Contents(v)) = v.used, Contents(v) \in Seq(Val),
           NEW src, src.used \in Nat, Len(Contents(src)) = src.used, Contents(src) \in Seq(Val),
           v.used + src.used <= MaxUsed, NEW o \in Concatenate(v, src, FALSE),
           NEW clean, clean => Contents(v) \in Seq(Strings) /\ Contents(src) \in Seq(Strings)
    PROVE  Good(o, v, clean)
<1> DEFINE seq == Contents(v) \o Contents(src)
           overrun == FALSE \/ (v.used + src.used > v.size /\ ~AppendNGrows(v, src.used))
<1>1. v.used + src.used < WordSize /\ v.used + src.used \in 0 .. MaxUsed
  BY StrvecAssumption, PolicySizeAssumption
<1>2. Does(o, v, v.used + src.used, seq, overrun)
  BY <1>1, ConcatenateDoes DEF Fine
<1>3. Len(seq) = v.used + src.used
  <2>1. Len(seq) = Len(Contents(v)) + Len(Contents(src))
    BY ConcatProperties, Zenon
  <2> QED BY <2>1
<1>4. clean => seq \in Seq(Strings)
  BY JoinedFull, Zenon
<1> HIDE DEF seq, overrun
<1>5. Len(seq) <= MaxUsed
  BY <1>1, <1>3
<1> QED BY <1>1, <1>2, <1>4, <1>5, DoesGood

LEMMA AppendNKept == ASSUME IInv, NEW s \in Strings, NEW t \in Strings, CallAppendN(<<s, t>>) PROVE Kept
<1> DEFINE v == list["args"]
           strs == <<s, t>>
           src == [used |-> Len(strs), cells |-> [k \in 0 .. Len(strs) - 1 |-> strs[k + 1]]]
           outcomes == Concatenate(v, src, FALSE)
<1>1. /\ Live("args") /\ v.used + Len(strs) <= MaxUsed /\ Returns("args", outcomes, FALSE)
      /\ "args" \in Lists
  BY DEF CallAppendN, Used, Lists
<1>2. /\ Runs /\ Fine(v) /\ v.used \in Nat /\ Len(Contents(v)) = v.used /\ Contents(v) \in Seq(Val)
      /\ ~holes => Contents(v) \in Seq(Strings)
  BY <1>1, LiveFine
<1>3. src.used = 2 /\ src.used \in Nat /\ v.used + src.used <= MaxUsed
  BY <1>1
<1>4. Contents(src) \in Seq(Strings) /\ Len(Contents(src)) = src.used
  <2>1. src.cells[0] = s /\ src.cells[1] = t
    OBVIOUS
  <2> HIDE DEF src
  <2>2. Contents(src) = [k \in 1 .. 2 |-> src.cells[k - 1]]
    BY <1>3 DEF Contents
  <2>3. \A k \in 1 .. 2 : src.cells[k - 1] \in Strings
    BY <2>1
  <2> QED BY <1>3, <2>2, <2>3
<1>5. Contents(src) \in Seq(Val)
  BY <1>4, StringsAreElements
<1> HIDE DEF v, src
<1>6. \A o \in outcomes : Good(o, v, ~holes /\ ~FALSE)
  BY <1>2, <1>3, <1>4, <1>5, ConcatenateGood
<1> HIDE DEF outcomes
<1> QED BY <1>1, <1>2, <1>6, ReturnsGood DEF v

LEMMA ConcatenateKept == ASSUME IInv, CallConcatenate PROVE Kept
<1> DEFINE v == list["args"]
           src == list["env"]
           outcomes == Concatenate(v, src, FALSE)
<1>1. /\ Live("args") /\ Live("env") /\ v.used + src.used <= MaxUsed
      /\ Returns("args", outcomes, FALSE) /\ {"args", "env"} \subseteq Lists
  BY DEF CallConcatenate, Used, Lists
<1>2. /\ Runs /\ Fine(v) /\ v.used \in Nat /\ Len(Contents(v)) = v.used /\ Contents(v) \in Seq(Val)
      /\ ~holes => Contents(v) \in Seq(Strings)
  BY <1>1, LiveFine
<1>3. /\ src.used \in Nat /\ Len(Contents(src)) = src.used /\ Contents(src) \in Seq(Val)
      /\ ~holes => Contents(src) \in Seq(Strings)
  BY <1>1, LiveFine
<1> HIDE DEF v, src
<1>4. \A o \in outcomes : Good(o, v, ~holes /\ ~FALSE)
  BY <1>1, <1>2, <1>3, ConcatenateGood
<1> HIDE DEF outcomes
<1> QED BY <1>1, <1>2, <1>4, ReturnsGood DEF v

\* Setting and inserting an element.
LEMMA ChangeGood ==
    ASSUME NEW v, Fine(v), v.used \in Nat, Len(Contents(v)) = v.used, Contents(v) \in Seq(Val),
           NEW i \in Index, NEW y \in Val, NEW o,
           o \in Replace(v, i, y) \/ (v.used < MaxUsed /\ o \in Insert(v, i, y)),
           NEW clean, clean => Contents(v) \in Seq(Strings) /\ y \in Strings /\ i <= v.used
    PROVE  Good(o, v, clean)
<1> DEFINE s == Contents(v)
           replaced == Replaced(s, i, y)
           inserted == Inserted(s, i, y)
           overrun == i = 0 \/ v.used > v.size
<1>1. i \in Nat /\ i + 1 \in 0 .. MaxUsed /\ i + 1 < WordSize
  BY StrvecAssumption, PolicySizeAssumption DEF Index
<1>2. v.used <= MaxUsed
  BY DEF Fine
<1>3. /\ Len(replaced) = IF i < Len(s) THEN Len(s) ELSE i + 1
      /\ Len(inserted) = IF i < Len(s) THEN Len(s) + 1 ELSE i + 1
  BY <1>1, ChangedType
<1>4. clean => replaced \in Seq(Strings) /\ inserted \in Seq(Strings)
  <2>1. clean => s \in Seq(Strings) /\ i \in 0 .. Len(s) /\ y \in Strings
    BY <1>1
  <2> QED BY <2>1, ReplacedFull
<1>5. CASE o \in Replace(v, i, y)
  <2>1. Does(o, v, i + 1, replaced, FALSE)
    BY <1>1, <1>5, ReplaceDoes DEF Fine
  <2> HIDE DEF replaced
  <2>2. Len(replaced) <= MaxUsed
    BY <1>1, <1>2, <1>3
  <2> QED BY <1>1, <1>4, <2>1, <2>2, DoesGood
<1>6. CASE v.used < MaxUsed /\ o \in Insert(v, i, y)
  <2>1. v.used + 1 < WordSize /\ v.used + 1 \in 0 .. MaxUsed
    BY <1>6, StrvecAssumption, PolicySizeAssumption
  <2>2. PICK request \in {i + 1, v.used + 1} : Does(o, v, request, inserted, overrun)
    BY <1>1, <1>6, <2>1, InsertDoes DEF Fine
  <2>3. request \in 0 .. MaxUsed
    BY <1>1, <2>1, <2>2
  <2> HIDE DEF inserted, overrun
  <2>4. Len(inserted) <= MaxUsed
    BY <1>1, <1>3, <2>1
  <2> QED BY <1>4, <2>2, <2>3, <2>4, DoesGood
<1> QED BY <1>5, <1>6

LEMMA ReplaceInsertKept ==
    ASSUME IInv, NEW i \in Index, CallReplace(i) \/ CallInsert(i)
    PROVE  Kept
<1> DEFINE v == list["args"]
           replace == Replace(v, i, x)
           insert == Insert(v, i, x)
           hole == x = Default \/ i > v.used
<1>1. /\ Live("args") /\ "args" \in Lists
      /\ \/ Returns("args", replace, hole)
         \/ v.used < MaxUsed /\ Returns("args", insert, hole)
  BY DEF CallReplace, CallInsert, Used, Lists
<1>2. /\ Runs /\ Fine(v) /\ v.used \in Nat /\ Len(Contents(v)) = v.used /\ Contents(v) \in Seq(Val)
      /\ ~holes => Contents(v) \in Seq(Strings)
  BY <1>1, LiveFine
<1>3. x \in Val /\ (~hole => x \in Strings /\ i <= v.used) /\ hole \in BOOLEAN
  <2>1. i \in Nat
    BY DEF Index
  <2> QED BY <1>2, <2>1 DEF IInv, Strings
<1> HIDE DEF v, hole
<1>4. \A o \in replace : Good(o, v, ~holes /\ ~hole)
  BY <1>2, <1>3, ChangeGood
<1>5. v.used < MaxUsed => \A o \in insert : Good(o, v, ~holes /\ ~hole)
  BY <1>2, <1>3, ChangeGood
<1> HIDE DEF replace, insert
<1> QED BY <1>1, <1>2, <1>3, <1>4, <1>5, ReturnsGood DEF v

\* Clearing an element that there is puts a null into the list.
LEMMA ClearKept == ASSUME IInv, NEW i \in Index, CallClear(i) PROVE Kept
<1> DEFINE v == list["args"]
           outcomes == Clear(v, i)
           seq == [Contents(v) EXCEPT ![i + 1] = Default]
<1>1. Live("args") /\ "args" \in Lists /\ Returns("args", outcomes, TRUE)
  BY DEF CallClear, Lists
<1>2. /\ Runs /\ Fine(v) /\ IsVector(v) /\ v.used \in 0 .. MaxUsed /\ Len(Contents(v)) = v.used
      /\ Contents(v) \in Seq(Val)
  BY <1>1, LiveFine
<1>3. i \in Nat
  BY DEF Index
<1> HIDE DEF v
<1>4. ASSUME NEW o \in outcomes PROVE Good(o, v, ~holes /\ ~TRUE)
  <2>1. DoesInPlace(o, v, seq) /\ (o.ret = "ok" <=> i < v.used)
    BY <1>2, <1>3, <1>4, ClearDoes
  <2>2. CASE o.ret = "ok"
    <3>1. i \in 0 .. Len(Contents(v)) - 1
      BY <1>2, <1>3, <2>1, <2>2
    <3>2. Len(seq) = Len(Contents(v))
      BY <1>2, <3>1, VectorAssumption, ElementWritten
    <3> HIDE DEF seq
    <3>3. Len(seq) <= MaxUsed
      BY <1>2, <3>2, StrvecAssumption
    <3> QED BY <1>2, <2>1, <3>3, InPlaceGood
  <2>3. CASE o.ret # "ok"
    BY <2>1, <2>3 DEF DoesInPlace, Outcome, Good
  <2> QED BY <2>2, <2>3
<1> HIDE DEF outcomes
<1> QED BY <1>1, <1>2, <1>4, ReturnsGood DEF v

LEMMA RemoveKept == ASSUME IInv, NEW i \in Index, CallRemove(i) PROVE Kept
<1> DEFINE v == list["args"]
           outcomes == Remove(v, i)
           seq == Removed(Contents(v), i)
<1>1. Live("args") /\ "args" \in Lists /\ Returns("args", outcomes, FALSE)
  BY DEF CallRemove, Lists
<1>2. /\ Runs /\ Fine(v) /\ IsVector(v) /\ v.used \in 0 .. MaxUsed /\ Len(Contents(v)) = v.used
      /\ Contents(v) \in Seq(Val) /\ (~holes => Contents(v) \in Seq(Strings))
  BY <1>1, LiveFine
<1>3. i \in Nat
  BY DEF Index
<1> HIDE DEF v
<1>4. ASSUME NEW o \in outcomes PROVE Good(o, v, ~holes /\ ~FALSE)
  <2>1. DoesInPlace(o, v, seq) /\ (o.ret = "ok" <=> i < v.used)
    BY <1>2, <1>3, <1>4, RemoveDoes
  <2>2. CASE o.ret = "ok"
    <3>1. i \in 0 .. Len(Contents(v)) - 1
      BY <1>2, <1>3, <2>1, <2>2
    <3>2. Len(seq) = Len(Contents(v)) - 1
      BY <1>2, <3>1, VectorAssumption, RemovedWritten DEF Removed
    <3>3. ~holes => seq \in Seq(Strings)
      BY <1>2, <3>1, RemovedFull
    <3> HIDE DEF seq
    <3>4. Len(seq) <= MaxUsed
      BY <1>2, <3>2, StrvecAssumption
    <3> QED BY <1>2, <2>1, <3>3, <3>4, InPlaceGood
  <2>3. CASE o.ret # "ok"
    BY <2>1, <2>3 DEF DoesInPlace, Outcome, Good
  <2> QED BY <2>2, <2>3
<1> HIDE DEF outcomes
<1> QED BY <1>1, <1>2, <1>4, ReturnsGood DEF v

LEMMA RemoveLastKept == ASSUME IInv, CallRemoveLast PROVE Kept
<1> DEFINE v == list["args"]
           outcomes == RemoveLast(v)
           seq == SubSeq(Contents(v), 1, Len(Contents(v)) - 1)
<1>1. Live("args") /\ "args" \in Lists /\ Returns("args", outcomes, FALSE)
  BY DEF CallRemoveLast, Lists
<1>2. /\ Runs /\ Fine(v) /\ IsVector(v) /\ v.used \in 0 .. MaxUsed /\ Len(Contents(v)) = v.used
      /\ Contents(v) \in Seq(Val) /\ (~holes => Contents(v) \in Seq(Strings))
  BY <1>1, LiveFine
<1> HIDE DEF v
<1>3. ASSUME NEW o \in outcomes PROVE Good(o, v, ~holes /\ ~FALSE)
  <2>1. DoesInPlace(o, v, seq) /\ (o.ret = "ok" <=> v.used > 0)
    BY <1>2, <1>3, RemoveLastDoes
  <2>2. CASE o.ret = "ok"
    <3> DEFINE n == Len(Contents(v)) - 1
    <3>1. n \in 0 .. Len(Contents(v)) /\ n \in 0 .. MaxUsed /\ Len(Contents(v)) > 0
      BY <1>2, <2>1, <2>2, StrvecAssumption
    <3>2. Len(seq) = n
      BY <1>2, <3>1, VectorAssumption, LastWritten
    <3>3. ~holes => seq \in Seq(Strings)
      <4>1. ~holes => SubSeq(Contents(v), 0 + 1, n) \in Seq(Strings)
        BY <1>2, <3>1, PartFull
      <4> QED BY <4>1
    <3> HIDE DEF seq, n
    <3>4. Len(seq) <= MaxUsed
      BY <3>1, <3>2, StrvecAssumption
    <3> QED BY <1>2, <2>1, <3>3, <3>4, InPlaceGood
  <2>3. CASE o.ret # "ok"
    BY <2>1, <2>3 DEF DoesInPlace, Outcome, Good
  <2> QED BY <2>2, <2>3
<1> HIDE DEF outcomes
<1> QED BY <1>1, <1>2, <1>3, ReturnsGood DEF v

\* Copying a part of args to env.
LEMMA SliceKept ==
    ASSUME IInv, NEW start \in Index, NEW len \in {1, MaxUsed}, CallSlice(start, len)
    PROVE  Kept
<1> DEFINE v == list["env"]
           src == list["args"]
           outcomes == Slice(v, src, start, len, FALSE)
           xs == Sliced(Contents(src), start, len)
           overrun == FALSE /\ v.used > v.size
<1>1. Live("args") /\ Live("env") /\ {"args", "env"} \subseteq Lists /\ Returns("env", outcomes, FALSE)
  BY DEF CallSlice, Lists
<1>2. /\ Runs /\ IsVector(src) /\ src.used \in 0 .. MaxUsed /\ src.used < WordSize
      /\ Contents(src) \in Seq(Val) /\ (~holes => Contents(src) \in Seq(Strings))
  BY <1>1, LiveFine
<1>3. Fine(v) /\ IsVector(v)
  BY <1>1, LiveFine
<1>4. start \in Nat /\ len \in Nat
  BY StrvecAssumption DEF Index
<1> HIDE DEF v, src
<1>5. xs \in Seq(Val) /\ (~holes => xs \in Seq(Strings)) /\ Len(xs) \in Nat
  BY <1>2, <1>4, SlicedType, SlicedFull, LenProperties
<1>6. ASSUME NEW o \in outcomes PROVE Good(o, v, ~holes /\ ~FALSE)
  <2>1. /\ start >= src.used => o = Outcome("ERANGE", v)
        /\ start < src.used => Does(o, v, Len(xs), xs, overrun)
        /\ Len(xs) <= src.used
    BY <1>2, <1>3, <1>4, <1>6, SliceDoes
  <2> HIDE DEF xs, overrun
  <2>2. Len(xs) \in 0 .. MaxUsed /\ Len(xs) <= MaxUsed
    BY <1>2, <1>5, <2>1, StrvecAssumption
  <2>3. CASE start >= src.used
    BY <2>1, <2>3 DEF Outcome, Good
  <2>4. CASE start < src.used
    BY <1>3, <1>5, <2>1, <2>2, <2>4, DoesGood
  <2> QED BY <1>2, <1>4, <2>3, <2>4
<1> HIDE DEF outcomes
<1> QED BY <1>1, <1>2, <1>6, ReturnsGood DEF v

----------------------------------------------------------------------------
(* Running a program *)

\* execve reads all of a sequence of strings that a null follows.
LEMMA ReadWhole == ASSUME NEW s \in Seq(Strings) PROVE Read(Append(s, Default)) = s
<1> DEFINE n == Len(s)
           t == Append(s, Default)
           K == {k \in DOMAIN t : t[k] = Default}
           r == SubSeq(t, 1, n)
<1>1. n \in Nat /\ s \in Seq(Val)
  BY LenProperties, StringsAreElements
<1>2. /\ t \in Seq(Val) /\ Len(t) = n + 1 /\ DOMAIN t = 1 .. n + 1
      /\ \A k \in 1 .. n : t[k] = s[k]
      /\ t[n + 1] = Default
  BY <1>1, VectorAssumption, AppendProperties, LenProperties
<1>3. \A k \in 1 .. n : s[k] \in Strings
  BY ElementOfSeq
<1> HIDE DEF n, t
<1>4. K = {n + 1}
  <2>1. \A k \in 1 .. n + 1 : t[k] = Default <=> k = n + 1
    <3> SUFFICES ASSUME NEW k \in 1 .. n + 1 PROVE t[k] = Default <=> k = n + 1
      OBVIOUS
    <3>1. CASE k = n + 1
      BY <1>2, <3>1
    <3>2. CASE k # n + 1
      <4>1. k \in 1 .. n
        BY <1>1, <3>2
      <4>2. t[k] \in Strings
        BY <1>2, <1>3, <4>1
      <4> QED BY <3>2, <4>2 DEF Strings
    <3> QED BY <3>1, <3>2
  <2>2. n + 1 \in 1 .. n + 1
    BY <1>1
  <2> QED BY <1>2, <2>1, <2>2
<1>5. Min(K) = n + 1
  <2>1. n + 1 \in {n + 1} /\ \A y \in {n + 1} : n + 1 <= y
    BY <1>1
  <2>2. Min({n + 1}) \in {n + 1}
    BY <2>1 DEF Min
  <2> QED BY <1>4, <2>2
<1>6. Read(t) = r
  <2>1. (n + 1) - 1 = n
    BY <1>1
  <2>2. Read(t) = SubSeq(t, 1, Min(K) - 1)
    BY DEF Read
  <2> QED BY <1>5, <2>1, <2>2
<1>7. r = s
  <2>1. \A k \in 1 .. n : t[k] \in Val
    BY <1>2, <1>3 DEF Strings
  <2>2. 1 \in Int /\ n \in Int /\ (IF 1 <= n THEN n - 1 + 1 ELSE 0) = n /\ n - 1 + 1 = n
    BY <1>1
  <2>3. /\ r \in Seq(Val) /\ Len(r) = n
        /\ \A k \in 1 .. n : r[k] = t[1 + k - 1]
    BY <2>1, <2>2, SubSeqProperties
  <2>4. \A k \in 1 .. n : 1 + k - 1 = k
    BY <1>1
  <2>5. \A k \in 1 .. n : r[k] = s[k]
    BY <1>2, <2>3, <2>4
  <2> HIDE DEF r
  <2>6. Len(s) = n
    BY DEF n
  <2> QED BY <1>1, <2>3, <2>5, <2>6, SeqEqual
<1> QED BY <1>6, <1>7 DEF t

LEMMA ReadNone == Read(<<Default>>) = <<>>
<1>1. <<>> \in Seq(Strings) /\ Append(<<>>, Default) = <<Default>>
  OBVIOUS
<1> QED BY <1>1, ReadWhole

\* strvec_argc_argv reads what a null element points to only if there is one,
\* and gives all elements if there is none.
LEMMA ArgvOfList ==
    ASSUME IInv, NEW l \in Lists, Live(l), NEW a \in strvec_argc_argv(list[l])
    PROVE  /\ a.ret = "null" => holes
           /\ a.ret = "ok" => Read(a.argv) = Elements(l)
<1> DEFINE v == list[l]
           null == \E k \in 1 .. v.used : Contents(v)[k] = Default
<1>1. /\ Contents(v) \in Seq(Val) /\ Len(Contents(v)) = v.used /\ v.used \in Nat
      /\ ~holes => Contents(v) \in Seq(Strings)
  BY LiveFine
<1>2. Elements(l) = Contents(v)
  BY DEF Elements, Live
<1>3. a \in strvec_argc_argv(v)
  OBVIOUS
<1> HIDE DEF v
<1>4. ASSUME null, ~holes PROVE FALSE
  <2>1. PICK k \in 1 .. v.used : Contents(v)[k] = Default
    BY <1>4
  <2>2. Contents(v)[k] \in Strings
    BY <1>1, <1>4, <2>1, ElementOfSeq
  <2> QED BY <2>1, <2>2 DEF Strings
<1>5. ASSUME ~null PROVE Contents(v) \in Seq(Strings)
  <2>1. \A k \in 1 .. v.used : Contents(v)[k] \in Strings
    BY <1>1, <1>5, ElementOfSeq DEF Strings
  <2>2. Contents(v) \in [1 .. v.used -> Strings]
    BY <1>1, <2>1, LenProperties
  <2> QED BY <1>1, <2>2
<1>6. a \in {[ret |-> "ENOMEM", argv |-> <<>>]}
        \cup IF null THEN {[ret |-> "null", argv |-> <<>>]}
             ELSE {[ret |-> "ok", argv |-> Append(Contents(v), Default)]}
  BY <1>3 DEF strvec_argc_argv
<1> HIDE DEF null
<1>7. CASE null
  <2>1. a.ret # "ok"
    BY <1>6, <1>7
  <2> QED BY <1>4, <1>7, <2>1
<1>8. CASE ~null
  <2>1. a.ret # "null" /\ (a.ret = "ok" => a.argv = Append(Contents(v), Default))
    BY <1>6, <1>8
  <2>2. Read(Append(Contents(v), Default)) = Contents(v)
    BY <1>5, <1>8, ReadWhole
  <2> QED BY <1>2, <2>1, <2>2
<1> QED BY <1>7, <1>8

\* A call that fails changes no list.
LEMMA FailsKept ==
    ASSUME IInv, Runs, NEW result, Fails(result), result = "null" => holes
    PROVE  Kept
<1>1. UNCHANGED <<list, x, holes, ran>> /\ lost' = IF result = "null" THEN "null" ELSE "no"
  BY DEF Fails
<1>2. RunsWithWholeLists'
  BY <1>1 DEF Runs, RunsWithWholeLists
<1>3. ~holes => lost' # "null"
  BY <1>1
<1>4. IInv'
  BY <1>1, <1>2, <1>3 DEF IInv
<1> QED BY <1>1, <1>4 DEF Kept

\* execve runs the program with what it reads of the arguments.
LEMMA ExecveKept ==
    ASSUME IInv, Runs, NEW argv, NEW envp, Execve(argv, envp),
           Read(argv) = Elements("args"), Read(envp) \in {Elements("env"), Environ}
    PROVE  Kept
<1>1. CASE Fails("errno")
  BY <1>1, FailsKept
<1>2. CASE /\ ran' = [argv |-> Read(argv), envp |-> Read(envp)]
           /\ UNCHANGED <<list, x, ret, holes, lost>>
  <2>1. ran'.argv = Elements("args") /\ ran'.envp \in {Elements("env"), Environ}
    BY <1>2
  <2>2. Elements("args")' = Elements("args") /\ Elements("env")' = Elements("env")
    BY <1>2 DEF Elements
  <2>3. RunsWithWholeLists'
    BY <2>1, <2>2 DEF RunsWithWholeLists
  <2>4. IInv'
    BY <1>2, <2>3 DEF IInv
  <2> QED BY <1>2, <2>4 DEF Kept
<1> QED BY <1>1, <1>2 DEF Execve

LEMMA ExecKept ==
    ASSUME IInv, NEW path \in Val, str_execve(path) \/ str_execv(path) PROVE Kept
<1>1. Runs /\ {"args", "env"} \subseteq Lists
  BY DEF str_execve, str_execv, Lists
<1>2. CASE path = Default \/ list["args"] = NULL
  <2>1. Fails("EINVAL")
    BY <1>2 DEF str_execve, str_execv
  <2> QED BY <1>1, <2>1, FailsKept
<1>3. CASE path # Default /\ list["args"] # NULL
  <2>1. Live("args")
    BY <1>1, <1>3 DEF Live
  <2>2. PICK a \in strvec_argc_argv(list["args"]) :
          \/ a.ret # "ok" /\ Fails(a.ret)
          \/ a.ret = "ok" /\ list["env"] = NULL /\ Execve(a.argv, <<Default>>)
          \/ a.ret = "ok" /\ list["env"] # NULL
             /\ \E e \in strvec_argc_argv(list["env"]) :
                \/ e.ret # "ok" /\ Fails(e.ret)
                \/ e.ret = "ok" /\ Execve(a.argv, e.argv)
          \/ a.ret = "ok" /\ Execve(a.argv, Append(Environ, Default))
    BY <1>3 DEF str_execve, str_execv
  <2>3. (a.ret = "null" => holes) /\ (a.ret = "ok" => Read(a.argv) = Elements("args"))
    BY <1>1, <2>1, <2>2, ArgvOfList
  <2>4. CASE a.ret # "ok" /\ Fails(a.ret)
    BY <1>1, <2>3, <2>4, FailsKept
  <2>5. CASE a.ret = "ok" /\ list["env"] = NULL /\ Execve(a.argv, <<Default>>)
    <3>1. Read(<<Default>>) = Elements("env")
      BY <2>5, ReadNone DEF Elements
    <3> QED BY <1>1, <2>3, <2>5, <3>1, ExecveKept
  <2>6. CASE a.ret = "ok" /\ list["env"] # NULL
             /\ \E e \in strvec_argc_argv(list["env"]) :
                \/ e.ret # "ok" /\ Fails(e.ret)
                \/ e.ret = "ok" /\ Execve(a.argv, e.argv)
    <3>1. PICK e \in strvec_argc_argv(list["env"]) :
             \/ e.ret # "ok" /\ Fails(e.ret)
             \/ e.ret = "ok" /\ Execve(a.argv, e.argv)
      BY <2>6
    <3>2. Live("env")
      BY <1>1, <2>6 DEF Live
    <3>3. (e.ret = "null" => holes) /\ (e.ret = "ok" => Read(e.argv) = Elements("env"))
      BY <1>1, <3>1, <3>2, ArgvOfList
    <3>4. CASE e.ret # "ok" /\ Fails(e.ret)
      BY <1>1, <3>3, <3>4, FailsKept
    <3>5. CASE e.ret = "ok" /\ Execve(a.argv, e.argv)
      BY <1>1, <2>3, <2>6, <3>3, <3>5, ExecveKept
    <3> QED BY <3>1, <3>4, <3>5
  <2>7. CASE a.ret = "ok" /\ Execve(a.argv, Append(Environ, Default))
    <3>1. Read(Append(Environ, Default)) = Environ
      BY StrvecAssumption, ReadWhole DEF Strings
    <3> QED BY <1>1, <2>3, <2>7, <3>1, ExecveKept
  <2> QED BY <2>2, <2>4, <2>5, <2>6, <2>7
<1> QED BY <1>2, <1>3

----------------------------------------------------------------------------
(* The theorems *)

LEMMA InitInvariant == ASSUME Init PROVE IInv
<1>1. \A l \in Lists : list[l] = NULL
  BY DEF Init
<1>2. x \in Val /\ holes = FALSE /\ lost = "no" /\ ran = NULL
  BY VectorAssumption DEF Init
<1>3. list \in [Lists -> {list[l] : l \in Lists}]
  BY DEF Init
<1> QED BY <1>1, <1>2, <1>3 DEF IInv, Sound, Full, RunsWithWholeLists

LEMMA NextKept == ASSUME IInv, Next PROVE Kept
<1>1. CASE \E path \in Val : str_execve(path) \/ str_execv(path)
  BY <1>1, ExecKept
<1>2. CASE Change
  <2>1. CASE \E l \in Lists : CallCreate(l) \/ CallDelete(l)
    BY <2>1, CreateKept, DeleteKept
  <2>2. CASE CallCopyNew \/ CallCopy \/ CallAppend \/ CallRemoveLast \/ CallConcatenate
    BY <2>2, CopyNewKept, CopyKept, AppendKept, RemoveLastKept, ConcatenateKept
  <2>3. CASE \E text \in Strings : CallAppendCstring(text)
    BY <2>3, AppendCstringKept
  <2>4. CASE \E s, t \in Strings : CallAppendN(<<s, t>>)
    BY <2>4, AppendNKept
  <2>5. CASE \E i \in Index :
                \/ CallGet(i) \/ CallReplace(i) \/ CallInsert(i) \/ CallClear(i) \/ CallRemove(i)
                \/ CallSlice(i, 1) \/ CallSlice(i, MaxUsed)
    BY <2>5, GetKept, ReplaceInsertKept, ClearKept, RemoveKept, SliceKept
  <2> QED BY <1>2, <2>1, <2>2, <2>3, <2>4, <2>5 DEF Change
<1> QED BY <1>1, <1>2 DEF Next

\* The invariant is inductive: whatever functions of strvec.c a program calls on
\* its lists, with any elements, each list stays one whose block has room for it.
THEOREM Invariance == Spec => []IInv
<1>1. ASSUME IInv, UNCHANGED vars PROVE IInv'
  BY <1>1 DEF vars, IInv, RunsWithWholeLists, Elements
<1>2. ASSUME IInv, [Next]_vars PROVE IInv'
  BY <1>1, <1>2, NextKept DEF Kept
<1> QED BY InitInvariant, <1>2, PTL DEF Spec

\* No null element comes into a list but by the program's own doing, and so
\* strvec_argc_argv reads through none (strvec.c, str_execve, str_execv).
THEOREM NoNullOfItsOwn == Spec => []NullsComeFromHoles
<1>1. ASSUME IInv PROVE NullsComeFromHoles
  <2> SUFFICES ASSUME ~holes
               PROVE  /\ \A l \in Lists : \A k \in 1 .. Len(Elements(l)) : Elements(l)[k] # Default
                      /\ lost # "null"
    BY DEF NullsComeFromHoles
  <2>1. lost # "null"
    BY <1>1 DEF IInv
  <2>2. ASSUME NEW l \in Lists, NEW k \in 1 .. Len(Elements(l)) PROVE Elements(l)[k] # Default
    <3>1. Elements(l) \in Seq(Strings)
      <4>1. CASE list[l] = NULL
        BY <4>1 DEF Elements
      <4>2. CASE list[l] # NULL
        BY <1>1, <4>2 DEF IInv, Full, Elements
      <4> QED BY <4>1, <4>2
    <3>2. Elements(l)[k] \in Strings
      BY <2>2, <3>1, ElementOfSeq
    <3> QED BY <3>2 DEF Strings
  <2> QED BY <2>1, <2>2
<1> QED BY <1>1, Invariance, PTL

\* A program that is run gets the whole of both lists, or the whole of environ
\* (str_execve, str_execv).
THEOREM RunsWhole == Spec => []RunsWithWholeLists
<1>1. IInv => RunsWithWholeLists
  BY DEF IInv
<1> QED BY <1>1, Invariance, PTL

\* A function that does not return ok has changed no element of a list
\* (strvec.c, pointervec.c).
THEOREM KeepsLists == Spec => FailureKeepsLists
<1>1. ASSUME IInv, [Next]_vars
      PROVE  [ret' # "ok" => UNCHANGED <<Elements("args"), Elements("env")>>]_vars
  <2>1. CASE Next
    <3>1. ret' # "ok" => list' = list
      BY <1>1, <2>1, NextKept DEF Kept
    <3> QED BY <3>1 DEF Elements
  <2>2. CASE UNCHANGED vars
    BY <2>2
  <2> QED BY <1>1, <2>1, <2>2
<1> QED BY <1>1, Invariance, PTL DEF Spec, FailureKeepsLists
=============================================================================
