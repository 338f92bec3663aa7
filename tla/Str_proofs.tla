----------------------------- MODULE Str_proofs -----------------------------
(* Strings keep their NUL and are copied, joined and cut as C reads them, for *)
(* any characters, number of strings, memory that malloc adds, size policy    *)
(* and bound.                                                                 *)
EXTENDS Str, VectorOps_proofs

\* A NUL is nowhere but at the end.
Clean(s) == \A k \in 1 .. Len(s) - 1 : s[k] # NUL

\* What is stored for a string as the functions leave it.
Fine(v) == /\ IsVector(v) /\ v.of = "char"
           /\ v.used <= MaxUsed /\ v.size \in Sizes
           /\ Clean(Contents(v))

Sound(v) == v = NULL \/ Fine(v)

\* The inductive invariant: without it a string could have a NUL that append
\* does not take off, and C would read less of it than is copied.
IInv == /\ str \in [Handles -> {str[h] : h \in Handles}]
        /\ \A h \in Handles : Sound(str[h])

\* NULL and LOST are no strings.
LEMMA FineIsString == ASSUME NEW v, Fine(v) PROVE v # NULL /\ v # LOST
<1>1. v \in VectorsOf(v.size) /\ v.size \in Sizes
  BY DEF Fine, IsVector
<1> QED BY <1>1, StrAssumption

----------------------------------------------------------------------------
(* Sequences of characters *)

\* Characters that are not NUL are elements; and with others they make longer
\* texts.
LEMMA CharsType ==
    ASSUME NEW s \in Seq(Char)
    PROVE  /\ s \in Seq(Val) /\ Len(s) \in Nat /\ \A k \in 1 .. Len(s) : s[k] \in Val /\ s[k] # NUL
<1>1. Len(s) \in Nat /\ s \in [1 .. Len(s) -> Char]
  BY LenProperties
<1>2. s \in [1 .. Len(s) -> Val] /\ \A k \in 1 .. Len(s) : s[k] \in Val /\ s[k] # NUL
  BY <1>1 DEF Char
<1> QED BY <1>1, <1>2

\* A text with its NUL.
LEMMA EndedType ==
    ASSUME NEW t \in Seq(Char), NEW s, s = t \o <<NUL>>
    PROVE  /\ s \in Seq(Val) /\ Len(s) = Len(t) + 1 /\ Len(t) \in Nat
           /\ s[Len(s)] = NUL
           /\ \A k \in 1 .. Len(t) : s[k] = t[k] /\ s[k] # NUL
           /\ Clean(s) /\ s \notin Seq(Char)
<1>1. t \in Seq(Val) /\ Len(t) \in Nat /\ \A k \in 1 .. Len(t) : t[k] # NUL
  BY CharsType
<1> DEFINE z == <<NUL>>
<1>2. z \in Seq(Val) /\ Len(z) = 1 /\ z[1] = NUL
  BY StrAssumption
<1> HIDE DEF z
<1>3. /\ t \o z \in Seq(Val) /\ Len(t \o z) = Len(t) + Len(z)
      /\ \A i \in 1 .. Len(t) + Len(z) : (t \o z)[i] = IF i <= Len(t) THEN t[i] ELSE z[i - Len(t)]
  BY <1>1, <1>2, ConcatProperties, Zenon
<1>4. s = t \o z
  BY DEF z
<1>5. /\ s \in Seq(Val) /\ Len(s) = Len(t) + 1
      /\ \A i \in 1 .. Len(t) + 1 : s[i] = IF i <= Len(t) THEN t[i] ELSE z[i - Len(t)]
  BY <1>2, <1>3, <1>4
<1>6. s[Len(s)] = NUL
  <2> DEFINE n == Len(t)
  <2>1. n + 1 \in 1 .. n + 1 /\ ~ (n + 1 <= n) /\ (n + 1) - n = 1
    BY <1>1
  <2>2. s[n + 1] = z[1]
    BY <1>5, <2>1
  <2> QED BY <1>2, <1>5, <2>2
<1>7. ASSUME NEW k \in 1 .. Len(t) PROVE s[k] = t[k] /\ s[k] # NUL
  BY <1>1, <1>5
<1>8. Clean(s)
  BY <1>1, <1>5, <1>7 DEF Clean
<1>9. s \notin Seq(Char)
  <2> SUFFICES ASSUME s \in Seq(Char) PROVE FALSE
    OBVIOUS
  <2>1. Len(s) \in 1 .. Len(s)
    BY <1>1, <1>5
  <2> QED BY <1>6, <2>1, CharsType
<1> QED BY <1>1, <1>5, <1>6, <1>7, <1>8, <1>9

\* There are no other sequences without a NUL but at the end.
LEMMA CleanForms ==
    ASSUME NEW s \in Seq(Val)
    PROVE  /\ s \in Seq(Char) => Clean(s)
           /\ Clean(s) => \/ s \in Seq(Char)
                          \/ \E t \in Seq(Char) : s = t \o <<NUL>> /\ t = SubSeq(s, 1, Len(s) - 1)
<1> DEFINE n == Len(s)
<1>1. n \in Nat /\ \A k \in 1 .. n : s[k] \in Val
  BY LenProperties, ElementOfSeq
<1>2. ASSUME s \in Seq(Char) PROVE Clean(s)
  BY <1>1, <1>2, CharsType DEF Clean
<1>3. ASSUME Clean(s), n = 0 \/ s[n] # NUL PROVE s \in Seq(Char)
  <2>1. \A k \in 1 .. n : s[k] \in Char
    BY <1>1, <1>3 DEF Clean, Char
  <2>2. s \in [1 .. n -> Val]
    BY LenProperties
  <2> HIDE DEF n
  <2>3. s \in [1 .. n -> Char]
    BY <2>1, <2>2
  <2> QED BY <1>1, <2>3
<1>4. ASSUME Clean(s), n # 0, s[n] = NUL
      PROVE  \E t \in Seq(Char) : s = t \o <<NUL>> /\ t = SubSeq(s, 1, Len(s) - 1)
  <2> DEFINE m == n - 1
             t == SubSeq(s, 1, m)
  <2>1. m \in 0 .. n /\ m \in Nat /\ m + 1 = n
    BY <1>1, <1>4
  <2> HIDE DEF m
  <2>2. t \in Seq(Val) /\ Len(t) = m /\ \A k \in 1 .. m : t[k] = s[k]
    BY <2>1, Parts
  <2>3. \A k \in 1 .. m : s[k] \in Char
    BY <1>1, <1>4, <2>1 DEF Clean, Char, m
  <2>4. t \in [1 .. m -> Val]
    BY <2>2, LenProperties
  <2> HIDE DEF t, n
  <2>5. t \in [1 .. m -> Char]
    BY <2>2, <2>3, <2>4
  <2>6. t \in Seq(Char)
    BY <2>1, <2>5
  <2> DEFINE e == t \o <<NUL>>
  <2>7. /\ e \in Seq(Val) /\ Len(e) = m + 1 /\ e[Len(e)] = NUL
        /\ \A k \in 1 .. m : e[k] = t[k]
    BY <2>2, <2>6, EndedType
  <2> HIDE DEF e
  <2>8. \A k \in 1 .. n : e[k] = s[k]
    <3> TAKE k \in 1 .. n
    <3>1. k \in 1 .. m \/ k = n
      BY <1>1, <2>1
    <3> QED BY <1>4, <2>1, <2>2, <2>7, <3>1
  <2>9. e = s
    BY <2>1, <2>7, <2>8, SeqEqual DEF n
  <2> QED BY <2>6, <2>9 DEF e, t, m, n
<1> QED BY <1>1, <1>2, <1>3, <1>4

LEMMA CharsClean == ASSUME NEW s \in Seq(Char) PROVE Clean(s)
BY CharsType DEF Clean

LEMMA JoinedChars ==
    ASSUME NEW s \in Seq(Char), NEW t \in Seq(Char)
    PROVE  s \o t \in Seq(Char) /\ Len(s \o t) = Len(s) + Len(t)
BY ConcatProperties, Zenon

LEMMA Associated ==
    ASSUME NEW s \in Seq(Val), NEW t \in Seq(Val), NEW u \in Seq(Val)
    PROVE  (s \o t) \o u = s \o (t \o u)
BY ConcatAssociative

LEMMA OneChar == ASSUME NEW ch \in Char
                 PROVE  <<ch>> \in Seq(Char) /\ Len(<<ch>>) = 1
OBVIOUS

\* A part of a text.
LEMMA PartChars ==
    ASSUME NEW s \in Seq(Char), NEW m \in Nat, NEW n \in 0 .. Len(s)
    PROVE  SubSeq(s, m + 1, n) \in Seq(Char)
<1>1. Len(s) \in Nat
  BY LenProperties
<1>2. m + 1 \in Int /\ n \in Int /\ m \in Int
  BY <1>1
<1>3. \A k \in m + 1 .. n : s[k] \in Char
  <2> SUFFICES ASSUME NEW k \in m + 1 .. n PROVE s[k] \in Char
    OBVIOUS
  <2>1. k \in 1 .. Len(s)
    BY <1>1, <1>2
  <2> QED BY <2>1, ElementOfSeq
<1> QED BY <1>2, <1>3, SubSeqProperties

----------------------------------------------------------------------------
(* What C reads *)

\* It reads what is before the NUL.
LEMMA TextIs ==
    ASSUME NEW v, IsVector(v), NEW t \in Seq(Char), Contents(v) = t \o <<NUL>>
    PROVE  Terminated(v) /\ Text(v) = t /\ v.used = Len(t) + 1 /\ Len(t) \in Nat
<1> DEFINE s == Contents(v)
           n == Len(t)
           ends == {k \in 0 .. v.used - 1 : v.cells[k] = NUL}
<1>1. /\ s \in Seq(Val) /\ Len(s) = n + 1 /\ n \in Nat /\ s[n + 1] = NUL
      /\ \A k \in 1 .. n : s[k] = t[k] /\ s[k] # NUL
  BY EndedType
<1>2. /\ v.used = n + 1
      /\ \A k \in 1 .. v.used : s[k] = v.cells[k - 1]
  BY <1>1, ContentsType
<1> HIDE DEF n, s
<1>3. v.cells[n] = NUL
  <2>1. n + 1 \in 1 .. v.used /\ (n + 1) - 1 = n
    BY <1>1, <1>2
  <2>2. s[n + 1] = v.cells[(n + 1) - 1]
    BY <1>2, <2>1
  <2> QED BY <1>1, <2>1, <2>2
<1>4. ASSUME NEW k \in 0 .. n - 1 PROVE v.cells[k] # NUL
  <2>1. k + 1 \in 1 .. n /\ k + 1 \in 1 .. v.used /\ (k + 1) - 1 = k
    BY <1>1, <1>2
  <2>2. s[k + 1] = v.cells[(k + 1) - 1] /\ s[k + 1] # NUL
    BY <1>1, <1>2, <2>1
  <2> QED BY <2>1, <2>2
<1>5. ends = {n}
  <2>1. \A k \in 0 .. v.used - 1 : k \in 0 .. n - 1 \/ k = n
    BY <1>1, <1>2
  <2>2. n \in 0 .. v.used - 1
    BY <1>1, <1>2
  <2> QED BY <1>3, <1>4, <2>1, <2>2
<1>6. (CHOOSE k \in ends : \A j \in ends : k <= j) = n
  <2> HIDE DEF ends
  <2>1. n \in ends /\ \A j \in ends : n <= j
    BY <1>1, <1>5
  <2>2. \A k \in ends : k = n
    BY <1>5
  <2> QED BY <2>1, <2>2
<1>7. Text(v) = SubSeq(s, 1, n)
  BY <1>6 DEF Text, s
<1>8. SubSeq(s, 1, n) = t
  <2> DEFINE u == SubSeq(s, 1, n)
  <2>1. n \in 0 .. Len(s)
    BY <1>1
  <2>2. u \in Seq(Val) /\ Len(u) = n /\ \A k \in 1 .. n : u[k] = s[k]
    BY <1>1, <2>1, Parts
  <2>3. t \in Seq(Val) /\ Len(t) = n
    BY CharsType DEF n
  <2> HIDE DEF u
  <2>4. u = t
    BY <1>1, <2>2, <2>3, SeqEqual
  <2> QED BY <2>4 DEF u
<1>9. Terminated(v)
  BY <1>1, <1>2, <1>3 DEF Terminated
<1> QED BY <1>1, <1>2, <1>7, <1>8, <1>9 DEF n

\* Without a NUL it reads on.
LEMMA NotTerminated ==
    ASSUME NEW v, IsVector(v), Contents(v) \in Seq(Char)
    PROVE  ~Terminated(v)
<1> SUFFICES ASSUME v.used > 0, v.cells[v.used - 1] = NUL PROVE FALSE
  BY DEF Terminated
<1>1. /\ v.used \in Nat /\ Len(Contents(v)) = v.used
      /\ \A k \in 1 .. v.used : Contents(v)[k] = v.cells[k - 1]
  BY VectorParts, UsableType, ContentsType
<1>2. v.used \in 1 .. v.used
  BY <1>1
<1>3. Contents(v)[v.used] = NUL
  BY <1>1, <1>2
<1> QED BY <1>1, <1>2, <1>3, CharsType

\* A string has a text and its NUL, or is one without it.
LEMMA StringForms ==
    ASSUME NEW v, Fine(v)
    PROVE  /\ v.used \in Nat /\ Len(Contents(v)) = v.used /\ Contents(v) \in Seq(Val)
           /\ v.used + 1 \in Nat /\ v.used < WordSize /\ v.used <= MaxUsed
           /\ IsVector(v) /\ v.of = "char" /\ v.size \in Sizes
           /\ \/ Contents(v) \in Seq(Char) /\ ~Terminated(v)
              \/ /\ Terminated(v) /\ Text(v) \in Seq(Char)
                 /\ Contents(v) = Text(v) \o <<NUL>> /\ v.used = Len(Text(v)) + 1
<1>1. IsVector(v) /\ v.used <= MaxUsed /\ Clean(Contents(v)) /\ v.of = "char" /\ v.size \in Sizes
  BY DEF Fine
<1>2. v.used \in Nat /\ Len(Contents(v)) = v.used /\ Contents(v) \in Seq(Val)
  BY <1>1, VectorParts, UsableType, ContentsType
<1>3. ASSUME Contents(v) \in Seq(Char) PROVE ~Terminated(v)
  BY <1>1, <1>3, NotTerminated
<1>4. ASSUME NEW t \in Seq(Char), Contents(v) = t \o <<NUL>>
      PROVE  /\ Terminated(v) /\ Text(v) \in Seq(Char)
             /\ Contents(v) = Text(v) \o <<NUL>> /\ v.used = Len(Text(v)) + 1
  BY <1>1, <1>4, TextIs
<1>5. v.used < WordSize /\ v.used + 1 \in Nat
  BY <1>1, <1>2, StrAssumption, PolicySizeAssumption
<1>6. Contents(v) \in Seq(Char) \/ \E t \in Seq(Char) : Contents(v) = t \o <<NUL>>
  BY <1>1, <1>2, CleanForms
<1>7. Contents(v) \in Seq(Char) => ~Terminated(v)
  BY <1>3
<1> QED BY <1>1, <1>2, <1>4, <1>5, <1>6, <1>7

----------------------------------------------------------------------------
(* Vectors of characters *)

\* What the functions of charvec.c make of a string is one, if no more is stored
\* than the bound.
LEMMA BecomesFine ==
    ASSUME NEW v, v.of = "char", v.size \in Sizes, NEW request \in 0 .. MaxUsed,
           NEW seq, Len(seq) <= MaxUsed, Clean(seq),
           NEW u, Became(u, v, request, seq)
    PROVE  Fine(u) /\ Contents(u) = seq /\ IsVector(u) /\ u.used = Len(seq)
BY DEF Fine, Became, Sizes

LEMMA NothingIsFine == /\ Empty("char").of = "char" /\ Empty("char").size \in Sizes
                       /\ "char" \in Type /\ <<>> \in Seq(Char) /\ <<>> \in Seq(Val) /\ Len(<<>>) = 0
<1>1. "char" \in Type
  BY DEF Type
<1> QED BY <1>1, EmptyVector DEF Sizes

\* Its block has no less room than the policy gives for less elements, so that
\* nothing is allocated for them.
LEMMA PolicySteps ==
    ASSUME NEW size \in Sizes, NEW n \in Nat, n < size
    PROVE  POLICY_SIZE_STEP(n) <= size
<1>1. PICK m \in 0 .. MaxUsed : size = POLICY_SIZE_STEP(m)
  BY DEF Sizes
<1>2. /\ WordSize \in Nat \ {0} /\ SizeMin \in Nat \ {0} /\ SizeMax \in Nat \ {0}
      /\ SizeStep \in Nat \ {0} /\ m \in Nat
  BY StrAssumption, PolicySizeAssumption
<1>3. PICK j \in Int : SizeMax = SizeStep * j
  <2> DEFINE q == SizeMax \div SizeStep
  <2>1. q \in Int /\ SizeMax = SizeStep * q + 0
    BY <1>2, Division, StrAssumption
  <2> HIDE DEF q
  <2>2. SizeMax = SizeStep * q
    BY <1>2, <2>1
  <2> QED BY <2>1, <2>2
<1>4. CASE n <= SizeMin
  <2>1. POLICY_SIZE_STEP(n) = SizeMin
    BY <1>4 DEF POLICY_SIZE_STEP
  <2>2. m <= SizeMin => size = SizeMin
    BY <1>1 DEF POLICY_SIZE_STEP
  <2>3. size \in Nat /\ size >= m
    BY <1>1, <1>2, PolicyCovers, StrAssumption
  <2> QED BY <1>2, <2>1, <2>2, <2>3
<1>5. CASE n > SizeMin /\ n > SizeMax
  <2>1. POLICY_SIZE_STEP(n) = n
    BY <1>2, <1>5 DEF POLICY_SIZE_STEP
  <2>2. size \in Nat
    BY <1>1, <1>2, PolicyCovers, StrAssumption
  <2> QED BY <2>1, <2>2
<1>6. CASE n > SizeMin /\ n <= SizeMax
  <2>1. POLICY_SIZE_STEP(n) = RoundUp(n) /\ n \in 0 .. SizeMax
    BY <1>2, <1>6 DEF POLICY_SIZE_STEP
  <2>2. RoundUp(n) \in Nat /\ \A k \in Int : n <= SizeStep * k => RoundUp(n) <= SizeStep * k
    BY <2>1, RoundUpLeast, RoundUpCovers
  <2>3. CASE m <= SizeMin
    BY <1>1, <1>2, <1>6, <2>3 DEF POLICY_SIZE_STEP
  <2>4. CASE m > SizeMin /\ m <= SizeMax
    <3>1. size = RoundUp(m) /\ m \in 0 .. SizeMax
      BY <1>1, <1>2, <2>4 DEF POLICY_SIZE_STEP
    <3>2. PICK k \in Int : RoundUp(m) = SizeStep * k
      BY <3>1, RoundUpLeast
    <3> QED BY <1>2, <2>1, <2>2, <3>1, <3>2
  <2>5. CASE m > SizeMin /\ m > SizeMax
    <3>1. size = m
      BY <1>1, <1>2, <2>5 DEF POLICY_SIZE_STEP
    <3>2. RoundUp(n) <= SizeMax
      BY <1>3, <1>6, <2>2
    <3> QED BY <1>2, <2>1, <2>2, <2>5, <3>1, <3>2
  <2> QED BY <1>2, <2>3, <2>4, <2>5
<1> QED BY <1>2, <1>4, <1>5, <1>6

----------------------------------------------------------------------------
(* One call *)

\* When a string may have lost its NUL.
Excused(fn, h, args, ret) == \/ fn \in {"append_char", "substr"} /\ ret = "ENOMEM"
                             \/ fn \in {"append", "substr"} /\ args[1] = h

\* An outcome of a function fn that is called on h: if all strings had their
\* NUL, the string has it or has an excuse, and has the text expected.
Answers(o, fn, h, args) ==
    \/ o.vec = LOST
    \/ /\ Sound(o.vec)
       /\ AllTerminated =>
             /\ o.vec # NULL /\ ~Terminated(o.vec) => Excused(fn, h, args, o.ret)
             /\ o.vec # NULL /\ Terminated(o.vec) /\ o.ret = "ok" => Text(o.vec) = Expected(fn, h, args)

\* What a step does.
NulKept == AllTerminated /\ ~lost' /\ ~AllTerminated' =>
              \/ call'.fn \in {"append_char", "substr"} /\ call'.ret = "ENOMEM"
              \/ call'.fn \in {"append", "substr"} /\ call'.args[1] = call'.on

Joined == AllTerminated /\ ~lost' /\ AllTerminated' /\ call'.ret = "ok" =>
             \A h \in Live' : Text(str'[h]) = IF h = call'.on
                                              THEN Expected(call'.fn, h, call'.args)
                                              ELSE Text(str[h])

Kept == IInv' /\ NulKept /\ Joined

\* Such outcomes make a step do that.
LEMMA ReturnsKept ==
    ASSUME IInv, NEW h \in Handles, NEW fn, NEW args, NEW outcomes, Returns(fn, h, args, outcomes),
           \A o \in outcomes : Answers(o, fn, h, args)
    PROVE  Kept
<1>1. PICK o \in outcomes :
         /\ call' = [fn |-> fn, on |-> h, args |-> args, ret |-> o.ret]
         /\ \/ o.vec = LOST /\ lost' = TRUE /\ UNCHANGED str
            \/ o.vec # LOST /\ str' = [str EXCEPT ![h] = o.vec] /\ UNCHANGED lost
  BY DEF Returns
<1>2. call'.fn = fn /\ call'.on = h /\ call'.args = args /\ call'.ret = o.ret
  BY <1>1
<1>3. CASE o.vec = LOST
  <2>1. lost' = TRUE /\ str' = str
    BY <1>1, <1>3
  <2>2. IInv'
    BY <2>1 DEF IInv
  <2> QED BY <2>1, <2>2 DEF Kept, NulKept, Joined
<1>4. CASE o.vec # LOST
  <2> DEFINE v == o.vec
  <2>1. str' = [str EXCEPT ![h] = v] /\ Sound(v)
    BY <1>1, <1>4 DEF Answers
  <2>2. AllTerminated =>
           /\ v # NULL /\ ~Terminated(v) => Excused(fn, h, args, o.ret)
           /\ v # NULL /\ Terminated(v) /\ o.ret = "ok" => Text(v) = Expected(fn, h, args)
    BY <1>4 DEF Answers
  <2> HIDE DEF v
  <2>3. /\ \A k \in Handles : str'[k] = IF k = h THEN v ELSE str[k]
        /\ str' = [k \in Handles |-> str'[k]]
    BY <2>1 DEF IInv
  <2>4. \A k \in Handles : Sound(str'[k])
    BY <2>1, <2>3 DEF IInv
  <2>5. str' \in [Handles -> {str'[k] : k \in Handles}]
    BY <2>3
  <2>6. IInv'
    BY <2>4, <2>5 DEF IInv
  <2>7. ASSUME AllTerminated, ~AllTerminated' PROVE Excused(fn, h, args, o.ret)
    <3>1. PICK k \in Handles : str'[k] # NULL /\ ~Terminated(str'[k])
      BY <2>7 DEF AllTerminated, Live
    <3>2. k = h
      BY <2>3, <2>7, <3>1 DEF AllTerminated, Live
    <3> QED BY <2>2, <2>3, <2>7, <3>1, <3>2
  <2>8. ASSUME AllTerminated, AllTerminated', o.ret = "ok", NEW k \in Live'
        PROVE  Text(str'[k]) = IF k = h THEN Expected(fn, k, args) ELSE Text(str[k])
    <3>1. k \in Handles /\ str'[k] # NULL /\ Terminated(str'[k])
      BY <2>8 DEF AllTerminated, Live
    <3> QED BY <2>2, <2>3, <2>8, <3>1
  <2>9. NulKept
    BY <1>2, <2>7 DEF NulKept, Excused
  <2>10. Joined
    BY <1>2, <2>8 DEF Joined
  <2> QED BY <2>6, <2>9, <2>10 DEF Kept
<1> QED BY <1>3, <1>4

\* What is known of a string that is used.
LEMMA LiveFine == ASSUME IInv, NEW h \in Live PROVE h \in Handles /\ Fine(str[h])
BY DEF IInv, Live, Sound

LEMMA LiveTerminated == ASSUME AllTerminated, NEW h \in Live PROVE Terminated(str[h])
BY DEF AllTerminated

\* An outcome that is a string with the text expected, or none, or one that
\* leaves a string as it was.
LEMMA EndedAnswers ==
    ASSUME NEW o, NEW fn, NEW h, NEW args, NEW t \in Seq(Char),
           Fine(o.vec), Contents(o.vec) = t \o <<NUL>>,
           AllTerminated /\ o.ret = "ok" => t = Expected(fn, h, args)
    PROVE  Answers(o, fn, h, args)
<1>1. IsVector(o.vec)
  BY DEF Fine
<1>2. Terminated(o.vec) /\ Text(o.vec) = t
  BY <1>1, TextIs
<1> QED BY <1>2 DEF Answers, Sound

LEMMA NoneAnswers ==
    ASSUME NEW o, NEW fn, NEW h, NEW args, o.vec = NULL
    PROVE  Answers(o, fn, h, args)
BY DEF Answers, Sound

LEMMA FailedAnswers ==
    ASSUME IInv, NEW h \in Handles, NEW o, NEW fn, NEW args, o.vec = str[h], o.ret # "ok"
    PROVE  Answers(o, fn, h, args)
BY DEF Answers, IInv, AllTerminated, Live

----------------------------------------------------------------------------
(* Creating and copying *)

\* One more character is stored, or memory is not had, or the block is left.
Stores(o, v, seq) ==
    \/ o.ret # "ok" /\ o.vec = v
    \/ o.ret = "ok" /\ o.vec = LOST
    \/ o.ret = "ok" /\ Fine(o.vec) /\ Contents(o.vec) = seq

LEMMA DoesStores ==
    ASSUME NEW v, v.of = "char", v.size \in Sizes, NEW request \in 0 .. MaxUsed,
           NEW seq, Len(seq) <= MaxUsed, Clean(seq), NEW overrun,
           NEW o, Does(o, v, request, seq, overrun)
    PROVE  Stores(o, v, seq)
<1>1. CASE o = Outcome("ENOMEM", v)
  BY <1>1 DEF Stores, Outcome
<1>2. CASE o.ret = "ok" /\ Became(o.vec, v, request, seq)
  BY <1>2, BecomesFine DEF Stores
<1>3. CASE o = Outcome("ok", LOST)
  BY <1>3 DEF Stores, Outcome
<1> QED BY <1>1, <1>2, <1>3 DEF Does

LEMMA AppendOneStores ==
    ASSUME NEW v, Fine(v), v.used < MaxUsed, NEW ch \in Val, Clean(Contents(v) \o <<ch>>),
           NEW o \in AppendOne(v, ch)
    PROVE  Stores(o, v, Contents(v) \o <<ch>>)
<1> DEFINE overrun == v.used >= v.size /\ ~AppendGrows(v)
           seq == Contents(v) \o <<ch>>
           n == v.used + 1
<1>1. /\ IsVector(v) /\ v.of = "char" /\ v.size \in Sizes /\ v.used \in Nat
      /\ Contents(v) \in Seq(Val) /\ Len(Contents(v)) = v.used
  BY StringForms
<1>2. n \in 0 .. MaxUsed /\ n < WordSize
  BY <1>1, StrAssumption, PolicySizeAssumption
<1>3. Does(o, v, n, seq, overrun)
  BY <1>1, <1>2, AppendOneDoes
<1>4. Len(seq) = n
  <2>1. <<ch>> \in Seq(Val) /\ Len(<<ch>>) = 1
    OBVIOUS
  <2>2. Len(seq) = Len(Contents(v)) + Len(<<ch>>)
    BY <1>1, <2>1, ConcatProperties, Zenon
  <2> QED BY <1>1, <2>1, <2>2
<1>5. Clean(seq)
  OBVIOUS
<1> HIDE DEF seq, overrun, n
<1>6. Len(seq) <= MaxUsed
  BY <1>2, <1>4
<1>7. Stores(o, v, seq)
  BY <1>1, <1>2, <1>3, <1>5, <1>6, DoesStores
<1> QED BY <1>7 DEF seq

\* A new string is empty and has its NUL: there is room for that.
LEMMA CreateKept ==
    ASSUME IInv, NEW h \in Handles, NEW n \in Index, CallCreate(h, n)
    PROVE  Kept
<1>1. Returns("Create", h, <<n>>, str_Create(n))
  BY DEF CallCreate
<1> SUFFICES ASSUME NEW o \in str_Create(n) PROVE Answers(o, "Create", h, <<n>>)
  BY <1>1, ReturnsKept
<1>2. n + 1 \in 0 .. WordSize - 1 /\ n + 1 \in 0 .. MaxUsed /\ n \in Nat
  BY StrAssumption, PolicySizeAssumption DEF Index
<1>3. PICK c \in Create("char", n + 1) :
         \/ c.ret = "ok" /\ c.vec # LOST /\ \E b \in AppendOne(c.vec, NUL) : o = Outcome("ok", b.vec)
         \/ ~(c.ret = "ok" /\ c.vec # LOST) /\ o = c
  BY DEF str_Create, Then
<1>4. CASE c = Outcome("ENOMEM", NULL)
  <2>1. o.vec = NULL
    BY <1>3, <1>4 DEF Outcome
  <2> QED BY <2>1, NoneAnswers
<1>5. CASE \E w \in Grown(Empty("char"), TRUE, n + 1) : c = Outcome("ok", w)
  <2>1. PICK w \in Grown(Empty("char"), TRUE, n + 1) : c.ret = "ok" /\ c.vec = w
    <3>1. PICK w \in Grown(Empty("char"), TRUE, n + 1) : c = Outcome("ok", w)
      BY <1>5
    <3>2. c.ret = "ok" /\ c.vec = w
      BY <3>1 DEF Outcome
    <3> QED BY <3>2
  <2>2. Larger(w, Empty("char"), TRUE, n + 1)
    BY <1>2, <2>1, GrownLarger, EmptyVector, NothingIsFine
  <2>3. /\ IsVector(w) /\ w.of = "char" /\ w.used = 0 /\ w.size \in Nat /\ w.size >= n + 1
        /\ Contents(w) = <<>>
        /\ w.size \in Sizes
    <3>1. /\ IsVector(w) /\ w.of = Empty("char").of /\ w.used = Empty("char").used
          /\ Contents(w) = Contents(Empty("char")) /\ w.size >= n + 1
          /\ w.size = Empty("char").size \/ w.size = POLICY_SIZE_STEP(n + 1)
      BY <2>2 DEF Larger
    <3> QED BY <1>2, <3>1, EmptyVector, NothingIsFine, VectorParts DEF Sizes
  <2>4. Fine(w)
    <3>1. Clean(<<>>)
      BY CleanForms, NothingIsFine
    <3> QED BY <2>3, <3>1, StrAssumption DEF Fine
  <2>5. CASE o.vec = LOST
    BY <2>5 DEF Answers
  <2>6. CASE o.vec # LOST
    <3>1. PICK b \in AppendOne(w, NUL) : o = Outcome("ok", b.vec)
      BY <1>3, <2>1, <2>4, FineIsString
    <3>2. b.ret = "ok"
      <4>1. AppendGrows(w) = FALSE
        BY <1>2, <2>3 DEF AppendGrows
      <4>2. ~NeedsMemory(w, AppendGrows(w), w.used + 1)
        BY <4>1 DEF NeedsMemory
      <4> QED BY <3>1, <4>2 DEF AppendOne, Attempt, Outcome
    <3> DEFINE t == <<>>
               s == t \o <<NUL>>
    <3>3. t \in Seq(Char) /\ Contents(w) = t
      BY <2>3, NothingIsFine
    <3>4. Clean(s) /\ NUL \in Val
      BY <3>3, EndedType, StrAssumption
    <3> HIDE DEF t
    <3>5. Stores(b, w, s)
      BY <2>3, <2>4, <3>1, <3>3, <3>4, AppendOneStores, StrAssumption
    <3>6. Fine(o.vec) /\ Contents(o.vec) = s
      BY <2>6, <3>1, <3>2, <3>5 DEF Stores, Outcome
    <3>7. t = Expected("Create", h, <<n>>)
      BY DEF Expected, t
    <3> QED BY <3>3, <3>6, <3>7, EndedAnswers
  <2> QED BY <2>5, <2>6
<1> QED BY <1>4, <1>5 DEF Create

\* What is created from, or copied from, a sequence without a NUL but at its end.
LEMMA CreateFromStores ==
    ASSUME NEW xs \in Seq(Val), Len(xs) <= MaxUsed, Clean(xs), NEW o \in CreateFrom("char", xs)
    PROVE  \/ o.ret # "ok" /\ o.vec = NULL
           \/ o.ret = "ok" /\ Fine(o.vec) /\ Contents(o.vec) = xs
<1>1. Len(xs) < WordSize /\ Len(xs) \in 0 .. MaxUsed
  BY LenProperties, StrAssumption, PolicySizeAssumption
<1>2. CASE o = Outcome("ENOMEM", NULL)
  BY <1>2 DEF Outcome
<1>3. CASE o.ret = "ok" /\ Became(o.vec, Empty("char"), Len(xs), xs)
  <2> DEFINE e == Empty("char")
             n == Len(xs)
  <2>1. e.of = "char" /\ e.size \in Sizes /\ n \in 0 .. MaxUsed /\ Became(o.vec, e, n, xs)
    BY <1>1, <1>3, NothingIsFine
  <2> HIDE DEF e, n
  <2> QED BY <1>3, <2>1, BecomesFine
<1> QED BY <1>1, <1>2, <1>3, CreateFromDoes, NothingIsFine

LEMMA CopyFromStores ==
    ASSUME NEW v, Fine(v), NEW xs \in Seq(Val), Len(xs) <= MaxUsed, Clean(xs), NEW o \in CopyFrom(v, xs)
    PROVE  Stores(o, v, xs)
<1>1. Len(xs) < WordSize /\ Len(xs) \in 0 .. MaxUsed
  BY LenProperties, StrAssumption, PolicySizeAssumption
<1>2. Does(o, v, Len(xs), xs, FALSE)
  BY <1>1, CopyFromDoes DEF Fine
<1> QED BY <1>1, <1>2, DoesStores DEF Fine

\* Strings of the caller.
LEMMA CStringType ==
    ASSUME NEW cs \in CStrings
    PROVE  /\ cs \in Seq(Char) /\ Append(cs, NUL) = cs \o <<NUL>>
           /\ Append(cs, NUL) \in Seq(Val) /\ Len(Append(cs, NUL)) <= MaxUsed
           /\ Clean(Append(cs, NUL))
<1>1. PICK n \in 0 .. 3 : cs \in [1 .. n -> Char]
  BY DEF CStrings
<1>2. cs \in Seq(Char) /\ Len(cs) = n
  BY <1>1
<1>3. Append(cs, NUL) = cs \o <<NUL>>
  BY <1>2, CharsType, AppendIsConcat, StrAssumption
<1> DEFINE s == Append(cs, NUL)
<1>4. s \in Seq(Val) /\ Len(s) = Len(cs) + 1 /\ Clean(s)
  BY <1>2, <1>3, EndedType
<1>5. Len(s) <= MaxUsed
  BY <1>1, <1>2, <1>4, StrAssumption, PolicySizeAssumption
<1> QED BY <1>2, <1>3, <1>4, <1>5

LEMMA CreateCstringKept ==
    ASSUME IInv, NEW h \in Handles, NEW cs \in CStrings, CallCreateCstring(h, cs)
    PROVE  Kept
<1>1. Returns("copy_cstring", h, <<cs>>, str_Create_cstring(cs))
  BY DEF CallCreateCstring
<1> SUFFICES ASSUME NEW o \in str_Create_cstring(cs) PROVE Answers(o, "copy_cstring", h, <<cs>>)
  BY <1>1, ReturnsKept
<1>2. \/ o.ret # "ok" /\ o.vec = NULL
      \/ o.ret = "ok" /\ Fine(o.vec) /\ Contents(o.vec) = Append(cs, NUL)
  BY CStringType, CreateFromStores DEF str_Create_cstring
<1>3. cs = Expected("copy_cstring", h, <<cs>>)
  BY DEF Expected
<1> QED BY <1>2, <1>3, CStringType, NoneAnswers, EndedAnswers

\* A function that stores what it is given, or leaves the string as it was.
LEMMA StoredAnswers ==
    ASSUME IInv, NEW h \in Live, NEW o, NEW fn, NEW args, NEW t \in Seq(Char), NEW seq,
           Stores(o, str[h], seq), seq = t \o <<NUL>>,
           AllTerminated => t = Expected(fn, h, args)
    PROVE  Answers(o, fn, h, args)
<1>1. CASE o.ret # "ok" /\ o.vec = str[h]
  BY <1>1, FailedAnswers, LiveFine
<1>2. CASE o.ret = "ok" /\ o.vec = LOST
  BY <1>2 DEF Answers
<1>3. CASE o.ret = "ok" /\ Fine(o.vec) /\ Contents(o.vec) = seq
  BY <1>3, EndedAnswers
<1> QED BY <1>1, <1>2, <1>3 DEF Stores

LEMMA CopyCstringKept ==
    ASSUME IInv, NEW h \in Handles, NEW cs \in CStrings, CallCopyCstring(h, cs)
    PROVE  Kept
<1>1. h \in Live /\ Returns("copy_cstring", h, <<cs>>, str_copy_cstring(str[h], cs))
  BY DEF CallCopyCstring
<1> SUFFICES ASSUME NEW o \in str_copy_cstring(str[h], cs)
             PROVE  Answers(o, "copy_cstring", h, <<cs>>)
  BY <1>1, ReturnsKept
<1>2. Stores(o, str[h], Append(cs, NUL))
  BY <1>1, CStringType, CopyFromStores, LiveFine DEF str_copy_cstring
<1>3. cs = Expected("copy_cstring", h, <<cs>>)
  BY DEF Expected
<1> QED BY <1>1, <1>2, <1>3, CStringType, StoredAnswers

\* What is stored for a string, copied: a string that has its NUL is read as the
\* other, and one that has not is copied without.
LEMMA CopiedAnswers ==
    ASSUME IInv, NEW h \in Handles, NEW g \in Live, NEW o,
           Fine(o.vec), Contents(o.vec) = Contents(str[g])
    PROVE  Answers(o, "copy", h, <<g>>)
<1>1. Fine(str[g])
  BY LiveFine
<1>2. CASE Terminated(str[g])
  <2> DEFINE t == Text(str[g])
  <2>1. t \in Seq(Char) /\ Contents(o.vec) = t \o <<NUL>>
    BY <1>1, <1>2, StringForms
  <2>2. t = Expected("copy", h, <<g>>)
    BY DEF Expected
  <2> HIDE DEF t
  <2> QED BY <2>1, <2>2, EndedAnswers
<1>3. CASE ~Terminated(str[g])
  BY <1>3, LiveTerminated DEF Answers, Sound
<1> QED BY <1>2, <1>3

LEMMA CopyNewKept ==
    ASSUME IInv, NEW h \in Handles, NEW g \in Handles, CallCopyNew(h, g)
    PROVE  Kept
<1> DEFINE outcomes == {Outcome(o.ret, IF o.ret = "ok" THEN o.vec ELSE str[h]) : o \in str_Copy(str[g])}
<1>1. g \in Live /\ Returns("copy", h, <<g>>, outcomes)
  BY DEF CallCopyNew
<1> SUFFICES ASSUME NEW o \in outcomes PROVE Answers(o, "copy", h, <<g>>)
  BY <1>1, ReturnsKept
<1>2. PICK c \in CreateFrom("char", Contents(str[g])) :
         o.ret = c.ret /\ o.vec = IF c.ret = "ok" THEN c.vec ELSE str[h]
  BY DEF str_Copy, Outcome
<1> HIDE DEF outcomes
<1>3. /\ Contents(str[g]) \in Seq(Val) /\ Len(Contents(str[g])) <= MaxUsed
      /\ Clean(Contents(str[g]))
  BY <1>1, LiveFine, StringForms DEF Fine
<1>4. CASE c.ret # "ok"
  BY <1>2, <1>4, FailedAnswers
<1>5. CASE c.ret = "ok" /\ Fine(c.vec) /\ Contents(c.vec) = Contents(str[g])
  BY <1>1, <1>2, <1>5, CopiedAnswers
<1> QED BY <1>2, <1>3, <1>4, <1>5, CreateFromStores

LEMMA CopyKept ==
    ASSUME IInv, NEW h \in Handles, NEW g \in Handles, CallCopy(h, g)
    PROVE  Kept
<1>1. h \in Live /\ g \in Live /\ Returns("copy", h, <<g>>, str_copy(str[h], str[g]))
  BY DEF CallCopy
<1> SUFFICES ASSUME NEW o \in str_copy(str[h], str[g]) PROVE Answers(o, "copy", h, <<g>>)
  BY <1>1, ReturnsKept
<1>2. /\ Contents(str[g]) \in Seq(Val) /\ Len(Contents(str[g])) <= MaxUsed
      /\ Clean(Contents(str[g])) /\ Fine(str[h])
  BY <1>1, LiveFine, StringForms DEF Fine
<1>3. Stores(o, str[h], Contents(str[g]))
  BY <1>2, CopyFromStores DEF str_copy
<1>4. CASE o.ret # "ok" /\ o.vec = str[h]
  BY <1>4, FailedAnswers
<1>5. CASE o.ret = "ok" /\ o.vec = LOST
  BY <1>5 DEF Answers
<1>6. CASE o.ret = "ok" /\ Fine(o.vec) /\ Contents(o.vec) = Contents(str[g])
  BY <1>1, <1>6, CopiedAnswers
<1> QED BY <1>3, <1>4, <1>5, <1>6 DEF Stores

----------------------------------------------------------------------------
(* Joining *)

\* The NUL is taken off.
Unended(o, v) ==
    \/ o.ret # "ok" /\ o.vec = v /\ ~Terminated(v)
    \/ /\ o.ret = "ok" /\ o.vec # LOST /\ Fine(o.vec)
       /\ Contents(o.vec) \in Seq(Char) /\ o.vec.used \in Nat /\ o.vec.used = v.used - 1
       /\ Terminated(v) => Contents(o.vec) = Text(v)

LEMMA RemoveLastUnends ==
    ASSUME NEW v, Fine(v), NEW o \in RemoveLast(v)
    PROVE  Unended(o, v)
<1> DEFINE s == Contents(v)
           t == SubSeq(s, 1, Len(s) - 1)
<1>1. /\ IsVector(v) /\ v.of = "char" /\ v.size \in Sizes /\ v.used \in Nat /\ v.used <= MaxUsed
      /\ s \in Seq(Val) /\ Len(s) = v.used
  BY StringForms
<1>2. DoesInPlace(o, v, t) /\ (o.ret = "ok" <=> v.used > 0)
  BY <1>1, RemoveLastDoes
<1>3. CASE o.ret # "ok"
  <2>1. o = Outcome("EDOM", v)
    BY <1>2, <1>3 DEF DoesInPlace
  <2>2. ~Terminated(v)
    BY <1>2, <1>3 DEF Terminated
  <2> QED BY <1>3, <2>1, <2>2 DEF Unended, Outcome
<1>4. CASE o.ret = "ok"
  <2>1. Became(o.vec, v, 0, t)
    BY <1>2, <1>4 DEF DoesInPlace, Outcome
  <2>2. v.used - 1 \in 0 .. v.used /\ v.used - 1 \in Nat
    BY <1>1, <1>2, <1>4
  <2>3. t \in Seq(Val) /\ Len(t) = v.used - 1 /\ \A k \in 1 .. v.used - 1 : t[k] = s[k]
    BY <1>1, <2>2, Parts
  <2>4. t \in Seq(Char) /\ (Terminated(v) => t = Text(v))
    <3>1. CASE Contents(v) \in Seq(Char) /\ ~Terminated(v)
      <4> DEFINE n == v.used - 1
      <4>1. n \in 0 .. Len(s) /\ 0 \in Nat /\ 0 + 1 = 1
        BY <1>1, <2>2
      <4>2. s \in Seq(Char)
        BY <3>1
      <4> HIDE DEF n, s
      <4>3. SubSeq(s, 0 + 1, n) \in Seq(Char)
        BY <4>1, <4>2, PartChars
      <4> QED BY <1>1, <3>1, <4>1, <4>3 DEF n
    <3>2. CASE /\ Terminated(v) /\ Text(v) \in Seq(Char)
               /\ s = Text(v) \o <<NUL>> /\ v.used = Len(Text(v)) + 1
      <4> DEFINE x == Text(v)
      <4>1. x \in Seq(Char) /\ s = x \o <<NUL>> /\ v.used - 1 = Len(x)
        BY <3>2, CharsType
      <4> HIDE DEF x, s
      <4>2. \A k \in 1 .. Len(x) : s[k] = x[k]
        BY <4>1, EndedType
      <4>3. x \in Seq(Val)
        BY <4>1, CharsType
      <4> HIDE DEF t
      <4>4. t = x
        BY <2>3, <4>1, <4>2, <4>3, SeqEqual
      <4> QED BY <4>1, <4>4 DEF x
    <3> QED BY <3>1, <3>2, StringForms
  <2> HIDE DEF t
  <2>5. 0 \in 0 .. MaxUsed /\ Len(t) <= MaxUsed /\ Clean(t)
    <3>1. 0 \in 0 .. MaxUsed
      BY StrAssumption, PolicySizeAssumption
    <3>2. Len(t) <= MaxUsed
      BY <1>1, <2>2, <2>3, StrAssumption, PolicySizeAssumption
    <3>3. Clean(t)
      BY <2>3, <2>4, CleanForms
    <3> QED BY <3>1, <3>2, <3>3
  <2>6. Fine(o.vec) /\ Contents(o.vec) = t /\ o.vec.used = Len(t)
    BY <1>1, <2>1, <2>5, BecomesFine
  <2>7. o.vec # LOST
    BY <2>6, FineIsString
  <2> QED BY <1>4, <2>2, <2>3, <2>4, <2>6, <2>7 DEF Unended
<1> QED BY <1>3, <1>4

\* charvec_append_n makes a block larger only when there is room already, and
\* the policy gives no larger one then: append never runs out of memory.
LEMMA ConcatenateIsOk ==
    ASSUME NEW v, Fine(v), NEW u, u.used \in Nat, NEW same, NEW o \in Concatenate(v, u, same)
    PROVE  o.ret = "ok"
<1> DEFINE total == v.used + u.used
           must == AppendNGrows(v, u.used)
<1>1. v.of = "char" /\ v.used \in Nat /\ v.size \in Sizes
  BY StringForms
<1>2. (must <=> total < v.size) /\ total \in Nat
  BY <1>1 DEF AppendNGrows
<1>3. ~NeedsMemory(v, must, total)
  <2>1. v.size \in Nat /\ v.of \in Type
    BY StringForms, VectorParts
  <2>2. total < v.size => POLICY_SIZE_STEP(total) \in Nat /\ POLICY_SIZE_STEP(total) <= v.size
    <3> SUFFICES ASSUME total < v.size
                 PROVE  POLICY_SIZE_STEP(total) \in Nat /\ POLICY_SIZE_STEP(total) <= v.size
      OBVIOUS
    <3> HIDE DEF total
    <3>1. POLICY_SIZE_STEP(total) <= v.size
      BY <1>1, <1>2, PolicySteps
    <3>2. POLICY_SIZE_STEP(total) \in Nat
      <4>1. RoundUp(total) \in Int
        BY <1>2, PolicySizeAssumption DEF RoundUp
      <4>2. total <= SizeMax => RoundUp(total) \in Nat
        BY <1>2, RoundUpCovers, PolicySizeAssumption
      <4> QED BY <1>2, <4>2, PolicySizeAssumption DEF POLICY_SIZE_STEP
    <3> QED BY <3>1, <3>2
  <2> HIDE DEF must, total
  <2>3. must => ~(POLICY_SIZE_STEP(total) > v.size)
    BY <1>2, <2>1, <2>2
  <2> QED BY <2>3 DEF NeedsMemory
<1>4. Moved(v, same, must, total) = {}
  BY <1>3 DEF Moved
<1> QED BY <1>3, <1>4 DEF Concatenate, Attempt, Outcome

\* What is joined to a string: a text with its NUL, or without it.
LEMMA ConcatenateStores ==
    ASSUME NEW v, Fine(v), NEW u, Fine(u), v.used + u.used <= MaxUsed,
           Contents(v) \in Seq(Char), NEW same \in BOOLEAN, NEW o \in Concatenate(v, u, same)
    PROVE  /\ o.ret = "ok"
           /\ o.vec = LOST \/ (Fine(o.vec) /\ Contents(o.vec) = Contents(v) \o Contents(u))
           /\ Contents(u) \in Seq(Char) => Contents(v) \o Contents(u) \in Seq(Char)
           /\ \A t \in Seq(Char) : Contents(u) = t \o <<NUL>> =>
                 /\ Contents(v) \o t \in Seq(Char)
                 /\ Contents(v) \o Contents(u) = (Contents(v) \o t) \o <<NUL>>
<1> DEFINE f == Contents(v)
           c == Contents(u)
           seq == f \o c
           n == v.used + u.used
<1>1. /\ IsVector(v) /\ v.of = "char" /\ v.size \in Sizes /\ v.used \in Nat
      /\ f \in Seq(Val) /\ f \in Seq(Char) /\ Len(f) = v.used
      /\ IsVector(u) /\ u.used \in Nat /\ c \in Seq(Val) /\ Len(c) = u.used
  BY StringForms
<1>2. n \in 0 .. MaxUsed /\ n < WordSize
  BY <1>1, StrAssumption, PolicySizeAssumption
<1>3. o.ret = "ok"
  BY <1>1, ConcatenateIsOk
<1>4. PICK overrun : Does(o, v, n, seq, overrun)
  BY <1>1, <1>2, ConcatenateDoes
<1>5. seq \in Seq(Val) /\ Len(seq) = n
  <2> HIDE DEF f, c, n
  <2>1. seq \in Seq(Val) /\ Len(seq) = Len(f) + Len(c)
    BY <1>1, ConcatProperties, Zenon
  <2> QED BY <1>1, <2>1 DEF n
<1>6. c \in Seq(Char) => seq \in Seq(Char)
  <2> HIDE DEF f, c
  <2> QED BY <1>1, JoinedChars
<1>7. ASSUME NEW t \in Seq(Char), c = t \o <<NUL>>
      PROVE  f \o t \in Seq(Char) /\ seq = (f \o t) \o <<NUL>>
  <2> HIDE DEF f, c
  <2>1. f \o t \in Seq(Char)
    BY <1>1, JoinedChars
  <2> DEFINE z == <<NUL>>
  <2>2. t \in Seq(Val) /\ z \in Seq(Val) /\ c = t \o z
    BY <1>7, CharsType, StrAssumption
  <2> HIDE DEF z
  <2>3. (f \o t) \o z = f \o (t \o z)
    BY <1>1, <2>2, Associated
  <2> QED BY <2>1, <2>2, <2>3 DEF z
<1>8. Clean(seq)
  <2>1. c \in Seq(Char) \/ \E t \in Seq(Char) : c = t \o <<NUL>>
    BY <1>1, CleanForms DEF Fine
  <2>2. CASE c \in Seq(Char)
    <3>1. seq \in Seq(Char)
      BY <1>6, <2>2
    <3> HIDE DEF seq
    <3> QED BY <1>5, <3>1, CleanForms
  <2>3. ASSUME NEW t \in Seq(Char), c = t \o <<NUL>> PROVE Clean(seq)
    <3> DEFINE x == f \o t
    <3>1. x \in Seq(Char) /\ seq = x \o <<NUL>>
      BY <1>7, <2>3
    <3> HIDE DEF x, seq
    <3> QED BY <3>1, EndedType
  <2> QED BY <2>1, <2>2, <2>3
<1>9. Stores(o, v, seq)
  <2> HIDE DEF seq, n
  <2>1. Len(seq) <= MaxUsed
    BY <1>2, <1>5
  <2> QED BY <1>1, <1>2, <1>4, <1>8, <2>1, DoesStores
<1>10. o.vec = LOST \/ (Fine(o.vec) /\ Contents(o.vec) = seq)
  BY <1>3, <1>9 DEF Stores
<1> QED BY ONLY <1>3, <1>6, <1>7, <1>10

LEMMA AppendKept ==
    ASSUME IInv, NEW h \in Handles, NEW g \in Handles, CallAppend(h, g)
    PROVE  Kept
<1>1. /\ h \in Live /\ g \in Live /\ str[h].used + str[g].used <= MaxUsed
      /\ Returns("append", h, <<g>>, str_append(str[h], str[g], h = g))
  BY DEF CallAppend
<1> SUFFICES ASSUME NEW o \in str_append(str[h], str[g], h = g)
             PROVE  Answers(o, "append", h, <<g>>)
  BY <1>1, ReturnsKept
<1> DEFINE same == h = g
<1>2. PICK r \in RemoveLast(str[h]) :
         \/ /\ r.ret = "ok" /\ r.vec # LOST
            /\ o \in Concatenate(r.vec, IF same THEN r.vec ELSE str[g], same)
         \/ ~(r.ret = "ok" /\ r.vec # LOST) /\ o = r
  BY DEF str_append, Then
<1>3. Fine(str[h]) /\ Fine(str[g]) /\ str[h].used \in Nat /\ str[g].used \in Nat
  BY <1>1, LiveFine, StringForms
<1>4. Unended(r, str[h])
  BY <1>3, RemoveLastUnends
<1>5. CASE r.ret # "ok" /\ r.vec = str[h]
  BY <1>2, <1>5, FailedAnswers
<1>6. CASE /\ r.ret = "ok" /\ r.vec # LOST /\ Fine(r.vec)
           /\ Contents(r.vec) \in Seq(Char) /\ r.vec.used \in Nat /\ r.vec.used = str[h].used - 1
           /\ Terminated(str[h]) => Contents(r.vec) = Text(str[h])
  <2> DEFINE w == r.vec
  <2>1. /\ o \in Concatenate(w, IF same THEN w ELSE str[g], same)
        /\ Fine(w) /\ Contents(w) \in Seq(Char)
        /\ w.used \in Nat /\ w.used = str[h].used - 1
        /\ Terminated(str[h]) => Contents(w) = Text(str[h])
    BY <1>2, <1>6
  <2> HIDE DEF w
  <2>2. CASE h = g
    <3>1. o \in Concatenate(w, w, TRUE)
      BY <2>1, <2>2, Zenon
    <3>2. w.used + w.used <= MaxUsed
      BY <1>1, <1>3, <2>1, <2>2, StrAssumption, PolicySizeAssumption
    <3>3. o.vec = LOST \/ (Fine(o.vec) /\ Contents(o.vec) \in Seq(Char))
      <4>1. /\ o.vec = LOST \/ (Fine(o.vec) /\ Contents(o.vec) = Contents(w) \o Contents(w))
            /\ Contents(w) \in Seq(Char) => Contents(w) \o Contents(w) \in Seq(Char)
        BY <2>1, <3>1, <3>2, ConcatenateStores
      <4>2. Contents(w) \o Contents(w) \in Seq(Char)
        BY <2>1, <4>1
      <4> QED BY ONLY <4>1, <4>2
    <3>4. Fine(o.vec) /\ Contents(o.vec) \in Seq(Char) => ~Terminated(o.vec)
      BY NotTerminated DEF Fine
    <3>5. Excused("append", h, <<g>>, o.ret)
      BY <2>2 DEF Excused
    <3> QED BY <3>3, <3>4, <3>5 DEF Answers, Sound
  <2>3. CASE h # g
    <3>1. o \in Concatenate(w, str[g], FALSE)
      BY <2>1, <2>3, Zenon
    <3>2. w.used + str[g].used <= MaxUsed
      BY <1>1, <1>3, <2>1, StrAssumption, PolicySizeAssumption
    <3>3. /\ o.vec = LOST \/ (Fine(o.vec) /\ Contents(o.vec) = Contents(w) \o Contents(str[g]))
          /\ \A t \in Seq(Char) : Contents(str[g]) = t \o <<NUL>> =>
                /\ Contents(w) \o t \in Seq(Char)
                /\ Contents(w) \o Contents(str[g]) = (Contents(w) \o t) \o <<NUL>>
      BY <1>3, <2>1, <3>1, <3>2, ConcatenateStores
    <3>4. CASE o.vec = LOST
      BY <3>4 DEF Answers
    <3>5. CASE o.vec # LOST /\ ~Terminated(str[g])
      BY <1>1, <3>3, <3>5, LiveTerminated DEF Answers, Sound
    <3>6. CASE o.vec # LOST /\ Terminated(str[g])
      <4> DEFINE t == Contents(w) \o Text(str[g])
      <4>1. Text(str[g]) \in Seq(Char) /\ Contents(str[g]) = Text(str[g]) \o <<NUL>>
        BY <1>3, <3>6, StringForms
      <4>2. t \in Seq(Char) /\ Fine(o.vec) /\ Contents(o.vec) = t \o <<NUL>>
        BY <3>3, <3>6, <4>1
      <4>3. AllTerminated => t = Expected("append", h, <<g>>)
        BY <1>1, <2>1, LiveTerminated DEF Expected
      <4> HIDE DEF t
      <4> QED BY <4>2, <4>3, EndedAnswers
    <3> QED BY <3>4, <3>5, <3>6
  <2> QED BY <2>2, <2>3
<1> QED BY <1>4, <1>5, <1>6 DEF Unended

----------------------------------------------------------------------------
(* Appending a character, taking a part *)

\* A text gets its NUL, unless memory is not had.
LEMMA NulStored ==
    ASSUME NEW v, Fine(v), v.used < MaxUsed, NEW t \in Seq(Char), Contents(v) = t,
           NEW fn \in {"append_char", "substr"}, NEW h, NEW args, NEW o \in AppendOne(v, NUL),
           AllTerminated => t = Expected(fn, h, args)
    PROVE  Answers(o, fn, h, args)
<1> DEFINE s == t \o <<NUL>>
<1>1. Clean(s) /\ NUL \in Val
  BY EndedType, StrAssumption
<1>2. Stores(o, v, s)
  BY <1>1, AppendOneStores
<1>3. o.ret \in {"ok", "ENOMEM"}
  BY DEF AppendOne, Attempt, Outcome
<1> HIDE DEF s
<1>4. CASE o.ret # "ok" /\ o.vec = v
  <2>1. ~Terminated(v)
    BY NotTerminated DEF Fine
  <2>2. Excused(fn, h, args, o.ret)
    BY <1>3, <1>4 DEF Excused
  <2> QED BY <1>4, <2>1, <2>2 DEF Answers, Sound
<1>5. CASE o.ret = "ok" /\ o.vec = LOST
  BY <1>5 DEF Answers
<1>6. CASE o.ret = "ok" /\ Fine(o.vec) /\ Contents(o.vec) = s
  BY <1>6, EndedAnswers DEF s
<1> QED BY <1>2, <1>4, <1>5, <1>6 DEF Stores

LEMMA AppendCharKept ==
    ASSUME IInv, NEW h \in Handles, NEW ch \in Char, CallAppendChar(h, ch)
    PROVE  Kept
<1>1. /\ h \in Live /\ str[h].used < MaxUsed
      /\ Returns("append_char", h, <<ch>>, str_append_char(str[h], ch))
  BY DEF CallAppendChar
<1> SUFFICES ASSUME NEW o \in str_append_char(str[h], ch)
             PROVE  Answers(o, "append_char", h, <<ch>>)
  BY <1>1, ReturnsKept
<1>2. PICK r \in RemoveLast(str[h]) :
         \/ r.ret = "ok" /\ r.vec # LOST /\ o \in Then(AppendOne(r.vec, ch), LAMBDA w : AppendOne(w, NUL))
         \/ ~(r.ret = "ok" /\ r.vec # LOST) /\ o = r
  BY DEF str_append_char, Then
<1>3. Fine(str[h]) /\ str[h].used \in Nat
  BY <1>1, LiveFine, StringForms
<1>4. Unended(r, str[h])
  BY <1>3, RemoveLastUnends
<1>5. CASE r.ret # "ok" /\ r.vec = str[h]
  BY <1>2, <1>5, FailedAnswers
<1>6. CASE /\ r.ret = "ok" /\ r.vec # LOST /\ Fine(r.vec)
           /\ Contents(r.vec) \in Seq(Char) /\ r.vec.used \in Nat /\ r.vec.used = str[h].used - 1
           /\ Terminated(str[h]) => Contents(r.vec) = Text(str[h])
  <2> DEFINE v == r.vec
             f == Contents(v)
             t == f \o <<ch>>
  <2>1. PICK a \in AppendOne(v, ch) :
           \/ a.ret = "ok" /\ a.vec # LOST /\ o \in AppendOne(a.vec, NUL)
           \/ ~(a.ret = "ok" /\ a.vec # LOST) /\ o = a
    BY <1>2, <1>6 DEF Then
  <2>2. /\ Fine(v) /\ v.used \in Nat /\ v.used + 1 < MaxUsed /\ v.used < MaxUsed /\ f \in Seq(Char)
        /\ f \in Seq(Val) /\ Len(f) = v.used
        /\ Terminated(str[h]) => f = Text(str[h])
    <3>1. v.used + 1 < MaxUsed /\ v.used < MaxUsed
      BY <1>1, <1>3, <1>6, StrAssumption, PolicySizeAssumption
    <3> QED BY <1>6, <3>1, StringForms
  <2> HIDE DEF v
  <2>3. t \in Seq(Char) /\ Len(t) = v.used + 1
    <3> HIDE DEF f
    <3>1. <<ch>> \in Seq(Char) /\ Len(<<ch>>) = 1
      BY OneChar
    <3>2. t \in Seq(Char) /\ Len(t) = Len(f) + Len(<<ch>>)
      BY <2>2, <3>1, JoinedChars
    <3> QED BY <2>2, <3>1, <3>2
  <2>4. Clean(t) /\ ch \in Val
    <3> HIDE DEF t
    <3> QED BY <2>3, CharsType, CleanForms DEF Char
  <2>5. Stores(a, v, t)
    BY <2>1, <2>2, <2>4, AppendOneStores
  <2>6. AllTerminated => t = Expected("append_char", h, <<ch>>)
    <3> SUFFICES ASSUME AllTerminated PROVE t = Expected("append_char", h, <<ch>>)
      OBVIOUS
    <3>1. f = Text(str[h])
      BY <1>1, <2>2, LiveTerminated
    <3> HIDE DEF f
    <3>2. Append(f, ch) = f \o <<ch>>
      BY <2>2, <2>4, AppendIsConcat
    <3> QED BY <3>1, <3>2 DEF Expected
  <2>7. CASE a.ret # "ok" /\ a.vec = v
    <3>1. o = a /\ a.ret = "ENOMEM"
      BY <2>1, <2>7 DEF AppendOne, Attempt, Outcome
    <3>2. ~Terminated(v)
      BY <2>2, NotTerminated DEF Fine
    <3>3. Excused("append_char", h, <<ch>>, o.ret)
      BY <3>1 DEF Excused
    <3> QED BY <2>2, <2>7, <3>1, <3>2, <3>3 DEF Answers, Sound
  <2>8. CASE a.ret = "ok" /\ a.vec = LOST
    BY <2>1, <2>8 DEF Answers
  <2>9. CASE a.ret = "ok" /\ Fine(a.vec) /\ Contents(a.vec) = t
    <3> HIDE DEF t
    <3>1. a.vec # LOST /\ a.vec.used = v.used + 1
      BY <2>3, <2>9, FineIsString, StringForms
    <3>2. o \in AppendOne(a.vec, NUL) /\ a.vec.used < MaxUsed
      BY <2>1, <2>2, <2>9, <3>1
    <3> QED BY <2>3, <2>6, <2>9, <3>2, NulStored
  <2> QED BY <2>5, <2>7, <2>8, <2>9 DEF Stores
<1> QED BY <1>4, <1>5, <1>6 DEF Unended

\* A part that reaches the end of a string has its NUL, another one is a text.
LEMMA SlicedString ==
    ASSUME NEW t \in Seq(Char), NEW c, c = t \o <<NUL>>, NEW start \in 0 .. Len(t), NEW len \in Nat
    PROVE  /\ Sliced(t, start, len) \in Seq(Char)
           /\ start + len <= Len(t) => Sliced(c, start, len) = Sliced(t, start, len)
           /\ start + len > Len(t) => Sliced(c, start, len) = Sliced(t, start, len) \o <<NUL>>
<1> DEFINE n == Len(t)
           stop == IF start + len > n THEN n ELSE start + len
           e == SubSeq(t, start + 1, stop)
<1>1. n \in Nat /\ Len(c) = n + 1 /\ c \in Seq(Val) /\ t \in Seq(Val) /\ c[n + 1] = NUL
      /\ \A k \in 1 .. n : c[k] = t[k]
  BY EndedType, CharsType
<1>2. stop \in 0 .. n /\ start \in 0 .. n /\ start <= stop
  BY <1>1
<1>3. e \in Seq(Char)
  <2> HIDE DEF stop
  <2> QED BY <1>2, PartChars
<1>4. /\ e \in Seq(Val) /\ Len(e) = stop - start
      /\ \A k \in 1 .. stop - start : e[k] = t[start + k]
  <2> HIDE DEF n, stop
  <2>1. start + 1 \in Int /\ stop \in Int
    BY <1>1, <1>2
  <2>2. \A k \in start + 1 .. stop : t[k] \in Val
    <3> SUFFICES ASSUME NEW k \in start + 1 .. stop PROVE t[k] \in Val
      OBVIOUS
    <3>1. k \in 1 .. n
      BY <1>1, <1>2
    <3> QED BY <1>1, <3>1, ElementOfSeq DEF n
  <2>3. /\ e \in Seq(Val) /\ Len(e) = IF start + 1 <= stop THEN stop - (start + 1) + 1 ELSE 0
        /\ \A k \in 1 .. stop - (start + 1) + 1 : e[k] = t[start + 1 + k - 1]
    BY <2>1, <2>2, SubSeqProperties
  <2> HIDE DEF e
  <2>4. Len(e) = stop - start
    BY <1>1, <1>2, <2>3
  <2>5. ASSUME NEW k \in 1 .. stop - start PROVE e[k] = t[start + k]
    <3>1. k \in 1 .. stop - (start + 1) + 1 /\ start + 1 + k - 1 = start + k
      BY <1>1, <1>2
    <3> QED BY <2>3, <3>1
  <2> QED BY <2>3, <2>4, <2>5
<1>5. ASSUME NEW last \in start .. n + 1
      PROVE  /\ SubSeq(c, start + 1, last) \in Seq(Val)
             /\ Len(SubSeq(c, start + 1, last)) = last - start
             /\ \A k \in 1 .. last - start : SubSeq(c, start + 1, last)[k] = c[start + k]
  <2> DEFINE x == SubSeq(c, start + 1, last)
  <2> HIDE DEF n
  <2>1. start + 1 \in Int /\ last \in Int /\ last >= start
    BY <1>1, <1>2
  <2>2. \A k \in start + 1 .. last : c[k] \in Val
    <3> SUFFICES ASSUME NEW k \in start + 1 .. last PROVE c[k] \in Val
      OBVIOUS
    <3>1. k \in 1 .. Len(c)
      BY <1>1, <1>2
    <3> QED BY <1>1, <3>1, ElementOfSeq
  <2>3. /\ x \in Seq(Val) /\ Len(x) = IF start + 1 <= last THEN last - (start + 1) + 1 ELSE 0
        /\ \A k \in 1 .. last - (start + 1) + 1 : x[k] = c[start + 1 + k - 1]
    BY ONLY <2>1, <2>2, SubSeqProperties
  <2> HIDE DEF x
  <2>4. Len(x) = last - start
    BY <1>1, <1>2, <2>1, <2>3
  <2>5. ASSUME NEW k \in 1 .. last - start PROVE x[k] = c[start + k]
    <3>1. k \in 1 .. last - (start + 1) + 1 /\ start + 1 + k - 1 = start + k
      BY <1>1, <1>2, <2>1
    <3> QED BY <2>3, <3>1
  <2> QED BY <2>3, <2>4, <2>5 DEF x
<1>6. ASSUME start + len <= n PROVE Sliced(c, start, len) = e
  <2>1. stop = start + len /\ stop \in start .. n + 1 /\ ~(start + len > Len(c))
    BY <1>1, <1>2, <1>6
  <2> DEFINE x == SubSeq(c, start + 1, stop)
  <2>2. Sliced(c, start, len) = x
    BY <2>1 DEF Sliced
  <2> HIDE DEF stop
  <2>3. x \in Seq(Val) /\ Len(x) = stop - start /\ \A k \in 1 .. stop - start : x[k] = c[start + k]
    BY <1>5, <2>1
  <2> HIDE DEF e, x, n
  <2>4. \A k \in 1 .. stop - start : x[k] = e[k]
    <3> TAKE k \in 1 .. stop - start
    <3>1. start + k \in 1 .. n
      BY <1>1, <1>2
    <3> QED BY <1>1, <1>4, <2>3, <3>1
  <2>5. x = e
    BY <1>4, <2>3, <2>4, SeqEqual
  <2> QED BY <2>2, <2>5
<1>7. ASSUME start + len > n PROVE Sliced(c, start, len) = e \o <<NUL>>
  <2> DEFINE x == SubSeq(c, start + 1, n + 1)
             y == e \o <<NUL>>
  <2>1. stop = n /\ n + 1 \in start .. n + 1
        /\ (IF start + len > Len(c) THEN Len(c) ELSE start + len) = n + 1
    BY <1>1, <1>2, <1>7
  <2>2. Sliced(c, start, len) = x
    BY <2>1 DEF Sliced
  <2> HIDE DEF stop
  <2>3. /\ x \in Seq(Val) /\ Len(x) = n + 1 - start
        /\ \A k \in 1 .. n + 1 - start : x[k] = c[start + k]
    BY <1>5, <2>1
  <2> HIDE DEF e
  <2>4. /\ y \in Seq(Val) /\ Len(y) = Len(e) + 1 /\ y[Len(y)] = NUL
        /\ \A k \in 1 .. Len(e) : y[k] = e[k]
    BY <1>3, EndedType
  <2> HIDE DEF x, y, n
  <2>5. Len(y) = n + 1 - start /\ Len(e) = n - start
    BY <1>1, <1>2, <1>4, <2>1, <2>4
  <2>6. \A k \in 1 .. n + 1 - start : x[k] = y[k]
    <3> TAKE k \in 1 .. n + 1 - start
    <3>1. CASE k = n + 1 - start
      <4>1. start + k = n + 1
        BY <1>1, <1>2, <3>1
      <4> QED BY <1>1, <2>3, <2>4, <2>5, <3>1, <4>1
    <3>2. CASE k \in 1 .. n - start
      <4>1. start + k \in 1 .. n
        BY <1>1, <1>2, <3>2
      <4> QED BY <1>1, <1>4, <2>1, <2>3, <2>4, <2>5, <3>2, <4>1
    <3> QED BY <1>1, <1>2, <3>1, <3>2
  <2>7. x = y
    BY <2>3, <2>4, <2>5, <2>6, SeqEqual
  <2> QED BY <2>2, <2>7 DEF y
<1>8. Sliced(t, start, len) = e
  BY DEF Sliced
<1> HIDE DEF e
<1> QED BY <1>3, <1>6, <1>7, <1>8

LEMMA SlicedLength ==
    ASSUME NEW s \in Seq(Val), NEW start \in Nat, NEW len \in Nat
    PROVE  Len(Sliced(s, start, len)) <= len
<1> DEFINE stop == IF start + len > Len(s) THEN Len(s) ELSE start + len
           x == SubSeq(s, start + 1, stop)
<1>1. Len(s) \in Nat /\ stop \in Nat /\ stop <= Len(s) /\ stop <= start + len
  BY LenProperties
<1> HIDE DEF stop
<1>2. start + 1 \in Int /\ stop \in Int
  BY <1>1
<1>3. \A k \in start + 1 .. stop : s[k] \in Val
  <2> SUFFICES ASSUME NEW k \in start + 1 .. stop PROVE s[k] \in Val
    OBVIOUS
  <2>1. k \in 1 .. Len(s)
    BY <1>1
  <2> QED BY <2>1, ElementOfSeq
<1>4. Len(x) = IF start + 1 <= stop THEN stop - (start + 1) + 1 ELSE 0
  BY ONLY <1>2, <1>3, SubSeqProperties
<1> HIDE DEF x
<1>5. Len(x) <= len
  BY <1>1, <1>4
<1> QED BY <1>5 DEF x, stop, Sliced

\* A part of a string without a NUL is without one, any part is a string's.
LEMMA SlicedClean ==
    ASSUME NEW v, Fine(v), NEW start \in Nat, NEW len \in Nat, start < v.used
    PROVE  LET xs == Sliced(Contents(v), start, len) IN
           Clean(xs) /\ (Contents(v) \in Seq(Char) => xs \in Seq(Char))
<1> DEFINE c == Contents(v)
           xs == Sliced(c, start, len)
<1>1. c \in Seq(Val) /\ Len(c) = v.used /\ v.used \in Nat /\ xs \in Seq(Val)
  BY StringForms, SlicedType
<1>2. ASSUME c \in Seq(Char) PROVE xs \in Seq(Char)
  <2> DEFINE stop == IF start + len > Len(c) THEN Len(c) ELSE start + len
  <2>1. stop \in 0 .. Len(c)
    BY <1>1
  <2>2. xs = SubSeq(c, start + 1, stop)
    BY DEF Sliced
  <2> HIDE DEF stop, c, xs
  <2> QED BY <1>2, <2>1, <2>2, PartChars
<1>3. ASSUME c \in Seq(Char) PROVE Clean(xs)
  BY <1>2, <1>3, CharsClean
<1>4. ASSUME NEW t \in Seq(Char), c = t \o <<NUL>> PROVE Clean(xs)
  <2> DEFINE e == Sliced(t, start, len)
  <2> HIDE DEF c
  <2>0. Len(c) = Len(t) + 1 /\ Len(t) \in Nat /\ start \in 0 .. Len(t)
    BY <1>1, <1>4, EndedType
  <2>1. /\ e \in Seq(Char)
        /\ start + len <= Len(t) => xs = e
        /\ start + len > Len(t) => xs = e \o <<NUL>>
    BY <1>4, <2>0, SlicedString
  <2> HIDE DEF e, xs
  <2>2. CASE start + len <= Len(t)
    <3>1. xs \in Seq(Char)
      BY <2>1, <2>2
    <3> QED BY <1>1, <3>1, CleanForms
  <2>3. CASE start + len > Len(t)
    BY <2>1, <2>3, EndedType
  <2> QED BY <2>0, <2>2, <2>3
<1>5. c \in Seq(Char) \/ \E t \in Seq(Char) : c = t \o <<NUL>>
  BY <1>1, CleanForms DEF Fine
<1> QED BY <1>2, <1>3, <1>4, <1>5

\* The slice, and then its NUL.
LEMMA SubstrAnswers ==
    ASSUME IInv, NEW h \in Live, NEW g \in Live, NEW start \in Nat, NEW len \in Nat,
           start < str[g].used, NEW r, Fine(r.vec), r.ret = "ok",
           Contents(r.vec) = Sliced(Contents(str[g]), start, len),
           NEW o, NEW u, u = IF h = g THEN r.vec ELSE str[g],
           o \in IF start + len < u.used THEN AppendOne(r.vec, NUL) ELSE {Outcome("ok", r.vec)}
    PROVE  Answers(o, "substr", h, <<g, start, len>>)
<1> DEFINE c == Contents(str[g])
           w == r.vec
           args == <<g, start, len>>
           s == Sliced(Text(str[g]), start, len)
<1>1. /\ c \in Seq(Val) /\ Len(c) = str[g].used /\ str[g].used \in Nat /\ str[g].used <= MaxUsed
      /\ Fine(str[g]) /\ IsVector(w) /\ Fine(w)
  BY LiveFine, StringForms
<1>2. Contents(w) = Sliced(c, start, len) /\ args[1] = g
  OBVIOUS
<1>3. w.used = Len(Contents(w)) /\ w.used \in Nat /\ Len(Contents(w)) <= len
  BY <1>1, <1>2, StringForms, SlicedLength
<1>4. s = Expected("substr", h, args)
  BY DEF Expected, Sliced
<1>5. ASSUME Terminated(str[g])
      PROVE  /\ start \in 0 .. str[g].used - 1 /\ s \in Seq(Char)
             /\ start + len < str[g].used => Contents(w) = s
             /\ start + len >= str[g].used => Contents(w) = s \o <<NUL>>
  <2> DEFINE t == Text(str[g])
  <2>1. t \in Seq(Char) /\ c = t \o <<NUL>> /\ str[g].used = Len(t) + 1
    BY <1>1, <1>5, StringForms
  <2>2. Len(t) \in Nat /\ start \in 0 .. Len(t)
    BY <2>1, LenProperties
  <2> HIDE DEF t, c, w
  <2>3. /\ Sliced(t, start, len) \in Seq(Char)
        /\ start + len <= Len(t) => Sliced(c, start, len) = Sliced(t, start, len)
        /\ start + len > Len(t) => Sliced(c, start, len) = Sliced(t, start, len) \o <<NUL>>
    BY <2>1, <2>2, SlicedString
  <2>4. start \in 0 .. str[g].used - 1
    BY <2>1, <2>2
  <2>5. /\ start + len < str[g].used <=> start + len <= Len(t)
        /\ start + len >= str[g].used <=> start + len > Len(t)
    BY <2>1, <2>2
  <2> HIDE DEF s
  <2>6. s = Sliced(t, start, len)
    BY DEF s, t
  <2> QED BY ONLY <1>2, <2>3, <2>4, <2>5, <2>6
<1>6. ASSUME ~Terminated(str[g]) PROVE Contents(w) \in Seq(Char) /\ ~AllTerminated
  <2>1. c \in Seq(Char)
    BY <1>1, <1>6, StringForms
  <2>2. Contents(w) \in Seq(Char)
    BY <1>1, <1>2, <2>1, SlicedClean
  <2> QED BY <1>6, <2>2, LiveTerminated
<1> HIDE DEF c, w, s, args
<1>7. CASE o = Outcome("ok", w) /\ start + len >= str[g].used
  <2>1. o.vec = w
    BY <1>7 DEF Outcome
  <2>2. CASE Terminated(str[g])
    BY <1>1, <1>4, <1>5, <1>7, <2>1, <2>2, EndedAnswers DEF args
  <2>3. CASE ~Terminated(str[g])
    BY <1>1, <1>6, <2>1, <2>3 DEF Answers, Sound
  <2> QED BY <2>2, <2>3
<1>8. CASE o = Outcome("ok", w) /\ start + len < str[g].used /\ h = g
  <2>1. o.vec = w
    BY <1>8 DEF Outcome
  <2>2. CASE Terminated(str[g])
    <3>1. Contents(w) \in Seq(Char)
      BY <1>5, <1>8, <2>2
    <3>2. ~Terminated(w)
      BY <1>1, <3>1, NotTerminated
    <3>3. Excused("substr", h, args, o.ret)
      BY <1>2, <1>8 DEF Excused
    <3> QED BY <1>1, <2>1, <3>2, <3>3 DEF Answers, Sound, args
  <2>3. CASE ~Terminated(str[g])
    BY <1>1, <1>6, <2>1, <2>3 DEF Answers, Sound
  <2> QED BY <2>2, <2>3
<1>9. CASE o \in AppendOne(w, NUL) /\ start + len < str[g].used
  <2>1. w.used < MaxUsed
    BY <1>1, <1>3, <1>9, StrAssumption, PolicySizeAssumption
  <2>2. Contents(w) \in Seq(Char)
    BY <1>5, <1>6, <1>9
  <2>3. AllTerminated => Contents(w) = Expected("substr", h, args)
    BY <1>4, <1>5, <1>6, <1>9
  <2>4. Answers(o, "substr", h, args)
    BY <1>1, <1>9, <2>1, <2>2, <2>3, NulStored
  <2> QED BY <2>4 DEF args
<1>10. h = g => ~(start + len < w.used)
  BY <1>3
<1> QED BY <1>1, <1>7, <1>8, <1>9, <1>10 DEF w

LEMMA SubstrKept ==
    ASSUME IInv, NEW h \in Handles, NEW g \in Handles, NEW start \in Index, NEW len \in Index,
           CallSubstr(h, g, start, len)
    PROVE  Kept
<1> DEFINE args == <<g, start, len>>
           same == h = g
<1>1. /\ h \in Live /\ g \in Live
      /\ Returns("substr", h, args, str_substr(str[h], str[g], start, len, same))
  BY DEF CallSubstr
<1> SUFFICES ASSUME NEW o \in str_substr(str[h], str[g], start, len, same)
             PROVE  Answers(o, "substr", h, args)
  BY <1>1, ReturnsKept
<1>2. start \in Nat /\ len \in Nat
  BY StrAssumption, PolicySizeAssumption DEF Index
<1>3. PICK r \in Slice(str[h], str[g], start, len, same) :
         \/ /\ r.ret = "ok" /\ r.vec # LOST
            /\ o \in IF start + len < (IF same THEN r.vec ELSE str[g]).used
                     THEN AppendOne(r.vec, NUL) ELSE {Outcome("ok", r.vec)}
         \/ ~(r.ret = "ok" /\ r.vec # LOST) /\ o = r
  BY DEF str_substr, Then
<1>4. /\ Fine(str[h]) /\ Fine(str[g]) /\ IsVector(str[h]) /\ IsVector(str[g])
      /\ str[h].of = "char" /\ str[h].size \in Sizes
      /\ str[g].used < WordSize /\ str[g].used \in Nat /\ str[g].used <= MaxUsed
      /\ Contents(str[g]) \in Seq(Val)
  BY <1>1, LiveFine, StringForms
<1> DEFINE xs == Sliced(Contents(str[g]), start, len)
<1> HIDE DEF args
<1>5. CASE start >= str[g].used
  <2>1. r = Outcome("ERANGE", str[h])
    BY <1>2, <1>4, <1>5 DEF Slice
  <2>2. o.vec = str[h] /\ o.ret # "ok"
    BY <1>3, <2>1 DEF Outcome
  <2> QED BY <2>2, FailedAnswers
<1>6. CASE start < str[g].used
  <2>1. PICK overrun : Does(r, str[h], Len(xs), xs, overrun)
    <3>1. Does(r, str[h], Len(xs), xs, same /\ str[h].used > str[h].size)
      BY <1>2, <1>4, <1>6, SliceDoes
    <3> QED BY <3>1
  <2>2. Len(xs) <= str[g].used /\ Len(xs) \in Nat
    BY <1>2, <1>4, <1>6, SliceDoes, SlicedType, LenProperties
  <2>3. Len(xs) \in 0 .. MaxUsed /\ Len(xs) <= MaxUsed
    BY <1>4, <2>2, StrAssumption, PolicySizeAssumption
  <2>4. Clean(xs)
    BY <1>2, <1>4, <1>6, SlicedClean
  <2> HIDE DEF xs
  <2>5. Stores(r, str[h], xs)
    BY <1>4, <2>1, <2>3, <2>4, DoesStores
  <2>6. CASE r.ret # "ok" /\ r.vec = str[h]
    BY <1>3, <2>6, FailedAnswers
  <2>7. CASE r.ret = "ok" /\ r.vec = LOST
    BY <1>3, <2>7 DEF Answers
  <2>8. CASE r.ret = "ok" /\ Fine(r.vec) /\ Contents(r.vec) = xs
    <3>1. r.vec # LOST
      BY <2>8, FineIsString
    <3> QED BY <1>1, <1>2, <1>3, <1>6, <2>8, <3>1, SubstrAnswers DEF xs, args
  <2> QED BY <2>5, <2>6, <2>7, <2>8 DEF Stores
<1> QED BY <1>2, <1>4, <1>5, <1>6

----------------------------------------------------------------------------
(* Every behaviour *)

LEMMA InitIInv == Init => IInv
BY DEF Init, IInv, Sound

LEMMA NextKept == ASSUME IInv, Next PROVE Kept
<1>1. PICK h \in Handles :
         \/ \E n \in Index : CallCreate(h, n)
         \/ \E cs \in CStrings : CallCreateCstring(h, cs) \/ CallCopyCstring(h, cs)
         \/ \E g \in Handles : CallCopyNew(h, g) \/ CallCopy(h, g) \/ CallAppend(h, g)
         \/ \E g \in Handles : \E start, len \in Index : CallSubstr(h, g, start, len)
         \/ \E ch \in Char : CallAppendChar(h, ch)
  BY DEF Next
<1>2. CASE \E n \in Index : CallCreate(h, n)
  BY <1>2, CreateKept
<1>3. CASE \E cs \in CStrings : CallCreateCstring(h, cs) \/ CallCopyCstring(h, cs)
  BY <1>3, CreateCstringKept, CopyCstringKept
<1>4. CASE \E g \in Handles : CallCopyNew(h, g) \/ CallCopy(h, g) \/ CallAppend(h, g)
  BY <1>4, CopyNewKept, CopyKept, AppendKept
<1>5. CASE \E g \in Handles : \E start, len \in Index : CallSubstr(h, g, start, len)
  BY <1>5, SubstrKept
<1>6. CASE \E ch \in Char : CallAppendChar(h, ch)
  BY <1>6, AppendCharKept
<1> QED BY <1>1, <1>2, <1>3, <1>4, <1>5, <1>6

LEMMA StepKept == IInv /\ [Next]_vars => IInv' /\ [NulKept]_vars /\ [Joined]_vars
<1> SUFFICES ASSUME IInv, [Next]_vars PROVE IInv' /\ [NulKept]_vars /\ [Joined]_vars
  OBVIOUS
<1>1. CASE Next
  BY <1>1, NextKept DEF Kept
<1>2. CASE UNCHANGED vars
  BY <1>2 DEF IInv, vars
<1> QED BY <1>1, <1>2

\* In every behaviour a NUL is stored nowhere but at the end of a string, where the
\* functions of str.c take it off and put it back, and what is stored lies within
\* the string's block.
THEOREM Invariance == Spec => []IInv
<1>1. IInv /\ [Next]_vars => IInv'
  BY StepKept
<1> QED BY InitIInv, <1>1, PTL DEF Spec

\* A string is without its NUL only when it was given itself to append or to take
\* a part of, or when append_char or substr ran out of memory for it (str.c), for
\* all strings, characters, sizes and blocks.
THEOREM KeepsNul == Spec => NulIsKept
<1>1. IInv /\ [Next]_vars => [NulKept]_vars
  BY StepKept
<1>2. Spec => [][NulKept]_vars
  BY Invariance, <1>1, PTL DEF Spec
<1> QED BY <1>2 DEF NulIsKept, NulKept

\* str_Create, str_copy, str_copy_cstring, str_append, str_append_char and
\* str_substr leave in the string what C reads of the strings they are given,
\* copied, joined or cut, and every other string as it was.
THEOREM JoinsStrings == Spec => StringsAreJoined
<1>1. IInv /\ [Next]_vars => [Joined]_vars
  BY StepKept
<1>2. Spec => [][Joined]_vars
  BY Invariance, <1>1, PTL DEF Spec
<1> QED BY <1>2 DEF StringsAreJoined, Joined
=============================================================================
