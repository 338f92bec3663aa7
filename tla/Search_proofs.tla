--------------------------- MODULE Search_proofs ---------------------------
(* What comparing and finding return, for vectors of any length, whatever     *)
(* lies behind their elements, and for any width of an int.                   *)
EXTENDS Search, VectorOps_proofs, WellFoundedInduction

----------------------------------------------------------------------------
(* Least and greatest numbers *)

\* Natural numbers have a least one.
LEMMA LeastExists ==
    ASSUME NEW S \in SUBSET Nat, S # {}
    PROVE  Min(S) \in S /\ \A y \in S : Min(S) <= y
<1>1. IsWellFoundedOn(OpToRel(<, Nat), Nat)
  BY NatLessThanWellFounded
<1>2. PICK x \in S : \A y \in S : ~ (<<y, x>> \in OpToRel(<, Nat))
  BY <1>1, WFMin
<1>3. ASSUME NEW y \in S PROVE x <= y
  <2>1. x \in Nat /\ y \in Nat
    OBVIOUS
  <2>2. ~ (y < x)
    BY <1>2, <2>1 DEF OpToRel
  <2> QED BY <2>1, <2>2
<1> QED BY <1>3 DEF Min

\* Natural numbers that are bounded have a greatest one.
LEMMA GreatestExists ==
    ASSUME NEW n \in Nat, NEW S \in SUBSET (0 .. n), S # {}
    PROVE  Max(S) \in S /\ \A y \in S : Max(S) >= y
<1> DEFINE T == {k \in Nat : \A y \in S : y <= k}
           k == Min(T)
<1>1. T \in SUBSET Nat /\ n \in T
  OBVIOUS
<1>2. k \in Nat /\ (\A y \in S : y <= k) /\ \A j \in T : k <= j
  <2>1. k \in T /\ \A j \in T : k <= j
    <3> HIDE DEF T
    <3> QED BY <1>1, LeastExists
  <2> QED BY <2>1
<1> HIDE DEF k
<1>3. k \in S
  <2> SUFFICES ASSUME k \notin S PROVE FALSE
    OBVIOUS
  <2>1. PICK x \in S : TRUE
    OBVIOUS
  <2>2. \A y \in S : y \in Nat /\ y <= k /\ y # k
    BY <1>2
  <2>3. k - 1 \in Nat /\ \A y \in S : y <= k - 1
    BY <1>2, <2>1, <2>2
  <2>4. k <= k - 1
    BY <1>2, <2>3
  <2> QED BY <1>2, <2>4
<1>4. \E x \in S : \A y \in S : x >= y
  BY <1>2, <1>3
<1> QED BY <1>4 DEF Max

\* The first of the positions where a loop may stop, which are those where it
\* must.
LEMMA FirstStops ==
    ASSUME NEW C \in SUBSET Nat
    PROVE  {i \in C : \A j \in C : i <= j} \cup (IF C = {} THEN {-1} ELSE {}) = {FirstAmong(C)}
<1>1. CASE C = {}
  BY <1>1 DEF FirstAmong
<1>2. CASE C # {}
  <2>1. Min(C) \in C /\ \A y \in C : Min(C) <= y
    BY <1>2, LeastExists
  <2>2. ASSUME NEW i \in C, \A j \in C : i <= j PROVE i = Min(C)
    <3>1. i <= Min(C) /\ Min(C) <= i /\ i \in Nat /\ Min(C) \in Nat
      BY <2>1, <2>2
    <3> QED BY <3>1
  <2>3. FirstAmong(C) = Min(C)
    BY <1>2 DEF FirstAmong
  <2> QED BY <1>2, <2>1, <2>2, <2>3
<1> QED BY <1>1, <1>2

----------------------------------------------------------------------------
(* The difference of two elements *)

\* A remainder is that of a number and of those that differ by multiples.
LEMMA RemainderUnique ==
    ASSUME NEW b \in Nat \ {0}, NEW q \in Int, NEW l \in 0 .. b - 1
    PROVE  (b * q + l) % b = l
<1> DEFINE a == b * q + l
           p == a \div b
           m == a % b
<1>1. a \in Int /\ a = b * q + l
  OBVIOUS
<1>2. p \in Int /\ m \in 0 .. b - 1 /\ a = b * p + m
  <2> HIDE DEF a
  <2> QED BY <1>1, Division
<1> HIDE DEF a, p, m
<1>3. b * (p - q) = l - m
  BY <1>1, <1>2
<1>4. CASE p - q >= 1
  <2>1. b * (p - q) >= b
    BY <1>2, <1>4
  <2> QED BY <1>2, <1>3, <2>1
<1>5. CASE p - q <= -1
  <2>1. b * (p - q) <= -b
    BY <1>2, <1>5
  <2> QED BY <1>2, <1>3, <2>1
<1>6. CASE p = q
  <2>1. b * (p - q) = 0
    BY <1>2, <1>6
  <2> QED BY <1>2, <1>3, <1>6, <2>1 DEF a, m
<1> QED BY <1>2, <1>4, <1>5, <1>6

\* A difference cut down to an int is 0 just if it is a multiple of the range.
LEMMA CutIsZero ==
    ASSUME NEW d \in Int, NEW R \in Nat \ {0}, NEW h \in 0 .. R - 1
    PROVE  ((d + h) % R) - h = 0 <=> d % R = 0
<1>1. ASSUME d % R = 0 PROVE ((d + h) % R) - h = 0
  <2>1. d \div R \in Int /\ d + h = R * (d \div R) + h
    BY <1>1, Division
  <2>2. (d + h) % R = h
    BY <2>1, RemainderUnique
  <2> QED BY <2>2
<1>2. ASSUME ((d + h) % R) - h = 0 PROVE d % R = 0
  <2> DEFINE q == (d + h) \div R
             m == (d + h) % R
  <2>1. d + h \in Int
    OBVIOUS
  <2>2. q \in Int /\ m \in 0 .. R - 1 /\ d + h = R * q + m
    BY <2>1, Division
  <2>3. m = h
    BY <1>2, <2>2
  <2> HIDE DEF q, m
  <2>4. d = R * q + 0 /\ 0 \in 0 .. R - 1
    BY <2>2, <2>3
  <2>5. (R * q + 0) % R = 0
    BY <2>2, <2>4, RemainderUnique
  <2> QED BY <2>4, <2>5
<1> QED BY <1>1, <1>2

\* Elements that are alike: characters that are equal, pointers whose difference
\* is a multiple of the range of an int.
Alike(v, x, y) == IF v.of = "char" THEN x = y ELSE (x - y) % IntRange = 0

LEMMA MinusType ==
    ASSUME NEW v, NEW x \in Val, NEW y \in Val
    PROVE  Minus(v, x, y) \in Int /\ (Minus(v, x, y) = 0 <=> Alike(v, x, y))
<1>1. x \in Int /\ y \in Int /\ IntRange \in Nat \ {0}
  BY SearchAssumption
<1>2. CASE v.of = "char"
  BY <1>1, <1>2 DEF Minus, Alike
<1>3. CASE v.of # "char"
  <2> DEFINE d == x - y
             h == IntRange \div 2
  <2>1. d \in Int /\ h \in 0 .. IntRange - 1
    BY <1>1
  <2>2. Minus(v, x, y) = ((d + h) % IntRange) - h
    BY <1>3 DEF Minus
  <2> HIDE DEF d, h
  <2>3. d + h \in Int
    BY <2>1
  <2>4. (d + h) % IntRange \in 0 .. IntRange - 1
    BY <1>1, <2>3, Division
  <2>5. ((d + h) % IntRange) - h = 0 <=> d % IntRange = 0
    BY <1>1, <2>1, CutIsZero
  <2> QED BY <1>1, <1>3, <2>1, <2>2, <2>4, <2>5 DEF Alike, d
<1> QED BY <1>2, <1>3

----------------------------------------------------------------------------
(* Comparing *)

\* The elements k places behind roff in r and behind soff in s.
Minus2(r, roff, s, soff, k) == Minus(r, r.cells[roff + k], s.cells[soff + k])
AlikeAt(r, roff, s, soff, k) == Alike(r, r.cells[roff + k], s.cells[soff + k])

\* d is the difference at k, which is the first place where there is one.
DiffersAt(d, r, roff, s, soff, k) ==
    /\ d = Minus2(r, roff, s, soff, k) /\ d # 0 /\ ~AlikeAt(r, roff, s, soff, k)
    /\ \A j \in 0 .. k - 1 : AlikeAt(r, roff, s, soff, j)

\* What the loop returns, if it does not leave the blocks.
Decided(d, r, roff, s, soff, len) ==
    \/ d = 0 /\ \A k \in 0 .. len - 1 : AlikeAt(r, roff, s, soff, k)
    \/ \E k \in 0 .. len - 1 : DiffersAt(d, r, roff, s, soff, k)

\* The elements that lie in both blocks.
Within(r, roff, s, soff, k) == roff + k < Usable(r.size) /\ soff + k < Usable(s.size)

\* The difference of two elements that lie in the blocks.
LEMMA MinusWithin ==
    ASSUME NEW r, IsVector(r), NEW s, IsVector(s), NEW roff \in Nat, NEW soff \in Nat,
           NEW k \in Nat, Within(r, roff, s, soff, k)
    PROVE  /\ r.cells[roff + k] \in Val /\ s.cells[soff + k] \in Val
           /\ Minus2(r, roff, s, soff, k) \in Int
           /\ Minus2(r, roff, s, soff, k) = 0 <=> AlikeAt(r, roff, s, soff, k)
<1>1. /\ r.cells \in [0 .. Usable(r.size) - 1 -> Val] /\ Usable(r.size) \in Nat
      /\ s.cells \in [0 .. Usable(s.size) - 1 -> Val] /\ Usable(s.size) \in Nat
  BY VectorParts, UsableType
<1>2. roff + k \in 0 .. Usable(r.size) - 1 /\ soff + k \in 0 .. Usable(s.size) - 1
  BY <1>1 DEF Within
<1>3. r.cells[roff + k] \in Val /\ s.cells[soff + k] \in Val
  BY <1>1, <1>2
<1> QED BY <1>3, MinusType DEF Minus2, AlikeAt

\* If there is a difference within the blocks, or all that is compared lies
\* there, the loop returns the first difference.
LEMMA DifferenceDecides ==
    ASSUME NEW r, IsVector(r), NEW s, IsVector(s),
           NEW roff \in 0 .. Usable(r.size), NEW soff \in 0 .. Usable(s.size), NEW len \in Nat,
           \/ roff + len <= Usable(r.size) /\ soff + len <= Usable(s.size)
           \/ \E k \in 0 .. len - 1 : Within(r, roff, s, soff, k) /\ ~AlikeAt(r, roff, s, soff, k)
    PROVE  \E d \in Int : /\ Difference(r, roff, s, soff, len) = {d}
                          /\ Decided(d, r, roff, s, soff, len)
<1> DEFINE K == {len, Usable(r.size) - roff, Usable(s.size) - soff}
           known == Min(K)
           differ == {k \in 0 .. known - 1 : Minus2(r, roff, s, soff, k) # 0}
<1>1. Usable(r.size) \in Nat /\ Usable(s.size) \in Nat
  BY VectorParts, UsableType
<1>2. /\ known \in Nat /\ known <= len /\ known \in K
      /\ known <= Usable(r.size) - roff /\ known <= Usable(s.size) - soff
  <2>1. K \in SUBSET Nat /\ K # {}
    BY <1>1
  <2>2. known \in K /\ \A y \in K : known <= y
    <3> HIDE DEF K
    <3> QED BY <2>1, LeastExists
  <2> HIDE DEF known
  <2> QED BY <2>1, <2>2
<1>3. Difference(r, roff, s, soff, len) =
         IF differ # {} THEN {Minus2(r, roff, s, soff, Min(differ))}
         ELSE IF known = len THEN {0} ELSE {Minus(r, x, y) : x, y \in Val}
  BY DEF Difference, Minus2
<1>4. \A k \in 0 .. len - 1 : Within(r, roff, s, soff, k) <=> k \in 0 .. known - 1
  <2> HIDE DEF known
  <2>1. known = len \/ known = Usable(r.size) - roff \/ known = Usable(s.size) - soff
    BY <1>2
  <2> QED BY <1>1, <1>2, <2>1 DEF Within
<1>5. \A k \in 0 .. known - 1 :
         /\ Minus2(r, roff, s, soff, k) \in Int
         /\ Minus2(r, roff, s, soff, k) = 0 <=> AlikeAt(r, roff, s, soff, k)
  <2> SUFFICES ASSUME NEW k \in 0 .. known - 1
               PROVE  /\ Minus2(r, roff, s, soff, k) \in Int
                      /\ Minus2(r, roff, s, soff, k) = 0 <=> AlikeAt(r, roff, s, soff, k)
    OBVIOUS
  <2>1. k \in Nat /\ k \in 0 .. len - 1 /\ roff \in Nat /\ soff \in Nat
    <3> HIDE DEF known
    <3> QED BY <1>1, <1>2
  <2> QED BY <1>4, <2>1, MinusWithin
<1> HIDE DEF K, known
<1>6. CASE differ # {}
  <2> DEFINE k == Min(differ)
  <2>1. k \in differ /\ \A y \in differ : k <= y
    <3>1. differ \in SUBSET Nat
      BY <1>2
    <3> HIDE DEF differ
    <3> QED BY <1>6, <3>1, LeastExists
  <2> HIDE DEF k
  <2>2. k \in 0 .. known - 1 /\ k \in 0 .. len - 1 /\ Minus2(r, roff, s, soff, k) # 0
    BY <1>2, <2>1
  <2>3. \A j \in 0 .. k - 1 : j \in 0 .. known - 1 /\ j \notin differ
    BY <1>2, <2>1, <2>2
  <2>4. \A j \in 0 .. k - 1 : AlikeAt(r, roff, s, soff, j)
    BY <1>5, <2>3
  <2>5. DiffersAt(Minus2(r, roff, s, soff, k), r, roff, s, soff, k)
    BY <1>5, <2>2, <2>4 DEF DiffersAt
  <2>6. Difference(r, roff, s, soff, len) = {Minus2(r, roff, s, soff, k)}
    BY <1>3, <1>6 DEF k
  <2> QED BY <1>5, <2>2, <2>5, <2>6 DEF Decided
<1>7. CASE differ = {}
  <2>1. \A k \in 0 .. known - 1 : AlikeAt(r, roff, s, soff, k)
    BY <1>5, <1>7
  <2>2. known = len
    <3>1. CASE roff + len <= Usable(r.size) /\ soff + len <= Usable(s.size)
      BY <1>1, <1>2, <3>1 DEF K
    <3>2. ASSUME NEW k \in 0 .. len - 1, Within(r, roff, s, soff, k), ~AlikeAt(r, roff, s, soff, k)
          PROVE  FALSE
      BY <1>4, <2>1, <3>2
    <3> QED BY <3>1, <3>2
  <2> QED BY <1>3, <1>7, <2>1, <2>2 DEF Decided
<1> QED BY <1>6, <1>7

\* Where both vectors have the elements that are to be compared, no sum wraps
\* and the first difference is returned.
LEMMA CompareWithin ==
    ASSUME NEW r, IsVector(r), r.used < WordSize, NEW s, IsVector(s), s.used < WordSize,
           NEW roff \in Nat, NEW soff \in Nat, NEW len \in Nat,
           roff + len <= r.used, soff + len <= s.used
    PROVE  \E d \in Int : /\ compare_offset_n(r, roff, s, soff, len) = {d}
                          /\ Decided(d, r, roff, s, soff, len)
<1>1. /\ r.used \in 0 .. Usable(r.size) /\ Usable(r.size) \in Nat
      /\ s.used \in 0 .. Usable(s.size) /\ Usable(s.size) \in Nat
      /\ WordSize \in Nat \ {0}
  BY VectorParts, UsableType, PolicySizeAssumption
<1>2. Wrapped(roff + len) = roff + len /\ Wrapped(soff + len) = soff + len
  <2>1. roff + len \in 0 .. WordSize - 1 /\ soff + len \in 0 .. WordSize - 1
    BY <1>1
  <2> QED BY <1>1, <2>1, ModOfSmall DEF Wrapped
<1>3. compare_offset_n(r, roff, s, soff, len) = Difference(r, roff, s, soff, len)
  BY <1>2 DEF compare_offset_n
<1>4. /\ roff \in 0 .. Usable(r.size) /\ soff \in 0 .. Usable(s.size)
      /\ roff + len <= Usable(r.size) /\ soff + len <= Usable(s.size)
  BY <1>1
<1> QED BY <1>3, <1>4, DifferenceDecides

\* Where one vector ends before, what is behind it is looked at just if there is
\* no difference before that.
LEMMA CompareBeyond ==
    ASSUME NEW r, IsVector(r), NEW s, IsVector(s), NEW len \in 0 .. WordSize - 1,
           len > r.used \/ len > s.used
    PROVE  compare_offset_n(r, 0, s, 0, len)
              = Difference(r, 0, s, 0, 1 + Min({len, r.used, s.used}))
<1>1. r.used \in Nat /\ s.used \in Nat /\ len \in Nat /\ 0 + len = len
  BY VectorParts, UsableType
<1>2. Wrapped(0 + len) = len
  BY <1>1, ModOfSmall, PolicySizeAssumption DEF Wrapped
<1>3. r.used - 0 = r.used /\ s.used - 0 = s.used /\ ~ (0 > r.used) /\ ~ (0 > s.used)
  BY <1>1
<1> QED BY <1>1, <1>2, <1>3 DEF compare_offset_n

\* No more than either.
LEMMA LeastOf ==
    ASSUME NEW a \in Nat, NEW b \in Nat
    PROVE  /\ Min({a, b}) \in Nat /\ Min({a, b}) <= a /\ Min({a, b}) <= b
           /\ Min({a, b}) = a \/ Min({a, b}) = b
           /\ a <= b => Min({a, b}) = a
<1>1. {a, b} \in SUBSET Nat /\ {a, b} # {}
  OBVIOUS
<1>2. Min({a, b}) \in {a, b} /\ \A y \in {a, b} : Min({a, b}) <= y
  BY <1>1, LeastExists
<1> QED BY <1>2

\* Of three: none is less than the least of the last two, if the first is not.
LEMMA LeastOfThree ==
    ASSUME NEW len \in Nat, NEW a \in Nat, NEW b \in Nat, len > a \/ len > b
    PROVE  Min({len, a, b}) = Min({a, b})
<1>1. {len, a, b} \in SUBSET Nat /\ {len, a, b} # {} /\ {a, b} \in SUBSET Nat /\ {a, b} # {}
  OBVIOUS
<1>2. /\ Min({len, a, b}) \in {len, a, b} /\ \A y \in {len, a, b} : Min({len, a, b}) <= y
      /\ Min({a, b}) \in {a, b} /\ \A y \in {a, b} : Min({a, b}) <= y
  BY <1>1, LeastExists
<1> QED BY <1>2

----------------------------------------------------------------------------
(* Calls that compare *)

\* The two vectors that the program has.
Picked == ref \in Vectors /\ seg \in Vectors /\ seg.of = ref.of

LEMMA PickedType ==
    ASSUME Picked
    PROVE  /\ IsVector(ref) /\ ref.used \in Nat /\ ref.used < WordSize
           /\ IsVector(seg) /\ seg.used \in Nat /\ seg.used < WordSize
           /\ ref.used <= Usable(ref.size) /\ Usable(ref.size) \in Nat
           /\ seg.used <= Usable(seg.size) /\ Usable(seg.size) \in Nat
<1>1. /\ IsVector(ref) /\ ref.used < WordSize
      /\ IsVector(seg) /\ seg.used < WordSize
  BY SearchAssumption DEF Picked
<1>2. /\ ref.used \in 0 .. Usable(ref.size) /\ Usable(ref.size) \in Nat
      /\ seg.used \in 0 .. Usable(seg.size) /\ Usable(seg.size) \in Nat
  BY <1>1, VectorParts, UsableType
<1> QED BY <1>1, <1>2

\* The k-th elements of the two compare as equal.
KthAlike(k) == IF ref.of = "char" THEN Contents(ref)[k] = Contents(seg)[k]
               ELSE (Contents(ref)[k] - Contents(seg)[k]) % IntRange = 0

LEMMA AlikeContents ==
    ASSUME NEW n \in Nat, n <= ref.used, n <= seg.used, Picked
    PROVE  (\A k \in 0 .. n - 1 : AlikeAt(ref, 0, seg, 0, k)) <=> \A k \in 1 .. n : KthAlike(k)
<1>1. /\ \A k \in 1 .. ref.used : Contents(ref)[k] = ref.cells[k - 1]
      /\ \A k \in 1 .. seg.used : Contents(seg)[k] = seg.cells[k - 1]
  BY PickedType, ContentsType
<1>2. ASSUME NEW k \in 1 .. n PROVE KthAlike(k) <=> AlikeAt(ref, 0, seg, 0, k - 1)
  <2>1. k \in 1 .. ref.used /\ k \in 1 .. seg.used /\ 0 + (k - 1) = k - 1
    BY PickedType
  <2> QED BY <1>1, <2>1 DEF KthAlike, AlikeAt, Alike
<1>3. ASSUME \A k \in 0 .. n - 1 : AlikeAt(ref, 0, seg, 0, k), NEW k \in 1 .. n PROVE KthAlike(k)
  <2>1. k - 1 \in 0 .. n - 1
    OBVIOUS
  <2> QED BY <1>2, <1>3, <2>1
<1>4. ASSUME \A k \in 1 .. n : KthAlike(k), NEW k \in 0 .. n - 1 PROVE AlikeAt(ref, 0, seg, 0, k)
  <2>1. k + 1 \in 1 .. n /\ k + 1 - 1 = k
    OBVIOUS
  <2> QED BY <1>2, <1>4, <2>1
<1> QED BY <1>3, <1>4

\* compare_n of elements that both have.
LEMMA CompareNAnswers ==
    ASSUME Picked, NEW n \in Nat, n <= Min({ref.used, seg.used}),
           NEW ret \in charvec_compare_n(ref, seg, n)
    PROVE  ret = 0 <=> \A k \in 1 .. n : KthAlike(k)
<1>1. n <= ref.used /\ n <= seg.used /\ 0 + n = n
  BY PickedType, LeastOf
<1>2. PICK d \in Int : compare_offset_n(ref, 0, seg, 0, n) = {d} /\ Decided(d, ref, 0, seg, 0, n)
  BY <1>1, PickedType, CompareWithin
<1>3. ret = d
  BY <1>2 DEF charvec_compare_n
<1>4. d = 0 <=> \A k \in 0 .. n - 1 : AlikeAt(ref, 0, seg, 0, k)
  BY <1>2 DEF Decided, DiffersAt
<1> QED BY <1>1, <1>3, <1>4, AlikeContents

\* compare, which asks for all there are.
LEMMA CompareAnswers ==
    ASSUME Picked, 0 \in charvec_compare(ref, seg),
           NEW k \in 1 .. Min({ref.used, seg.used})
    PROVE  KthAlike(k)
<1> DEFINE both == Min({ref.used, seg.used})
           len  == WordSize - 1
<1>1. /\ both \in Nat /\ both <= ref.used /\ both <= seg.used
      /\ both = ref.used \/ both = seg.used
  BY PickedType, LeastOf
<1>2. len \in 0 .. WordSize - 1 /\ 0 + len = len
  BY PolicySizeAssumption
<1>3. 0 \in compare_offset_n(ref, 0, seg, 0, len)
  BY DEF charvec_compare, charvec_compare_n, SIZE_MAX
<1> HIDE DEF both, len
<1>4. \A j \in 0 .. both - 1 : AlikeAt(ref, 0, seg, 0, j)
  <2>1. CASE len <= ref.used /\ len <= seg.used
    <3>1. PICK d \in Int : compare_offset_n(ref, 0, seg, 0, len) = {d} /\ Decided(d, ref, 0, seg, 0, len)
      BY <1>2, <2>1, PickedType, CompareWithin
    <3>2. Decided(0, ref, 0, seg, 0, len)
      BY <1>3, <3>1
    <3>3. both <= len
      BY <1>1, PickedType, PolicySizeAssumption DEF len
    <3> QED BY <1>1, <1>2, <3>2, <3>3 DEF Decided, DiffersAt
  <2>2. CASE len > ref.used \/ len > seg.used
    <3>1. 0 \in Difference(ref, 0, seg, 0, 1 + both)
      <4>1. Min({len, ref.used, seg.used}) = both
        BY <1>2, <2>2, PickedType, LeastOfThree DEF both
      <4> QED BY <1>2, <1>3, <2>2, <4>1, PickedType, CompareBeyond
    <3>2. SUFFICES ASSUME NEW j \in 0 .. both - 1, ~AlikeAt(ref, 0, seg, 0, j) PROVE FALSE
      OBVIOUS
    <3> DEFINE m == 1 + both
    <3>3. m \in Nat /\ j \in 0 .. m - 1 /\ Within(ref, 0, seg, 0, j) /\ both <= m
      BY <1>1, PickedType DEF Within
    <3>4. 0 \in 0 .. Usable(ref.size) /\ 0 \in 0 .. Usable(seg.size)
      BY PickedType
    <3>5. 0 \in Difference(ref, 0, seg, 0, m)
      BY <3>1
    <3> HIDE DEF m
    <3>6. \E i \in 0 .. m - 1 : Within(ref, 0, seg, 0, i) /\ ~AlikeAt(ref, 0, seg, 0, i)
      BY <3>2, <3>3
    <3>7. PICK d \in Int : Difference(ref, 0, seg, 0, m) = {d} /\ Decided(d, ref, 0, seg, 0, m)
      BY <3>3, <3>4, <3>6, PickedType, DifferenceDecides
    <3>8. Decided(0, ref, 0, seg, 0, m)
      BY <3>5, <3>7
    <3> QED BY <3>2, <3>3, <3>8 DEF Decided, DiffersAt
  <2> QED BY <1>2, <2>1, <2>2, PickedType
<1> QED BY <1>1, <1>4, AlikeContents DEF both

----------------------------------------------------------------------------
(* Parts of sequences *)

\* A part occurs in a sequence where the elements are the same.
LEMMA OccursMeans ==
    ASSUME NEW part \in Seq(Val), NEW whole \in Seq(Val), NEW i \in Nat
    PROVE  Occurs(part, whole, i) <=>
              /\ i + Len(part) <= Len(whole)
              /\ \A k \in 1 .. Len(part) : whole[i + k] = part[k]
<1> DEFINE m == Len(part)
           n == Len(whole)
           sub == SubSeq(whole, i + 1, i + m)
<1>1. m \in Nat /\ n \in Nat
  BY LenProperties
<1> SUFFICES ASSUME i + m <= n
             PROVE  sub = part <=> \A k \in 1 .. m : whole[i + k] = part[k]
  BY DEF Occurs
<1>2. sub \in Seq(Val) /\ Len(sub) = m /\ \A k \in 1 .. m : sub[k] = whole[i + k]
  <2>1. \A k \in 1 .. n : whole[k] \in Val
    BY ElementOfSeq
  <2> HIDE DEF m, n
  <2> DEFINE a == i + 1
             b == i + m
  <2>2. a \in Int /\ b \in Int /\ \A k \in a .. b : whole[k] \in Val
    BY <1>1, <2>1
  <2> HIDE DEF a, b
  <2>3. /\ SubSeq(whole, a, b) \in Seq(Val)
        /\ Len(SubSeq(whole, a, b)) = IF a <= b THEN b - a + 1 ELSE 0
        /\ \A k \in 1 .. b - a + 1 : SubSeq(whole, a, b)[k] = whole[a + k - 1]
    BY <2>2, SubSeqProperties
  <2>4. b - a + 1 = m /\ (a <= b <=> m > 0) /\ \A k \in 1 .. m : a + k - 1 = i + k
    BY <1>1 DEF a, b
  <2>5. Len(SubSeq(whole, a, b)) = m /\ \A k \in 1 .. m : SubSeq(whole, a, b)[k] = whole[i + k]
    BY <1>1, <2>3, <2>4
  <2> QED BY <2>3, <2>5 DEF a, b
<1> HIDE DEF m, sub
<1>3. (\A k \in 1 .. m : sub[k] = part[k]) => sub = part
  BY <1>2, SeqEqual DEF m
<1> QED BY <1>2, <1>3

\* The first elements of a vector.
LEMMA PrefixType ==
    ASSUME NEW v, IsVector(v), NEW n \in 0 .. v.used
    PROVE  /\ SubSeq(Contents(v), 1, n) \in Seq(Val) /\ Len(SubSeq(Contents(v), 1, n)) = n
           /\ \A k \in 1 .. n : SubSeq(Contents(v), 1, n)[k] = v.cells[k - 1]
<1>1. /\ Contents(v) \in Seq(Val) /\ Len(Contents(v)) = v.used /\ v.used \in Nat
      /\ \A k \in 1 .. v.used : Contents(v)[k] = v.cells[k - 1]
  BY ContentsType, VectorParts, UsableType
<1>2. /\ SubSeq(Contents(v), 1, n) \in Seq(Val) /\ Len(SubSeq(Contents(v), 1, n)) = n
      /\ \A k \in 1 .. n : SubSeq(Contents(v), 1, n)[k] = Contents(v)[k]
  BY <1>1, Parts
<1>3. \A k \in 1 .. n : k \in 1 .. v.used
  BY <1>1
<1> QED BY <1>1, <1>2, <1>3

----------------------------------------------------------------------------
(* Comparing strings *)

\* What str_compare returns: the difference of the first characters that are
\* not the same, which are no further than the NUL of the first string.
StrDecided(d, r, s) ==
    \/ d = 0 /\ s.used - 1 < r.used /\ \A k \in 0 .. s.used - 2 : r.cells[k] = s.cells[k]
    \/ \E k \in 0 .. s.used - 2 :
          /\ k < r.used /\ d = r.cells[k] - s.cells[k] /\ d # 0 /\ r.cells[k] # s.cells[k]
          /\ \A j \in 0 .. k - 1 : r.cells[j] = s.cells[j]

\* Characters at the same place are alike if they are the same.
LEMMA CharsAlike ==
    ASSUME NEW r, r.of = "char", NEW s, NEW k \in Nat
    PROVE  /\ AlikeAt(r, 0, s, 0, k) <=> r.cells[k] = s.cells[k]
           /\ Minus2(r, 0, s, 0, k) = r.cells[k] - s.cells[k]
<1>1. 0 + k = k
  OBVIOUS
<1> QED BY <1>1 DEF AlikeAt, Alike, Minus2, Minus

LEMMA StringType ==
    ASSUME NEW s, IsVector(s), IsString(s)
    PROVE  /\ s.of = "char" /\ s.used \in Nat \ {0} /\ s.used - 1 \in Nat
           /\ s.used <= Usable(s.size) /\ Usable(s.size) \in Nat
           /\ s.cells[s.used - 1] = NUL /\ \A k \in 0 .. s.used - 2 : s.cells[k] # NUL
<1>1. s.used \in 0 .. Usable(s.size) /\ Usable(s.size) \in Nat
  BY VectorParts, UsableType
<1>2. s.used > 0
  BY DEF IsString, Terminated
<1> QED BY <1>1, <1>2 DEF IsString, Terminated

LEMMA StrCompareDecides ==
    ASSUME NEW r, IsVector(r), r.used < WordSize, IsString(r),
           NEW s, IsVector(s), s.used < WordSize, IsString(s)
    PROVE  \E d \in Int : str_compare(r, s) = {d} /\ StrDecided(d, r, s)
<1> DEFINE len == s.used - 1
<1>1. /\ r.of = "char" /\ r.used \in Nat \ {0} /\ r.used <= Usable(r.size) /\ Usable(r.size) \in Nat
      /\ r.cells[r.used - 1] = NUL
      /\ s.used \in Nat \ {0} /\ len \in Nat /\ s.used <= Usable(s.size) /\ Usable(s.size) \in Nat
      /\ \A k \in 0 .. s.used - 2 : s.cells[k] # NUL
  BY StringType
<1>2. str_compare(r, s) = compare_offset_n(r, 0, s, 0, len)
  BY DEF str_compare, str_length, charvec_compare_n
<1>3. \A k \in Nat : /\ AlikeAt(r, 0, s, 0, k) <=> r.cells[k] = s.cells[k]
                     /\ Minus2(r, 0, s, 0, k) = r.cells[k] - s.cells[k]
  BY <1>1, CharsAlike
<1>4. len - 1 = s.used - 2 /\ len <= s.used /\ len \in 0 .. WordSize - 1 /\ 0 + len = len
  BY <1>1, PolicySizeAssumption
<1>5. ASSUME len >= r.used
      PROVE  /\ r.used - 1 \in 0 .. len - 1
             /\ ~AlikeAt(r, 0, s, 0, r.used - 1)
  <2>1. r.used - 1 \in 0 .. s.used - 2 /\ r.used - 1 \in Nat
    BY <1>1, <1>5
  <2> QED BY <1>1, <1>3, <1>4, <2>1
<1> HIDE DEF len
<1>6. CASE len <= r.used
  <2>1. PICK d \in Int : compare_offset_n(r, 0, s, 0, len) = {d} /\ Decided(d, r, 0, s, 0, len)
    BY <1>1, <1>4, <1>6, CompareWithin
  <2>2. StrDecided(d, r, s)
    <3>1. CASE d = 0 /\ \A k \in 0 .. len - 1 : AlikeAt(r, 0, s, 0, k)
      <4>1. len < r.used
        BY <1>1, <1>5, <1>6, <3>1
      <4> QED BY <1>3, <1>4, <3>1, <4>1 DEF StrDecided, len
    <3>2. ASSUME NEW k \in 0 .. len - 1, DiffersAt(d, r, 0, s, 0, k)
          PROVE  StrDecided(d, r, s)
      <4>1. k \in Nat /\ k < r.used /\ k \in 0 .. s.used - 2 /\ \A j \in 0 .. k - 1 : j \in Nat
        BY <1>1, <1>4, <1>6
      <4> QED BY <1>3, <3>2, <4>1 DEF StrDecided, DiffersAt
    <3> QED BY <2>1, <3>1, <3>2 DEF Decided
  <2> QED BY <1>2, <2>1, <2>2
<1>7. CASE len > r.used
  <2> DEFINE m == 1 + r.used
             q == r.used - 1
  <2>1. compare_offset_n(r, 0, s, 0, len) = Difference(r, 0, s, 0, m)
    <3>1. Min({r.used, s.used}) = r.used
      <4>1. r.used <= s.used
        BY <1>1, <1>4, <1>7
      <4> QED BY <1>1, <4>1, LeastOf
    <3>2. Min({len, r.used, s.used}) = r.used
      BY <1>1, <1>7, <3>1, LeastOfThree
    <3> QED BY <1>4, <1>7, <3>2, CompareBeyond
  <2>2. /\ m \in Nat /\ q \in Nat /\ q \in 0 .. m - 1 /\ Within(r, 0, s, 0, q)
        /\ q < r.used /\ q < s.used - 1
    BY <1>1, <1>4, <1>7 DEF Within
  <2>3. ~AlikeAt(r, 0, s, 0, q)
    BY <1>1, <1>5, <1>7
  <2>4. 0 \in 0 .. Usable(r.size) /\ 0 \in 0 .. Usable(s.size)
    BY <1>1
  <2> HIDE DEF m, q
  <2>5. PICK d \in Int : Difference(r, 0, s, 0, m) = {d} /\ Decided(d, r, 0, s, 0, m)
    BY <2>2, <2>3, <2>4, DifferenceDecides
  <2>6. PICK k \in 0 .. m - 1 : DiffersAt(d, r, 0, s, 0, k)
    BY <2>2, <2>3, <2>5 DEF Decided
  <2>7. k <= q
    BY <2>2, <2>3, <2>6 DEF DiffersAt
  <2>8. k \in Nat /\ k < r.used /\ k \in 0 .. s.used - 2 /\ \A j \in 0 .. k - 1 : j \in Nat
    BY <1>1, <2>2, <2>7
  <2>9. StrDecided(d, r, s)
    BY <1>3, <2>6, <2>8 DEF StrDecided, DiffersAt
  <2> QED BY <1>2, <2>1, <2>5, <2>9
<1> QED BY <1>1, <1>6, <1>7

\* What C reads of a string.
LEMMA TextType ==
    ASSUME NEW s, IsVector(s), IsString(s)
    PROVE  /\ Text(s) = SubSeq(Contents(s), 1, s.used - 1)
           /\ Text(s) \in Seq(Val) /\ Len(Text(s)) = s.used - 1
           /\ \A k \in 1 .. s.used - 1 : Text(s)[k] = s.cells[k - 1]
<1>1. s.used - 1 \in 0 .. s.used
  BY StringType
<1>2. Text(s) = SubSeq(Contents(s), 1, s.used - 1)
  BY DEF Text, str_length
<1> QED BY <1>1, <1>2, PrefixType

\* Where a part occurs, in terms of cells.
LEMMA OccursCells ==
    ASSUME NEW s, IsVector(s), NEW n \in 0 .. s.used, NEW r, IsVector(r), NEW m \in 0 .. r.used,
           NEW i \in Nat
    PROVE  Occurs(SubSeq(Contents(s), 1, n), SubSeq(Contents(r), 1, m), i) <=>
              i + n <= m /\ \A k \in 0 .. n - 1 : r.cells[i + k] = s.cells[k]
<1> DEFINE p == SubSeq(Contents(s), 1, n)
           t == SubSeq(Contents(r), 1, m)
<1>1. n \in Nat /\ m \in Nat
  BY VectorParts, UsableType
<1>2. /\ p \in Seq(Val) /\ Len(p) = n /\ \A k \in 1 .. n : p[k] = s.cells[k - 1]
      /\ t \in Seq(Val) /\ Len(t) = m /\ \A k \in 1 .. m : t[k] = r.cells[k - 1]
  BY PrefixType
<1> HIDE DEF p, t
<1>3. Occurs(p, t, i) <=> i + n <= m /\ \A k \in 1 .. n : t[i + k] = p[k]
  BY <1>2, OccursMeans
<1>4. ASSUME i + n <= m
      PROVE  (\A k \in 1 .. n : t[i + k] = p[k]) <=> \A k \in 0 .. n - 1 : r.cells[i + k] = s.cells[k]
  <2>1. ASSUME NEW k \in 1 .. n
        PROVE  t[i + k] = r.cells[i + (k - 1)] /\ p[k] = s.cells[k - 1]
    <3>1. i + k \in 1 .. m /\ i + k - 1 = i + (k - 1)
      BY <1>1, <1>4
    <3> QED BY <1>2, <3>1
  <2>2. ASSUME \A k \in 1 .. n : t[i + k] = p[k], NEW k \in 0 .. n - 1
        PROVE  r.cells[i + k] = s.cells[k]
    <3>1. k + 1 \in 1 .. n /\ k + 1 - 1 = k
      BY <1>1
    <3>2. t[i + (k + 1)] = r.cells[i + k] /\ p[k + 1] = s.cells[k]
      BY <2>1, <3>1
    <3> QED BY <2>2, <3>1, <3>2
  <2>3. ASSUME \A k \in 0 .. n - 1 : r.cells[i + k] = s.cells[k], NEW k \in 1 .. n
        PROVE  t[i + k] = p[k]
    <3>1. k - 1 \in 0 .. n - 1
      BY <1>1
    <3>2. r.cells[i + (k - 1)] = s.cells[k - 1]
      BY <2>3, <3>1
    <3> QED BY <2>1, <3>2
  <2> QED BY <2>2, <2>3
<1> QED BY <1>3, <1>4 DEF p, t

\* A prefix, in terms of cells.
LEMMA PrefixMeans ==
    ASSUME NEW s, IsVector(s), NEW n \in 0 .. s.used, NEW r, IsVector(r), NEW m \in 0 .. r.used
    PROVE  Occurs(SubSeq(Contents(s), 1, n), SubSeq(Contents(r), 1, m), 0) <=>
              n <= m /\ \A k \in 0 .. n - 1 : r.cells[k] = s.cells[k]
<1>1. n \in Nat /\ m \in Nat
  BY VectorParts, UsableType
<1>2. 0 + n = n /\ \A k \in 0 .. n - 1 : 0 + k = k
  BY <1>1
<1> QED BY <1>2, OccursCells

\* Strings compare as equal if the second is a prefix of the first.
LEMMA DecidedZero ==
    ASSUME NEW r, IsVector(r), IsString(r), NEW s, IsVector(s), IsString(s),
           NEW d, StrDecided(d, r, s)
    PROVE  d = 0 <=> Occurs(Text(s), Text(r), 0)
<1>1. r.used - 1 \in 0 .. r.used /\ s.used - 1 \in 0 .. s.used
  BY StringType
<1>2. Occurs(Text(s), Text(r), 0) <=>
         s.used - 1 <= r.used - 1 /\ \A k \in 0 .. s.used - 1 - 1 : r.cells[k] = s.cells[k]
  <2>1. /\ Text(s) = SubSeq(Contents(s), 1, s.used - 1)
        /\ Text(r) = SubSeq(Contents(r), 1, r.used - 1)
    BY TextType
  <2> DEFINE n == s.used - 1
             m == r.used - 1
  <2>2. n \in 0 .. s.used /\ m \in 0 .. r.used
    BY <1>1
  <2> HIDE DEF n, m
  <2>3. Occurs(SubSeq(Contents(s), 1, n), SubSeq(Contents(r), 1, m), 0) <=>
           n <= m /\ \A k \in 0 .. n - 1 : r.cells[k] = s.cells[k]
    BY <2>2, PrefixMeans
  <2> QED BY <2>1, <2>3 DEF n, m
<1>3. r.used \in Nat /\ s.used \in Nat /\ s.used - 1 - 1 = s.used - 2
  BY StringType
<1> QED BY <1>2, <1>3 DEF StrDecided

\* str_compare of the two strings.
LEMMA StrCompareAnswers ==
    ASSUME Picked, IsString(ref), IsString(seg), NEW ret \in str_compare(ref, seg)
    PROVE  LET p == SubSeq(Contents(seg), 1, seg.used - 1)
           IN  /\ ret = 0 <=> Occurs(p, Text(ref), 0)
               /\ ret < 0 <=> \E k \in 1 .. Min({Len(p), ref.used}) :
                                 /\ Occurs(SubSeq(p, 1, k - 1), Contents(ref), 0)
                                 /\ Contents(ref)[k] < p[k]
<1> DEFINE p == SubSeq(Contents(seg), 1, seg.used - 1)
           least == Min({Len(p), ref.used})
<1>1. PICK d \in Int : str_compare(ref, seg) = {d} /\ StrDecided(d, ref, seg)
  BY PickedType, StrCompareDecides
<1>2. ret \in Int /\ StrDecided(ret, ref, seg)
  BY <1>1
<1>3. ret = 0 <=> Occurs(p, Text(ref), 0)
  <2>1. Text(seg) = p
    BY PickedType, TextType
  <2>2. ret = 0 <=> Occurs(Text(seg), Text(ref), 0)
    BY <1>2, PickedType, DecidedZero
  <2> QED BY <2>1, <2>2
<1>4. /\ seg.used - 1 \in 0 .. seg.used /\ seg.used \in Nat /\ ref.used \in Nat
      /\ ref.used <= Usable(ref.size) /\ seg.used <= Usable(seg.size)
      /\ Usable(ref.size) \in Nat /\ Usable(seg.size) \in Nat
  BY PickedType, StringType
<1>5. /\ p \in Seq(Val) /\ Len(p) = seg.used - 1
      /\ \A k \in 1 .. seg.used - 1 : p[k] = seg.cells[k - 1]
  BY <1>4, PickedType, PrefixType
<1>6. /\ \A k \in 1 .. ref.used : Contents(ref)[k] = ref.cells[k - 1]
      /\ Contents(ref) = SubSeq(Contents(ref), 1, ref.used)
  <2>1. Contents(ref) \in Seq(Val) /\ Len(Contents(ref)) = ref.used
    BY PickedType, ContentsType
  <2>2. SubSeq(Contents(ref), 1, ref.used) = Contents(ref)
    BY <2>1, SubSeqFull
  <2> QED BY <2>2, PickedType, ContentsType
<1>7. least \in Nat /\ least <= seg.used - 1 /\ least <= ref.used
      /\ (least = seg.used - 1 \/ least = ref.used)
  BY <1>4, <1>5, LeastOf
<1>8. ASSUME NEW k \in 1 .. least
      PROVE  /\ Occurs(SubSeq(p, 1, k - 1), Contents(ref), 0) <=>
                   \A j \in 0 .. k - 2 : ref.cells[j] = seg.cells[j]
             /\ Contents(ref)[k] = ref.cells[k - 1] /\ p[k] = seg.cells[k - 1]
             /\ ref.cells[k - 1] \in Int /\ seg.cells[k - 1] \in Int
  <2> HIDE DEF p, least
  <2>1. k - 1 \in 0 .. seg.used /\ k - 1 <= ref.used /\ k \in 1 .. ref.used /\ k \in 1 .. seg.used - 1
        /\ k - 1 - 1 = k - 2 /\ k - 1 \in 0 .. seg.used - 1 /\ ref.used \in 0 .. ref.used
    BY <1>4, <1>7
  <2>2. SubSeq(p, 1, k - 1) = SubSeq(Contents(seg), 1, k - 1)
    <3>1. /\ SubSeq(p, 1, k - 1) \in Seq(Val) /\ Len(SubSeq(p, 1, k - 1)) = k - 1
          /\ \A j \in 1 .. k - 1 : SubSeq(p, 1, k - 1)[j] = p[j]
      BY <1>5, <2>1, Parts
    <3>2. /\ SubSeq(Contents(seg), 1, k - 1) \in Seq(Val)
          /\ Len(SubSeq(Contents(seg), 1, k - 1)) = k - 1
          /\ \A j \in 1 .. k - 1 : SubSeq(Contents(seg), 1, k - 1)[j] = seg.cells[j - 1]
      BY <2>1, PickedType, PrefixType
    <3>3. \A j \in 1 .. k - 1 : j \in 1 .. seg.used - 1
      BY <1>4, <2>1
    <3>4. \A j \in 1 .. k - 1 : SubSeq(p, 1, k - 1)[j] = SubSeq(Contents(seg), 1, k - 1)[j]
      BY <1>5, <3>1, <3>2, <3>3
    <3> QED BY <3>1, <3>2, <3>4, SeqEqual
  <2>3. Occurs(SubSeq(Contents(seg), 1, k - 1), SubSeq(Contents(ref), 1, ref.used), 0) <=>
           k - 1 <= ref.used /\ \A j \in 0 .. k - 1 - 1 : ref.cells[j] = seg.cells[j]
    BY <2>1, PickedType, PrefixMeans
  <2>4. Contents(ref)[k] = ref.cells[k - 1] /\ p[k] = seg.cells[k - 1]
    BY <1>5, <1>6, <2>1
  <2>5. ref.cells[k - 1] \in Int /\ seg.cells[k - 1] \in Int
    <3>1. /\ ref.cells \in [0 .. Usable(ref.size) - 1 -> Val]
          /\ seg.cells \in [0 .. Usable(seg.size) - 1 -> Val]
      BY PickedType, VectorParts
    <3>2. k - 1 \in 0 .. Usable(ref.size) - 1 /\ k - 1 \in 0 .. Usable(seg.size) - 1
      BY <1>4, <2>1
    <3> QED BY <3>1, <3>2, SearchAssumption
  <2>6. k - 1 <= ref.used /\ k - 1 - 1 = k - 2
    BY <2>1
  <2>7. Occurs(SubSeq(p, 1, k - 1), Contents(ref), 0) <=>
           \A j \in 0 .. k - 2 : ref.cells[j] = seg.cells[j]
    BY <1>6, <2>2, <2>3, <2>6
  <2> QED BY <2>4, <2>5, <2>7
<1> HIDE DEF p, least
<1>9. ASSUME ret < 0
      PROVE  \E k \in 1 .. least : /\ Occurs(SubSeq(p, 1, k - 1), Contents(ref), 0)
                                   /\ Contents(ref)[k] < p[k]
  <2>1. PICK k \in 0 .. seg.used - 2 :
           /\ k < ref.used /\ ret = ref.cells[k] - seg.cells[k]
           /\ \A j \in 0 .. k - 1 : ref.cells[j] = seg.cells[j]
    BY <1>2, <1>9 DEF StrDecided
  <2>2. k + 1 \in 1 .. least /\ k + 1 - 1 = k /\ k + 1 - 2 = k - 1
    BY <1>4, <1>7, <2>1
  <2>3. /\ Contents(ref)[k + 1] = ref.cells[k] /\ p[k + 1] = seg.cells[k]
        /\ ref.cells[k] \in Int /\ seg.cells[k] \in Int
        /\ Occurs(SubSeq(p, 1, k + 1 - 1), Contents(ref), 0)
    BY <1>8, <2>1, <2>2
  <2>4. Contents(ref)[k + 1] < p[k + 1]
    BY <1>9, <2>1, <2>3
  <2> QED BY <2>2, <2>3, <2>4
<1>10. ASSUME NEW k \in 1 .. least, Occurs(SubSeq(p, 1, k - 1), Contents(ref), 0),
              Contents(ref)[k] < p[k]
       PROVE  ret < 0
  <2>1. /\ \A j \in 0 .. k - 2 : ref.cells[j] = seg.cells[j]
        /\ ref.cells[k - 1] < seg.cells[k - 1]
        /\ ref.cells[k - 1] \in Int /\ seg.cells[k - 1] \in Int
    BY <1>8, <1>10
  <2>2. k - 1 \in 0 .. seg.used - 2
    BY <1>4, <1>7
  <2>3. PICK i \in 0 .. seg.used - 2 :
           /\ i < ref.used /\ ret = ref.cells[i] - seg.cells[i] /\ ret # 0
           /\ \A j \in 0 .. i - 1 : ref.cells[j] = seg.cells[j]
    <3>1. ref.cells[k - 1] # seg.cells[k - 1]
      BY <2>1
    <3> QED BY <1>2, <2>2, <3>1 DEF StrDecided
  <2>4. /\ ref.cells[i] \in Int /\ seg.cells[i] \in Int
    <3>1. i + 1 \in 1 .. least /\ i + 1 - 1 = i
      BY <1>4, <1>7, <2>3
    <3> QED BY <1>8, <3>1
  <2>5. i = k - 1
    <3>1. ~ (i < k - 1)
      <4> SUFFICES ASSUME i < k - 1 PROVE FALSE
        OBVIOUS
      <4>1. i \in 0 .. k - 2
        BY <1>4
      <4>2. ref.cells[i] = seg.cells[i]
        BY <2>1, <4>1
      <4> QED BY <2>3, <2>4, <4>2
    <3>2. ~ (k - 1 < i)
      BY <2>1, <2>2, <2>3
    <3> QED BY <2>2, <3>1, <3>2
  <2> QED BY <2>1, <2>3, <2>5
<1>11. ret < 0 <=> \E k \in 1 .. least : /\ Occurs(SubSeq(p, 1, k - 1), Contents(ref), 0)
                                        /\ Contents(ref)[k] < p[k]
  BY <1>9, <1>10
<1> QED BY <1>3, <1>11 DEF p, least

----------------------------------------------------------------------------
(* Finding *)

\* All that is stored is the first part that is as long.
LEMMA ContentsWhole ==
    ASSUME NEW v, IsVector(v)
    PROVE  v.used \in 0 .. v.used /\ SubSeq(Contents(v), 1, v.used) = Contents(v)
<1>1. v.used \in Nat
  BY VectorParts, UsableType
<1>2. Contents(v) \in Seq(Val) /\ Len(Contents(v)) = v.used
  BY ContentsType
<1> QED BY <1>1, <1>2, SubSeqFull

\* A loop that knows of every position whether to stop there, which it does at
\* those in C, returns the first of them.
LEMMA FirstOfAnswers ==
    ASSUME NEW positions \in SUBSET Nat, NEW C \in SUBSET positions,
           NEW certain, certain = C, NEW possible, possible = C
    PROVE  {i \in possible : \A j \in certain : i <= j} \cup (IF certain = {} THEN {-1} ELSE {})
              = {FirstAmong(C)}
<1>1. C \in SUBSET Nat
  OBVIOUS
<1> QED BY <1>1, FirstStops

\* find_vec_n: the first place of the first n characters of seg, but for the
\* last place where they fit.
LEMMA FindVecAnswers ==
    ASSUME Picked, ref.of = "char", NEW arg \in Nat, NEW n \in 1 .. seg.used,
           n = Min({arg, seg.used})
    PROVE  charvec_find_vec_n(ref, seg, arg)
              = {FirstAmong({i \in 0 .. ref.used - n - 1 :
                               Occurs(SubSeq(Contents(seg), 1, n), Contents(ref), i)})}
<1> DEFINE P == 0 .. ref.used - n - 1
           F(i) == IF seg.cells[0] # ref.cells[i] THEN {FALSE}
                   ELSE {d = 0 : d \in compare_offset_n(ref, i + 1, seg, 1, Wrapped(n - 1))}
           C == {i \in P : Occurs(SubSeq(Contents(seg), 1, n), Contents(ref), i)}
           certain  == {i \in P : F(i) = {TRUE}}
           possible == {i \in P : TRUE \in F(i)}
<1>1. /\ ref.used \in Nat /\ ref.used < WordSize /\ IsVector(ref)
      /\ seg.used \in Nat /\ seg.used < WordSize /\ IsVector(seg)
      /\ n \in Nat /\ n - 1 \in Nat /\ n \in 0 .. seg.used
  BY PickedType
<1>2. Wrapped(n - 1) = n - 1
  <2>1. n - 1 \in 0 .. WordSize - 1
    BY <1>1, PolicySizeAssumption
  <2> QED BY <2>1, ModOfSmall, PolicySizeAssumption DEF Wrapped
<1>3. ASSUME NEW i \in P
      PROVE  i \in C <=> \A k \in 0 .. n - 1 : ref.cells[i + k] = seg.cells[k]
  <2>1. i \in Nat /\ i + n <= ref.used
    BY <1>1
  <2>2. Occurs(SubSeq(Contents(seg), 1, n), Contents(ref), i) <=>
           i + n <= ref.used /\ \A k \in 0 .. n - 1 : ref.cells[i + k] = seg.cells[k]
    <3>1. ref.used \in 0 .. ref.used /\ SubSeq(Contents(ref), 1, ref.used) = Contents(ref)
      BY <1>1, ContentsWhole
    <3> DEFINE m == ref.used
    <3>2. m \in 0 .. ref.used
      BY <3>1
    <3> HIDE DEF m
    <3>3. Occurs(SubSeq(Contents(seg), 1, n), SubSeq(Contents(ref), 1, m), i) <=>
             i + n <= m /\ \A k \in 0 .. n - 1 : ref.cells[i + k] = seg.cells[k]
      <4>1. /\ IsVector(seg) /\ n \in 0 .. seg.used
            /\ IsVector(ref) /\ m \in 0 .. ref.used /\ i \in Nat
        BY <1>1, <2>1, <3>2
      <4> HIDE DEF P, F, C, certain, possible
      <4> QED BY ONLY <4>1, OccursCells
    <3> QED BY <3>1, <3>3 DEF m
  <2> QED BY <2>1, <2>2
<1>4. ASSUME NEW i \in P
      PROVE  (F(i) = {TRUE} <=> i \in C) /\ (TRUE \in F(i) <=> i \in C)
  <2>1. i \in Nat /\ i + 0 = i /\ 0 \in 0 .. n - 1
    BY <1>1
  <2>2. CASE seg.cells[0] # ref.cells[i]
    <3>1. i \notin C
      BY <1>3, <2>1, <2>2
    <3>2. F(i) = {FALSE}
      BY <2>2
    <3> HIDE DEF F, C
    <3> QED BY <3>1, <3>2
  <2>3. CASE seg.cells[0] = ref.cells[i]
    <3>1. i + 1 \in Nat /\ i + 1 + (n - 1) <= ref.used /\ 1 + (n - 1) <= seg.used
      BY <1>1
    <3>2. PICK d \in Int : /\ compare_offset_n(ref, i + 1, seg, 1, n - 1) = {d}
                           /\ Decided(d, ref, i + 1, seg, 1, n - 1)
      BY <1>1, <3>1, CompareWithin
    <3>3. d = 0 <=> \A k \in 0 .. n - 2 : ref.cells[i + 1 + k] = seg.cells[1 + k]
      <4>1. n - 1 - 1 = n - 2
        BY <1>1
      <4>2. d = 0 <=> \A k \in 0 .. n - 2 : AlikeAt(ref, i + 1, seg, 1, k)
        BY <3>2, <4>1 DEF Decided, DiffersAt
      <4> QED BY <4>2 DEF AlikeAt, Alike
    <3>4. d = 0 <=> \A k \in 0 .. n - 1 : ref.cells[i + k] = seg.cells[k]
      <4>1. ASSUME d = 0, NEW k \in 0 .. n - 1 PROVE ref.cells[i + k] = seg.cells[k]
        <5>1. CASE k = 0
          BY <2>1, <2>3, <5>1
        <5>2. CASE k # 0
          <6>1. k - 1 \in 0 .. n - 2 /\ i + 1 + (k - 1) = i + k /\ 1 + (k - 1) = k
            BY <1>1, <2>1, <5>2
          <6>2. ref.cells[i + 1 + (k - 1)] = seg.cells[1 + (k - 1)]
            BY <3>3, <4>1, <6>1
          <6> QED BY <6>1, <6>2
        <5> QED BY <5>1, <5>2
      <4>2. ASSUME \A k \in 0 .. n - 1 : ref.cells[i + k] = seg.cells[k], NEW k \in 0 .. n - 2
            PROVE  ref.cells[i + 1 + k] = seg.cells[1 + k]
        <5>1. 1 + k \in 0 .. n - 1 /\ i + (1 + k) = i + 1 + k
          BY <1>1, <2>1
        <5>2. ref.cells[i + (1 + k)] = seg.cells[1 + k]
          BY <4>2, <5>1
        <5> QED BY <5>1, <5>2
      <4> QED BY <3>3, <4>1, <4>2
    <3>5. F(i) = {d = 0}
      BY <1>2, <2>3, <3>2
    <3>6. (d = 0) <=> i \in C
      BY <1>3, <3>4
    <3> HIDE DEF F, C
    <3>7. CASE d = 0
      <4>1. F(i) = {TRUE}
        BY <3>5, <3>7
      <4> QED BY <3>6, <3>7, <4>1
    <3>8. CASE d # 0
      <4>1. F(i) = {FALSE}
        BY <3>5, <3>8
      <4> QED BY <3>6, <3>8, <4>1
    <3> QED BY <3>7, <3>8
  <2> QED BY <2>2, <2>3
<1>5. charvec_find_vec_n(ref, seg, arg)
         = {i \in P : TRUE \in F(i) /\ \A j \in certain : i <= j}
           \cup IF certain = {} THEN {-1} ELSE {}
  BY DEF charvec_find_vec_n, FirstOf
<1> HIDE DEF F
<1>6. certain = C /\ possible = C
  <2>1. \A i \in P : i \in C <=> Occurs(SubSeq(Contents(seg), 1, n), Contents(ref), i)
    OBVIOUS
  <2>2. certain = C
    BY <1>4, <2>1
  <2>3. possible = C
    BY <1>4, <2>1
  <2> QED BY <2>2, <2>3
<1>7. P \in SUBSET Nat /\ C \in SUBSET P
  BY <1>1
<1> HIDE DEF C
<1>8. {i \in P : TRUE \in F(i) /\ \A j \in certain : i <= j}
         = {i \in possible : \A j \in certain : i <= j}
  OBVIOUS
<1> HIDE DEF P, C, certain, possible
<1>9. {i \in possible : \A j \in certain : i <= j} \cup (IF certain = {} THEN {-1} ELSE {})
         = {FirstAmong(C)}
  BY <1>6, <1>7, FirstOfAnswers
<1>10. charvec_find_vec_n(ref, seg, arg) = {FirstAmong(C)}
  BY <1>5, <1>8, <1>9
<1> QED BY <1>10 DEF C, P

\* A string is its text and a NUL.
LEMMA TextAndNul ==
    ASSUME NEW s, IsVector(s), IsString(s)
    PROVE  Append(Text(s), NUL) = Contents(s) /\ NUL \in Val
<1>1. /\ s.used \in Nat \ {0} /\ s.cells[s.used - 1] = NUL
  BY StringType
<1>2. /\ Contents(s) \in Seq(Val) /\ Len(Contents(s)) = s.used
      /\ \A k \in 1 .. s.used : Contents(s)[k] = s.cells[k - 1]
  BY ContentsType
<1>3. /\ Text(s) \in Seq(Val) /\ Len(Text(s)) = s.used - 1
      /\ \A k \in 1 .. s.used - 1 : Text(s)[k] = s.cells[k - 1]
  BY TextType
<1>4. Contents(s)[s.used] = NUL /\ NUL \in Val
  <2>1. s.used \in 1 .. s.used
    BY <1>1
  <2>2. Contents(s)[s.used] \in Val
    BY <1>2, <2>1, ElementOfSeq
  <2> QED BY <1>1, <1>2, <2>1, <2>2
<1> DEFINE t == Text(s)
           m == s.used - 1
<1>5. /\ t \in Seq(Val) /\ m \in Nat /\ Len(t) = m /\ m + 1 = s.used
      /\ \A k \in 1 .. m : t[k] = s.cells[k - 1]
  BY <1>1, <1>3
<1> HIDE DEF t, m
<1>6. /\ Append(t, NUL) \in Seq(Val) /\ Len(Append(t, NUL)) = m + 1
      /\ \A k \in 1 .. m : Append(t, NUL)[k] = t[k]
      /\ Append(t, NUL)[m + 1] = NUL
  BY <1>4, <1>5, AppendProperties
<1>7. \A k \in 1 .. s.used : Append(t, NUL)[k] = Contents(s)[k]
  <2> TAKE k \in 1 .. s.used
  <2>1. k \in 1 .. m \/ k = s.used
    BY <1>1, <1>5
  <2> QED BY <1>2, <1>4, <1>5, <1>6, <2>1
<1>8. Append(t, NUL) = Contents(s)
  BY <1>2, <1>5, <1>6, <1>7, SeqEqual
<1> QED BY <1>4, <1>8 DEF t

\* Where a character is in a string and its NUL.
Places(c) == {i \in 0 .. ref.used - 1 : Occurs(<<c>>, Append(Text(ref), NUL), i)}

LEMMA PlacesAre ==
    ASSUME Picked, IsString(ref), NEW c \in Val
    PROVE  Places(c) = {i \in 0 .. ref.used - 1 : ref.cells[i] = c}
<1>1. /\ Append(Text(ref), NUL) = Contents(ref) /\ ref.used \in Nat
      /\ Contents(ref) \in Seq(Val) /\ Len(Contents(ref)) = ref.used
      /\ \A k \in 1 .. ref.used : Contents(ref)[k] = ref.cells[k - 1]
  BY PickedType, TextAndNul, ContentsType
<1> DEFINE part == <<c>>
<1>2. part \in Seq(Val) /\ Len(part) = 1 /\ part[1] = c
  OBVIOUS
<1> HIDE DEF part
<1>3. ASSUME NEW i \in 0 .. ref.used - 1
      PROVE  Occurs(part, Contents(ref), i) <=> ref.cells[i] = c
  <2>1. i \in Nat /\ i + 1 <= ref.used /\ i + 1 \in 1 .. ref.used /\ i + 1 - 1 = i
    BY <1>1
  <2>2. Occurs(part, Contents(ref), i) <=>
           /\ i + Len(part) <= Len(Contents(ref))
           /\ \A k \in 1 .. Len(part) : Contents(ref)[i + k] = part[k]
    BY <1>1, <1>2, <2>1, OccursMeans
  <2>3. Occurs(part, Contents(ref), i) <=> Contents(ref)[i + 1] = part[1]
    BY <1>1, <1>2, <2>1, <2>2
  <2> QED BY <1>1, <1>2, <2>1, <2>3
<1> QED BY <1>1, <1>3 DEF Places, part

\* str_findchar.
LEMMA FindCharAnswers ==
    ASSUME Picked, IsString(ref), NEW c \in Val
    PROVE  str_findchar(ref, c) = {FirstAmong(Places(c))}
<1> DEFINE P == 0 .. ref.used - 1
           C == {i \in P : ref.cells[i] = c}
           F(i) == {ref.cells[i] = c}
           certain  == {i \in P : F(i) = {TRUE}}
           possible == {i \in P : TRUE \in F(i)}
<1>1. P \in SUBSET Nat /\ C \in SUBSET P
  BY PickedType
<1>2. str_findchar(ref, c)
         = {i \in P : TRUE \in F(i) /\ \A j \in certain : i <= j}
           \cup IF certain = {} THEN {-1} ELSE {}
  BY DEF str_findchar, charvec_find, FirstOf
<1>3. certain = C /\ possible = C
  <2>1. \A i \in P : (F(i) = {TRUE} <=> i \in C) /\ (TRUE \in F(i) <=> i \in C)
    <3> TAKE i \in P
    <3>1. CASE ref.cells[i] = c
      <4>1. F(i) = {TRUE} /\ i \in C
        BY <3>1
      <4> QED BY <4>1
    <3>2. CASE ref.cells[i] # c
      <4>1. F(i) = {FALSE} /\ i \notin C
        BY <3>2
      <4> QED BY <4>1
    <3> QED BY <3>1, <3>2
  <2> HIDE DEF F
  <2>2. \A i \in C : i \in P
    OBVIOUS
  <2> HIDE DEF C, P
  <2>3. certain = C
    BY <2>1, <2>2
  <2>4. possible = C
    BY <2>1, <2>2
  <2> QED BY <2>3, <2>4
<1> HIDE DEF F, C
<1>4. {i \in P : TRUE \in F(i) /\ \A j \in certain : i <= j}
         = {i \in possible : \A j \in certain : i <= j}
  OBVIOUS
<1> HIDE DEF P, certain, possible
<1>5. {i \in possible : \A j \in certain : i <= j} \cup (IF certain = {} THEN {-1} ELSE {})
         = {FirstAmong(C)}
  BY <1>1, <1>3, FirstOfAnswers
<1>6. C = Places(c)
  BY PlacesAre DEF C, P
<1> QED BY <1>2, <1>4, <1>5, <1>6

\* str_findrchar.
LEMMA FindRCharAnswers ==
    ASSUME Picked, IsString(ref), NEW c \in Val
    PROVE  str_findrchar(ref, c) = {Max(Places(c) \cup {-1})}
<1> DEFINE at == {i \in 0 .. ref.used - 1 : ref.cells[i] = c}
<1>1. str_findrchar(ref, c) = {IF at = {} THEN -1 ELSE Max(at)}
  BY DEF str_findrchar, charvec_find_last
<1>2. at = Places(c)
  BY PlacesAre
<1>3. ref.used - 1 \in Nat /\ at \in SUBSET (0 .. ref.used - 1)
  BY PickedType, StringType
<1> DEFINE n == ref.used - 1
<1>4. n \in Nat /\ at \in SUBSET (0 .. n)
  BY <1>3
<1> HIDE DEF at, n
<1>5. CASE at = {}
  <2>1. at \cup {-1} = {-1}
    BY <1>5
  <2>2. Max({-1}) = -1
    BY DEF Max
  <2> QED BY <1>1, <1>2, <1>5, <2>1, <2>2
<1>6. CASE at # {}
  <2>1. Max(at) \in at /\ \A y \in at : Max(at) >= y
    BY <1>4, <1>6, GreatestExists
  <2>2. Max(at) \in Nat /\ \A y \in at : y \in Nat
    <3>1. \A y \in at : y \in Nat
      BY <1>4
    <3> DEFINE g == Max(at)
    <3>2. g \in at
      BY <2>1
    <3> HIDE DEF g
    <3>3. g \in Nat
      BY <3>1, <3>2
    <3> QED BY <3>1, <3>3 DEF g
  <2> DEFINE both == at \cup {-1}
  <2>3. Max(at) \in both /\ \A y \in both : Max(at) >= y
    BY <2>1, <2>2
  <2>4. ASSUME NEW x \in both, \A y \in both : x >= y PROVE x = Max(at)
    <3>1. x >= Max(at) /\ Max(at) >= x
      BY <2>3, <2>4
    <3>2. x \in Int /\ Max(at) \in Int
      BY <2>2
    <3> QED BY <3>1, <3>2
  <2> HIDE DEF both
  <2> DEFINE g == Max(at)
  <2>5. g \in both /\ (\A y \in both : g >= y)
        /\ \A x \in both : (\A y \in both : x >= y) => x = g
    BY <2>3, <2>4
  <2> HIDE DEF g
  <2>6. Max(both) = g
    BY <2>5 DEF Max
  <2> QED BY <1>1, <1>2, <1>6, <2>6 DEF both, g
<1> QED BY <1>5, <1>6

\* str_findstr of a string that is not empty.
LEMMA FindStrAnswers ==
    ASSUME Picked, IsString(ref), IsString(seg), Text(seg) # <<>>
    PROVE  str_findstr(ref, seg)
              = {FirstAmong({i \in 0 .. ref.used : Occurs(Text(seg), Text(ref), i)})}
<1> DEFINE n == seg.used - 1
           m == ref.used - 1
           C == {i \in 0 .. ref.used - n - 1 : Occurs(SubSeq(Contents(seg), 1, n), Contents(ref), i)}
           D == {i \in 0 .. ref.used : Occurs(Text(seg), Text(ref), i)}
<1>1. /\ ref.of = "char" /\ IsVector(ref) /\ ref.used \in Nat /\ m \in 0 .. ref.used /\ m + 1 = ref.used
      /\ IsVector(seg) /\ seg.used \in Nat /\ n \in 0 .. seg.used /\ n + 1 = seg.used
      /\ ref.cells[m] = NUL /\ \A k \in 0 .. n - 1 : seg.cells[k] # NUL
  <2>1. n - 1 = seg.used - 2
    BY PickedType
  <2> QED BY <2>1, PickedType, StringType
<1>2. n \in 1 .. seg.used
  <2>1. n # 0
    <3>1. Text(seg) \in Seq(Val) /\ Len(Text(seg)) = n
      BY <1>1, TextType
    <3> QED BY <3>1, EmptySeq
  <2> QED BY <1>1, <2>1
<1>3. n = Min({n, seg.used})
  BY <1>1, LeastOf
<1>4. str_findstr(ref, seg) = charvec_find_vec_n(ref, seg, n)
  BY DEF str_findstr, str_length
<1>5. charvec_find_vec_n(ref, seg, n) = {FirstAmong(C)}
  <2> DEFINE k == n
  <2>1. k \in Nat /\ k \in 1 .. seg.used /\ k = Min({k, seg.used})
    BY <1>2, <1>3
  <2> HIDE DEF n, k
  <2>2. charvec_find_vec_n(ref, seg, k)
           = {FirstAmong({i \in 0 .. ref.used - k - 1 :
                            Occurs(SubSeq(Contents(seg), 1, k), Contents(ref), i)})}
    BY <1>1, <2>1, FindVecAnswers
  <2> QED BY <2>2 DEF k
<1>6. Text(seg) = SubSeq(Contents(seg), 1, n) /\ Text(ref) = SubSeq(Contents(ref), 1, m)
  BY <1>1, TextType
<1>7. ref.used \in 0 .. ref.used /\ SubSeq(Contents(ref), 1, ref.used) = Contents(ref)
  BY <1>1, ContentsWhole
<1> HIDE DEF n, m
<1>8. ASSUME NEW i \in Nat
      PROVE  /\ Occurs(SubSeq(Contents(seg), 1, n), Contents(ref), i) <=>
                   i + n <= ref.used /\ \A k \in 0 .. n - 1 : ref.cells[i + k] = seg.cells[k]
             /\ Occurs(Text(seg), Text(ref), i) <=>
                   i + n <= m /\ \A k \in 0 .. n - 1 : ref.cells[i + k] = seg.cells[k]
  <2> DEFINE w == ref.used
  <2>1. /\ IsVector(seg) /\ n \in 0 .. seg.used
        /\ IsVector(ref) /\ w \in 0 .. ref.used /\ m \in 0 .. ref.used /\ i \in Nat
    BY <1>1
  <2> HIDE DEF w
  <2>2. Occurs(SubSeq(Contents(seg), 1, n), SubSeq(Contents(ref), 1, w), i) <=>
           i + n <= w /\ \A k \in 0 .. n - 1 : ref.cells[i + k] = seg.cells[k]
    BY ONLY <2>1, OccursCells
  <2>3. Occurs(SubSeq(Contents(seg), 1, n), SubSeq(Contents(ref), 1, m), i) <=>
           i + n <= m /\ \A k \in 0 .. n - 1 : ref.cells[i + k] = seg.cells[k]
    BY ONLY <2>1, OccursCells
  <2> QED BY <1>6, <1>7, <2>2, <2>3 DEF w
<1>9. C = D
  <2>1. ASSUME NEW i \in C PROVE i \in D
    <3>1. i \in 0 .. ref.used - n - 1
      OBVIOUS
    <3>2. i \in Nat /\ i + n <= m /\ i \in 0 .. ref.used
      BY <1>1, <1>2, <3>1
    <3> QED BY <1>8, <3>2
  <2>2. ASSUME NEW i \in D PROVE i \in C
    <3>1. i \in Nat
      BY <1>1
    <3>2. i + n <= m
      BY <1>8, <3>1
    <3>3. i \in 0 .. ref.used - n - 1 /\ i + n <= ref.used
      BY <1>1, <1>2, <3>1, <3>2
    <3> QED BY <1>8, <3>1, <3>3
  <2> QED BY <2>1, <2>2
<1> QED BY <1>4, <1>5, <1>9 DEF n

\* The second of three strings is the one that is looked for; and the others,
\* which are the same, begin with it or not.
LEMMA StringOfThree ==
    ASSUME Picked, IsString(ref), IsString(seg), NEW x, x = ref \/ x = seg
    PROVE  \E d \in Int : /\ str_compare(x, seg) = {d}
                          /\ x = seg => d = 0
                          /\ x = ref => (d = 0 <=> Occurs(Text(seg), Text(ref), 0))
<1>1. /\ IsVector(ref) /\ ref.used < WordSize /\ IsVector(seg) /\ seg.used < WordSize
  BY PickedType
<1>2. PICK d \in Int : str_compare(x, seg) = {d} /\ StrDecided(d, x, seg)
  <2>1. IsVector(x) /\ x.used < WordSize /\ IsString(x)
    BY <1>1
  <2> QED BY <1>1, <2>1, StrCompareDecides
<1>3. d = 0 <=> Occurs(Text(seg), Text(x), 0)
  BY <1>1, <1>2, DecidedZero
<1>4. Occurs(Text(seg), Text(seg), 0)
  <2> DEFINE t == Text(seg)
  <2>1. t \in Seq(Val)
    BY <1>1, TextType
  <2> HIDE DEF t
  <2>2. 0 + Len(t) <= Len(t) /\ \A k \in 1 .. Len(t) : t[0 + k] = t[k]
    BY <2>1, LenProperties
  <2>3. 0 \in Nat
    OBVIOUS
  <2>4. Occurs(t, t, 0)
    BY <2>1, <2>2, <2>3, OccursMeans
  <2> QED BY <2>4 DEF t
<1>5. x = seg => d = 0
  BY <1>3, <1>4
<1>6. x = ref => (d = 0 <=> Occurs(Text(seg), Text(ref), 0))
  BY <1>3
<1> QED BY <1>2, <1>5, <1>6

\* A loop over three strings, of which the one in the middle is found.
LEMMA FirstOfThree ==
    ASSUME NEW prefix \in BOOLEAN,
           NEW C, C = {i \in 0 .. 2 : i = 1 \/ prefix}
    PROVE  FirstAmong(C) = IF prefix THEN 0 ELSE 1
<1>1. C \in SUBSET Nat /\ 1 \in C
  OBVIOUS
<1>2. FirstAmong(C) = Min(C) /\ Min(C) \in C /\ \A y \in C : Min(C) <= y
  BY <1>1, LeastExists DEF FirstAmong
<1> DEFINE k == Min(C)
<1>3. k \in C /\ \A y \in C : k <= y
  BY <1>2
<1> HIDE DEF k
<1>4. k = IF prefix THEN 0 ELSE 1
  BY <1>3
<1> QED BY <1>2, <1>4 DEF k

\* The loops of strvec_find and of strvec_find_last, whose three strings are the
\* same from both ends.
Stops(i) == {d = 0 : d \in str_compare(IF i = 1 THEN seg ELSE ref, seg)}

LEMMA StrvecLoop ==
    ASSUME Picked, IsString(ref), IsString(seg)
    PROVE  FirstOf(0 .. 2, Stops) = {IF Occurs(Text(seg), Text(ref), 0) THEN 0 ELSE 1}
<1> DEFINE prefix == Occurs(Text(seg), Text(ref), 0)
           P == 0 .. 2
           C == {i \in P : i = 1 \/ prefix}
           certain  == {i \in P : Stops(i) = {TRUE}}
           possible == {i \in P : TRUE \in Stops(i)}
<1>1. prefix \in BOOLEAN
  BY DEF Occurs
<1>2. \A i \in P : (Stops(i) = {TRUE} <=> i \in C) /\ (TRUE \in Stops(i) <=> i \in C)
  <2> TAKE i \in P
  <2> DEFINE x == IF i = 1 THEN seg ELSE ref
  <2>1. (i = 1 => x = seg) /\ (i # 1 => x = ref) /\ (x = ref \/ x = seg)
    OBVIOUS
  <2>2. Stops(i) = {d = 0 : d \in str_compare(x, seg)}
    BY DEF Stops
  <2> HIDE DEF x
  <2>3. PICK d \in Int : /\ str_compare(x, seg) = {d}
                         /\ x = seg => d = 0
                         /\ x = ref => (d = 0 <=> prefix)
    BY <2>1, StringOfThree
  <2>4. d = 0 <=> i \in C
    BY <2>1, <2>3
  <2>5. Stops(i) = {d = 0}
    BY <2>2, <2>3
  <2> HIDE DEF C
  <2>6. CASE d = 0
    <3>1. Stops(i) = {TRUE}
      BY <2>5, <2>6
    <3> QED BY <2>4, <2>6, <3>1
  <2>7. CASE d # 0
    <3>1. Stops(i) = {FALSE}
      BY <2>5, <2>7
    <3> QED BY <2>4, <2>7, <3>1
  <2> QED BY <2>6, <2>7
<1>3. P \in SUBSET Nat /\ C \in SUBSET P
  OBVIOUS
<1>4. FirstOf(P, Stops)
         = {i \in P : TRUE \in Stops(i) /\ \A j \in certain : i <= j}
           \cup IF certain = {} THEN {-1} ELSE {}
  BY DEF FirstOf
<1>5. FirstAmong(C) = IF prefix THEN 0 ELSE 1
  BY <1>1, FirstOfThree
<1> HIDE DEF C, P, prefix
<1>6. certain = C /\ possible = C
  <2>1. certain = C
    BY <1>2, <1>3
  <2>2. possible = C
    BY <1>2, <1>3
  <2> QED BY <2>1, <2>2
<1>7. {i \in P : TRUE \in Stops(i) /\ \A j \in certain : i <= j}
         = {i \in possible : \A j \in certain : i <= j}
  OBVIOUS
<1> HIDE DEF certain, possible
<1>8. {i \in possible : \A j \in certain : i <= j} \cup (IF certain = {} THEN {-1} ELSE {})
         = {FirstAmong(C)}
  BY <1>3, <1>6, FirstOfAnswers
<1> QED BY <1>4, <1>5, <1>7, <1>8 DEF P, prefix

LEMMA StrvecFindAnswers ==
    ASSUME Picked, IsString(ref), IsString(seg)
    PROVE  LET prefix == Occurs(Text(seg), Text(ref), 0)
           IN  /\ strvec_find(<<ref, seg, ref>>, seg) = {IF prefix THEN 0 ELSE 1}
               /\ strvec_find_last(<<ref, seg, ref>>, seg) = {IF prefix THEN 2 ELSE 1}
<1> DEFINE vec == <<ref, seg, ref>>
           first == IF Occurs(Text(seg), Text(ref), 0) THEN 0 ELSE 1
           P == 0 .. Len(vec) - 1
           Up(i)   == {d = 0 : d \in str_compare(vec[i + 1], seg)}
           Down(i) == {d = 0 : d \in str_compare(vec[Len(vec) - i], seg)}
           from == FirstOf(P, Down)
<1>1. /\ strvec_find(vec, seg) = FirstOf(P, Up)
      /\ strvec_find_last(vec, seg) = {IF i = -1 THEN -1 ELSE Len(vec) - 1 - i : i \in from}
  BY DEF strvec_find, strvec_find_last
<1>2. Len(vec) = 3 /\ P = 0 .. 2
  OBVIOUS
<1>3. \A i \in 0 .. 2 : /\ vec[i + 1] = (IF i = 1 THEN seg ELSE ref)
                        /\ vec[3 - i] = (IF i = 1 THEN seg ELSE ref)
  <2>1. vec[1] = ref /\ vec[2] = seg /\ vec[3] = ref
    OBVIOUS
  <2> HIDE DEF vec
  <2> TAKE i \in 0 .. 2
  <2>2. CASE i = 0
    <3>1. i + 1 = 1 /\ 3 - i = 3 /\ i # 1
      BY <2>2
    <3> QED BY <2>1, <3>1
  <2>3. CASE i = 1
    <3>1. i + 1 = 2 /\ 3 - i = 2
      BY <2>3
    <3> QED BY <2>1, <2>3, <3>1
  <2>4. CASE i = 2
    <3>1. i + 1 = 3 /\ 3 - i = 1 /\ i # 1
      BY <2>4
    <3> QED BY <2>1, <3>1
  <2> QED BY <2>2, <2>3, <2>4
<1>4. \A i \in P : Up(i) = Stops(i) /\ Down(i) = Stops(i)
  BY <1>2, <1>3 DEF Stops
<1> HIDE DEF vec, P, Up, Down
<1>5. FirstOf(P, Up) = FirstOf(P, Stops) /\ from = FirstOf(P, Stops)
  <2>1. /\ {i \in P : Up(i) = {TRUE}} = {i \in P : Stops(i) = {TRUE}}
        /\ {i \in P : Down(i) = {TRUE}} = {i \in P : Stops(i) = {TRUE}}
    BY <1>4
  <2> DEFINE certain == {i \in P : Stops(i) = {TRUE}}
  <2>2. /\ {i \in P : TRUE \in Up(i) /\ \A j \in certain : i <= j}
              = {i \in P : TRUE \in Stops(i) /\ \A j \in certain : i <= j}
        /\ {i \in P : TRUE \in Down(i) /\ \A j \in certain : i <= j}
              = {i \in P : TRUE \in Stops(i) /\ \A j \in certain : i <= j}
    <3> HIDE DEF certain
    <3> QED BY <1>4
  <2> QED BY <2>1, <2>2 DEF FirstOf
<1>6. FirstOf(P, Up) = {first} /\ from = {first}
  BY <1>2, <1>5, StrvecLoop
<1>7. strvec_find_last(vec, seg) = {2 - first}
  BY <1>1, <1>2, <1>6
<1> QED BY <1>1, <1>6, <1>7 DEF vec

----------------------------------------------------------------------------
(* Every call *)

\* Strings are what the functions of strings are called on; and the numbers of
\* elements and the elements that a call is given.
LEMMA Answered ==
    ASSUME Next
    PROVE  /\ ref' = ref /\ seg' = seg
           /\ call'.fn \in {"str_compare", "findstr", "findchar", "findrchar", "strvec_find",
                            "strvec_find_last"} => IsString(ref) /\ IsString(seg)
           /\ call'.fn = "str_compare" => call'.ret \in str_compare(ref, seg)
           /\ call'.fn = "findstr" => call'.ret \in str_findstr(ref, seg)
           /\ call'.fn = "findchar" => call'.arg \in Val /\ call'.ret \in str_findchar(ref, call'.arg)
           /\ call'.fn = "findrchar" => call'.arg \in Val /\ call'.ret \in str_findrchar(ref, call'.arg)
           /\ call'.fn = "strvec_find" => call'.ret \in strvec_find(<<ref, seg, ref>>, seg)
           /\ call'.fn = "strvec_find_last" => call'.ret \in strvec_find_last(<<ref, seg, ref>>, seg)
           /\ call'.fn = "find_vec_n" =>
                 call'.arg \in Nat /\ call'.ret \in charvec_find_vec_n(ref, seg, call'.arg)
           /\ call'.fn = "find_vec" => call'.ret \in charvec_find_vec(ref, seg)
           /\ call'.fn = "compare_n" =>
                 call'.arg \in Nat /\ call'.ret \in charvec_compare_n(ref, seg, call'.arg)
           /\ call'.fn = "compare" => call'.ret \in charvec_compare(ref, seg)
<1>1. CASE CallGet
  BY <1>1 DEF CallGet, Returns
<1>2. CASE CallCompareN
  BY <1>2 DEF CallCompareN, Returns
<1>3. CASE CallCompare
  BY <1>3 DEF CallCompare, Returns
<1>4. CASE CallFindVecN
  BY <1>4 DEF CallFindVecN, Returns
<1>5. CASE CallFindVec
  BY <1>5 DEF CallFindVec, Returns
<1>6. CASE CallFind
  BY <1>6 DEF CallFind, Returns
<1>7. CASE CallFindLast
  BY <1>7 DEF CallFindLast, Returns
<1>8. CASE String
  <2>1. IsString(ref) /\ IsString(seg)
    BY <1>8 DEF String
  <2>2. CASE Returns("str_compare", 0, str_compare(ref, seg))
    BY <2>1, <2>2 DEF Returns
  <2>3. CASE Returns("findstr", 0, str_findstr(ref, seg))
    BY <2>1, <2>3 DEF Returns
  <2>4. CASE \E c \in Val : Returns("findchar", c, str_findchar(ref, c))
    BY <2>1, <2>4 DEF Returns
  <2>5. CASE \E c \in Val : Returns("findrchar", c, str_findrchar(ref, c))
    BY <2>1, <2>5 DEF Returns
  <2>6. CASE Returns("strvec_find", 0, strvec_find(<<ref, seg, ref>>, seg))
    BY <2>1, <2>6 DEF Returns
  <2>7. CASE Returns("strvec_find_last", 0, strvec_find_last(<<ref, seg, ref>>, seg))
    BY <2>1, <2>7 DEF Returns
  <2> QED BY <1>8, <2>2, <2>3, <2>4, <2>5, <2>6, <2>7 DEF String
<1> QED BY <1>1, <1>2, <1>3, <1>4, <1>5, <1>6, <1>7, <1>8 DEF Next, Vector

LEMMA InitPicks == ASSUME Init PROVE Picked
BY DEF Init, Picked

\* The two vectors stay.
LEMMA StepPicks == ASSUME Picked, [Next]_vars PROVE Picked'
BY Answered DEF Picked, vars

LEMMA StrCompareStep == ASSUME Picked, Next PROVE StrCompareIsStrncmp'
<1> SUFFICES ASSUME call'.fn = "str_compare"
             PROVE  LET p == SubSeq(Contents(seg'), 1, seg'.used - 1)
                    IN  /\ call'.ret = 0 <=> Occurs(p, Text(ref'), 0)
                        /\ call'.ret < 0 <=> \E k \in 1 .. Min({Len(p), ref'.used}) :
                                                /\ Occurs(SubSeq(p, 1, k - 1), Contents(ref'), 0)
                                                /\ Contents(ref')[k] < p[k]
  BY DEF StrCompareIsStrncmp
<1>1. /\ ref' = ref /\ seg' = seg /\ IsString(ref) /\ IsString(seg)
      /\ call'.ret \in str_compare(ref, seg)
  BY Answered
<1> QED BY <1>1, StrCompareAnswers

LEMMA FindstrStep == ASSUME Picked, Next PROVE FindstrIsStrstr'
<1> DEFINE prefix == Occurs(Text(seg), Text(ref), 0)
<1>1. ref' = ref /\ seg' = seg
  BY Answered
<1>2. ASSUME call'.fn = "findstr", Text(seg) # <<>>
      PROVE  call'.ret = FirstAmong({i \in 0 .. ref.used : Occurs(Text(seg), Text(ref), i)})
  BY <1>2, Answered, FindStrAnswers
<1>3. ASSUME call'.fn = "findchar" PROVE call'.ret = FirstAmong(Places(call'.arg))
  BY <1>3, Answered, FindCharAnswers
<1>4. ASSUME call'.fn = "findrchar" PROVE call'.ret = Max(Places(call'.arg) \cup {-1})
  BY <1>4, Answered, FindRCharAnswers
<1>5. ASSUME call'.fn = "strvec_find" PROVE call'.ret = IF prefix THEN 0 ELSE 1
  BY <1>5, Answered, StrvecFindAnswers
<1>6. ASSUME call'.fn = "strvec_find_last" PROVE call'.ret = IF prefix THEN 2 ELSE 1
  BY <1>6, Answered, StrvecFindAnswers
<1> QED BY <1>1, <1>2, <1>3, <1>4, <1>5, <1>6 DEF FindstrIsStrstr, Places

LEMMA FindVecStep == ASSUME Picked, Next PROVE FindVecFindsFirst'
<1>1. ref' = ref /\ seg' = seg
  BY Answered
<1> SUFFICES ASSUME ref.of = "char", call'.fn \in {"find_vec_n", "find_vec"}
             PROVE  LET n    == IF call'.fn = "find_vec" THEN seg.used ELSE Min({call'.arg, seg.used})
                        part == SubSeq(Contents(seg), 1, n)
                        at   == {i \in 0 .. ref.used - Len(part) - 1 : Occurs(part, Contents(ref), i)}
                    IN  part # <<>> => call'.ret = FirstAmong(at)
  BY <1>1 DEF FindVecFindsFirst
<1> DEFINE n == IF call'.fn = "find_vec" THEN seg.used ELSE Min({call'.arg, seg.used})
           part == SubSeq(Contents(seg), 1, n)
           at == {i \in 0 .. ref.used - Len(part) - 1 : Occurs(part, Contents(ref), i)}
           arg == IF call'.fn = "find_vec" THEN seg.used ELSE call'.arg
<1>2. IsVector(seg) /\ seg.used \in Nat
  BY PickedType
<1>3. arg \in Nat /\ call'.ret \in charvec_find_vec_n(ref, seg, arg)
  BY <1>2, Answered DEF charvec_find_vec
<1>4. n = Min({arg, seg.used})
  <2>1. CASE call'.fn = "find_vec"
    BY <1>2, <2>1, LeastOf
  <2>2. CASE call'.fn = "find_vec_n"
    BY <2>2
  <2> QED BY <2>1, <2>2
<1> HIDE DEF arg, n
<1>5. n \in 0 .. seg.used
  BY <1>2, <1>3, <1>4, LeastOf
<1>6. part \in Seq(Val) /\ Len(part) = n
  BY <1>2, <1>5, PrefixType
<1>7. ASSUME part # <<>> PROVE call'.ret = FirstAmong(at)
  <2>1. n \in 1 .. seg.used
    <3>1. Len(part) # 0
      <4> HIDE DEF part
      <4> QED BY <1>6, <1>7, EmptySeq
    <3> QED BY <1>2, <1>5, <1>6, <3>1
  <2>2. charvec_find_vec_n(ref, seg, arg)
           = {FirstAmong({i \in 0 .. ref.used - n - 1 :
                            Occurs(SubSeq(Contents(seg), 1, n), Contents(ref), i)})}
    BY <1>3, <1>4, <2>1, FindVecAnswers
  <2> QED BY <1>3, <1>6, <2>2
<1> QED BY <1>7 DEF n

LEMMA CompareStep == ASSUME Picked, Next PROVE OnlyEqualCompareEqual'
<1>1. ref' = ref /\ seg' = seg
  BY Answered
<1>2. ASSUME call'.fn = "compare_n", call'.arg <= Min({ref.used, seg.used})
      PROVE  call'.ret = 0 <=> \A k \in 1 .. call'.arg : KthAlike(k)
  BY <1>2, Answered, CompareNAnswers
<1>3. ASSUME call'.fn = "compare", call'.ret = 0
      PROVE  \A k \in 1 .. Min({ref.used, seg.used}) : KthAlike(k)
  BY <1>3, Answered, CompareAnswers
<1> QED BY <1>1, <1>2, <1>3 DEF OnlyEqualCompareEqual, KthAlike

----------------------------------------------------------------------------

\* str_compare (str.c) is strncmp of as many characters as its second argument
\* has, with characters that have a sign, for any two strings and whatever lies
\* behind them.
THEOREM StrCompareCorrect == Spec => []StrCompareIsStrncmp
<1> DEFINE Inv == Picked /\ StrCompareIsStrncmp
<1>1. Init => Inv
  BY InitPicks DEF Init, StrCompareIsStrncmp
<1>2. Inv /\ [Next]_vars => Inv'
  <2> SUFFICES ASSUME Inv, [Next]_vars PROVE Inv'
    OBVIOUS
  <2>1. CASE Next
    BY <2>1, StepPicks, StrCompareStep
  <2>2. CASE UNCHANGED vars
    BY <2>2, StepPicks DEF vars, StrCompareIsStrncmp
  <2> QED BY <2>1, <2>2
<1> QED BY <1>1, <1>2, PTL DEF Spec

\* What is found in strings and in lists of strings is the first, or the last,
\* of what is there: str_findstr, str_findchar, str_findrchar (str.c),
\* strvec_find and strvec_find_last (strvec.c).
THEOREM FindstrCorrect == Spec => []FindstrIsStrstr
<1> DEFINE Inv == Picked /\ FindstrIsStrstr
<1>1. Init => Inv
  BY InitPicks DEF Init, FindstrIsStrstr
<1>2. Inv /\ [Next]_vars => Inv'
  <2> SUFFICES ASSUME Inv, [Next]_vars PROVE Inv'
    OBVIOUS
  <2>1. CASE Next
    BY <2>1, StepPicks, FindstrStep
  <2>2. CASE UNCHANGED vars
    BY <2>2, StepPicks DEF vars, FindstrIsStrstr
  <2> QED BY <2>1, <2>2
<1> QED BY <1>1, <1>2, PTL DEF Spec

\* charvec_find_vec_n and charvec_find_vec (charvec.c) find the first place of a
\* part that is not empty, but for the last place where it fits, although they
\* compare elements of which some may lie behind those in use.
THEOREM FindVecCorrect == Spec => []FindVecFindsFirst
<1> DEFINE Inv == Picked /\ FindVecFindsFirst
<1>1. Init => Inv
  BY InitPicks DEF Init, FindVecFindsFirst
<1>2. Inv /\ [Next]_vars => Inv'
  <2> SUFFICES ASSUME Inv, [Next]_vars PROVE Inv'
    OBVIOUS
  <2>1. CASE Next
    BY <2>1, StepPicks, FindVecStep
  <2>2. CASE UNCHANGED vars
    BY <2>2, StepPicks DEF vars, FindVecFindsFirst
  <2> QED BY <2>1, <2>2
<1> QED BY <1>1, <1>2, PTL DEF Spec

\* compare_offset_n (charvec.c, pointervec.c) has vectors compare as equal just
\* if their elements are, or of pointers differ by multiples of the range of an
\* int, for any width of an int; and compare, which asks for SIZE_MAX elements,
\* misses no difference before the end of the one or the other.
THEOREM CompareCorrect == Spec => []OnlyEqualCompareEqual
<1> DEFINE Inv == Picked /\ OnlyEqualCompareEqual
<1>1. Init => Inv
  BY InitPicks DEF Init, OnlyEqualCompareEqual
<1>2. Inv /\ [Next]_vars => Inv'
  <2> SUFFICES ASSUME Inv, [Next]_vars PROVE Inv'
    OBVIOUS
  <2>1. CASE Next
    BY <2>1, StepPicks, CompareStep
  <2>2. CASE UNCHANGED vars
    BY <2>2, StepPicks DEF vars, OnlyEqualCompareEqual
  <2> QED BY <2>1, <2>2
<1> QED BY <1>1, <1>2, PTL DEF Spec
=============================================================================
