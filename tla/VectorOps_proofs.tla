-------------------------- MODULE VectorOps_proofs --------------------------
(* What the functions of the vectors do to a vector and to the sequence of    *)
(* its elements, for any elements, memory that malloc adds and size policy.   *)
EXTENDS VectorOps, SequenceTheorems, TLAPS

----------------------------------------------------------------------------
(* The size policy *)

\* A remainder is less than its modulus.
LEMMA ModInRange == ASSUME NEW x \in Nat, NEW m \in Nat \ {0}
                    PROVE  x % m \in 0 .. m - 1
OBVIOUS

\* The remainder of what is less than the modulus is itself.
LEMMA ModOfSmall == ASSUME NEW m \in Nat \ {0}, NEW x \in 0 .. m - 1
                    PROVE  x % m = x
OBVIOUS

\* Where the sum cannot wrap, rounding up does not round down.
LEMMA RoundUpCovers == ASSUME NEW rq \in 0 .. SizeMax
                       PROVE  RoundUp(rq) \in Nat /\ RoundUp(rq) >= rq
<1> DEFINE sum == rq + (SizeStep - 1)
<1>1. sum \in 0 .. WordSize - 1
  BY PolicySizeAssumption
<1>2. sum % WordSize = sum
  BY <1>1, ModOfSmall, PolicySizeAssumption
<1>3. RoundUp(rq) = sum - (sum % SizeStep)
  BY <1>2 DEF RoundUp
<1>4. sum \in Nat /\ sum >= SizeStep - 1 /\ sum - (SizeStep - 1) = rq
  BY PolicySizeAssumption
<1> HIDE DEF sum
<1>5. sum % SizeStep \in 0 .. SizeStep - 1
  BY <1>4, ModInRange, PolicySizeAssumption
<1>6. PICK m \in 0 .. SizeStep - 1 : m = sum % SizeStep
  BY <1>5
<1>7. sum - m \in Nat /\ sum - m >= rq
  BY <1>4, PolicySizeAssumption
<1> QED
  BY <1>3, <1>6, <1>7

\* A number is a multiple and a remainder.
LEMMA Division ==
    ASSUME NEW a \in Int, NEW b \in Nat \ {0}
    PROVE  a \div b \in Int /\ a % b \in 0 .. b - 1 /\ a = b * (a \div b) + (a % b)
BY Z3

\* A multiple that is less than another one and a step is no more than that.
LEMMA LessMultiple ==
    ASSUME NEW b \in Nat \ {0}, NEW k \in Int, NEW j \in Int, b * k < b * j + b
    PROVE  b * k <= b * j
<1>1. b * (k - j) < b
  OBVIOUS
<1>2. k - j <= 0
  <2> SUFFICES ASSUME k - j >= 1 PROVE FALSE
    OBVIOUS
  <2>1. b * (k - j) >= b
    OBVIOUS
  <2> QED BY <1>1, <2>1
<1>3. b * (k - j) <= 0
  BY <1>2
<1> QED BY <1>3

\* Rounding up gives the least multiple that is no less.
LEMMA RoundUpLeast ==
    ASSUME NEW rq \in 0 .. SizeMax
    PROVE  /\ \E k \in Int : RoundUp(rq) = SizeStep * k
           /\ \A j \in Int : rq <= SizeStep * j => RoundUp(rq) <= SizeStep * j
<1> DEFINE sum == rq + (SizeStep - 1)
           k == sum \div SizeStep
           m == sum % SizeStep
<1>1. sum \in 0 .. WordSize - 1 /\ sum \in Int /\ sum < rq + SizeStep
  BY PolicySizeAssumption
<1>2. RoundUp(rq) = sum - m
  BY <1>1, ModOfSmall, PolicySizeAssumption DEF RoundUp
<1>3. k \in Int /\ m \in 0 .. SizeStep - 1 /\ sum = SizeStep * k + m
  <2> HIDE DEF sum
  <2> QED BY <1>1, Division, PolicySizeAssumption
<1> HIDE DEF sum, k, m
<1>4. RoundUp(rq) = SizeStep * k
  BY <1>2, <1>3, PolicySizeAssumption
<1>5. ASSUME NEW j \in Int, rq <= SizeStep * j PROVE RoundUp(rq) <= SizeStep * j
  <2>1. SizeStep \in Nat \ {0} /\ SizeStep * k \in Int /\ SizeStep * j \in Int
    BY <1>3, PolicySizeAssumption
  <2>2. SizeStep * k < SizeStep * j + SizeStep
    <3>1. SizeStep * k <= sum /\ sum < rq + SizeStep
      BY <1>1, <1>3, <2>1
    <3> QED BY <1>1, <1>5, <2>1, <3>1
  <2> QED BY <1>3, <1>4, <2>1, <2>2, LessMultiple
<1> QED BY <1>3, <1>4, <1>5

\* A vector that grows is given room for at least what was requested
\* (POLICY_SIZE_STEP, which the grow functions of the vectors rely on): no sum
\* wraps on the way, whatever the word size and the parameters of the policy.
THEOREM PolicyCovers == \A rq \in 0 .. WordSize - 1 :
                           POLICY_SIZE_STEP(rq) \in Nat /\ POLICY_SIZE_STEP(rq) >= rq
<1> SUFFICES ASSUME NEW rq \in 0 .. WordSize - 1
             PROVE  POLICY_SIZE_STEP(rq) \in Nat /\ POLICY_SIZE_STEP(rq) >= rq
  OBVIOUS
<1>1. CASE rq <= SizeMin
  BY <1>1, PolicySizeAssumption DEF POLICY_SIZE_STEP
<1>2. CASE rq > SizeMin /\ rq <= SizeMax
  <2>1. POLICY_SIZE_STEP(rq) = RoundUp(rq)
    BY <1>2, PolicySizeAssumption DEF POLICY_SIZE_STEP
  <2>2. rq \in 0 .. SizeMax
    BY <1>2, PolicySizeAssumption
  <2> QED
    BY <2>1, <2>2, RoundUpCovers
<1>3. CASE rq > SizeMin /\ rq > SizeMax
  BY <1>3, PolicySizeAssumption DEF POLICY_SIZE_STEP
<1>4. (rq <= SizeMin \/ rq > SizeMin) /\ (rq <= SizeMax \/ rq > SizeMax)
  BY PolicySizeAssumption
<1> QED
  BY <1>1, <1>2, <1>3, <1>4

----------------------------------------------------------------------------
(* A vector and its parts *)

\* A vector is the record of its parts.
LEMMA VectorParts ==
    ASSUME NEW v, IsVector(v)
    PROVE  /\ v.of \in Type /\ v.size \in Nat /\ v.used \in 0 .. Usable(v.size)
           /\ v.cells \in [0 .. Usable(v.size) - 1 -> Val]
           /\ v = [of |-> v.of, size |-> v.size, used |-> v.used, cells |-> v.cells]
BY DEF IsVector, VectorsOf

\* Its parts make a vector.
LEMMA PartsVector ==
    ASSUME NEW of \in Type, NEW size \in Nat, NEW used \in 0 .. Usable(size),
           NEW cells \in [0 .. Usable(size) - 1 -> Val]
    PROVE  IsVector([of |-> of, size |-> size, used |-> used, cells |-> cells])
BY DEF IsVector, VectorsOf

\* malloc adds to a block, never takes from it.
LEMMA UsableType == ASSUME NEW size \in Nat
                    PROVE  Usable(size) \in Nat /\ Usable(size) >= size
BY VectorAssumption DEF Usable

\* A larger block has no less room.
LEMMA UsableGrows == ASSUME NEW s \in Nat, NEW t \in Nat, s <= t
                     PROVE  Usable(s) <= Usable(t)
BY VectorAssumption DEF Usable

\* The elements in use are a sequence.
LEMMA ContentsType ==
    ASSUME NEW v, IsVector(v)
    PROVE  /\ Contents(v) \in Seq(Val)
           /\ Len(Contents(v)) = v.used
           /\ \A k \in 1 .. v.used : Contents(v)[k] = v.cells[k - 1]
<1>1. v.size \in Nat /\ v.used \in 0 .. Usable(v.size) /\ v.cells \in [0 .. Usable(v.size) - 1 -> Val]
  BY VectorParts
<1>2. Usable(v.size) \in Nat
  BY <1>1, UsableType
<1>3. v.used \in Nat /\ \A k \in 1 .. v.used : v.cells[k - 1] \in Val
  BY <1>1, <1>2
<1>4. Contents(v) \in [1 .. v.used -> Val]
  BY <1>3 DEF Contents
<1>5. Contents(v) \in Seq(Val)
  BY <1>3, <1>4
<1>6. Len(Contents(v)) = v.used
  BY <1>3, <1>4
<1> QED
  BY <1>5, <1>6, <1>3 DEF Contents

----------------------------------------------------------------------------
(* Growing *)

\* w is v, or v in the block that the policy gives for a request: its elements
\* are kept, and it has room for what was requested.
Larger(w, v, must, request) ==
    /\ IsVector(w) /\ w.of = v.of /\ w.used = v.used /\ Contents(w) = Contents(v)
    /\ w.size >= v.size
    /\ must => w.size >= request
    /\ w.size = v.size \/ w.size = POLICY_SIZE_STEP(request)

\* v in a block of another size.
Realloc(v, size, garbage) ==
    [v EXCEPT !.size  = size,
              !.cells = [k \in 0 .. Usable(size) - 1 |->
                            IF k < Usable(v.size) THEN @[k] ELSE garbage]]

\* realloc keeps the elements.
LEMMA Reallocated ==
    ASSUME NEW v, IsVector(v), NEW size \in Nat, size >= v.size, NEW garbage \in Val,
           NEW w, w = Realloc(v, size, garbage)
    PROVE  IsVector(w) /\ w.of = v.of /\ w.size = size /\ w.used = v.used /\ Contents(w) = Contents(v)
<1> DEFINE cells == [k \in 0 .. Usable(size) - 1 |-> IF k < Usable(v.size) THEN v.cells[k] ELSE garbage]
<1>1. /\ v.of \in Type /\ v.size \in Nat /\ v.used \in 0 .. Usable(v.size)
      /\ v.cells \in [0 .. Usable(v.size) - 1 -> Val]
  BY VectorParts
<1>2. w = [of |-> v.of, size |-> size, used |-> v.used, cells |-> cells]
  <2>1. v = [of |-> v.of, size |-> v.size, used |-> v.used, cells |-> v.cells]
    BY VectorParts
  <2> QED BY <2>1 DEF Realloc
<1>3. Usable(v.size) \in Nat /\ Usable(size) \in Nat /\ Usable(v.size) <= Usable(size)
  BY <1>1, UsableType, UsableGrows
<1>4. cells \in [0 .. Usable(size) - 1 -> Val]
  BY <1>1, <1>3
<1>5. IsVector(w)
  <2> HIDE DEF cells
  <2>1. v.used \in 0 .. Usable(size)
    BY <1>1, <1>3
  <2>2. IsVector([of |-> v.of, size |-> size, used |-> v.used, cells |-> cells])
    BY <1>1, <1>4, <2>1, PartsVector
  <2> QED BY <1>2, <2>2
<1>6. \A k \in 1 .. v.used : cells[k - 1] = v.cells[k - 1]
  BY <1>1, <1>3
<1>7. w.of = v.of /\ w.size = size /\ w.used = v.used /\ w.cells = cells
  BY <1>2
<1>8. Contents(w) = Contents(v)
  BY <1>6, <1>7 DEF Contents
<1> QED
  BY <1>5, <1>7, <1>8

\* grow gives a vector the room requested and keeps its elements
\* (pointervec_grow).
LEMMA GrownLarger ==
    ASSUME NEW v, IsVector(v), NEW must \in BOOLEAN, NEW request \in 0 .. WordSize - 1,
           NEW w \in Grown(v, must, request)
    PROVE  Larger(w, v, must, request)
<1>0. v.size \in Nat
  BY VectorParts
<1>1. POLICY_SIZE_STEP(request) \in Nat /\ POLICY_SIZE_STEP(request) >= request
  BY PolicyCovers
<1>2. CASE NeedsMemory(v, must, request)
  <2> DEFINE size == POLICY_SIZE_STEP(request)
  <2>1. PICK garbage \in Val : w = Realloc(v, size, garbage)
    BY <1>2 DEF Grown, Realloc
  <2>2. size \in Nat /\ size >= v.size
    BY <1>0, <1>1, <1>2 DEF NeedsMemory
  <2>3. IsVector(w) /\ w.of = v.of /\ w.size = size /\ w.used = v.used /\ Contents(w) = Contents(v)
    <3> HIDE DEF size
    <3> QED BY <2>1, <2>2, Reallocated
  <2> QED
    BY <1>0, <1>1, <2>2, <2>3, PolicySizeAssumption DEF Larger
<1>3. CASE ~NeedsMemory(v, must, request)
  <2>1. w = v
    BY <1>3 DEF Grown
  <2>2. must => v.size >= POLICY_SIZE_STEP(request)
    BY <1>3, <1>0, <1>1 DEF NeedsMemory
  <2>3. must => v.size >= request
    BY <2>2, <1>0, <1>1, PolicySizeAssumption
  <2> QED
    BY <2>1, <2>3, <1>0 DEF Larger
<1> QED
  BY <1>2, <1>3

----------------------------------------------------------------------------
(* Writing elements *)

\* u is w with the elements seq in use.
Holding(u, w, seq) ==
    IsVector(u) /\ u.of = w.of /\ u.size = w.size /\ Contents(u) = seq /\ u.used = Len(seq)

\* A vector that is written to within its block stays a vector; what is written
\* is there, and what is not is as it was.
LEMMA Stored ==
    ASSUME NEW w, IsVector(w), NEW at \in Nat, NEW xs \in Seq(Val), at + Len(xs) <= Usable(w.size),
           NEW used \in 0 .. Usable(w.size),
           NEW u, u = Store(w, at, xs, used)
    PROVE  /\ IsVector(u) /\ u.of = w.of /\ u.size = w.size /\ u.used = used
           /\ \A k \in 0 .. used - 1 :
                 u.cells[k] = IF k \in at .. at + Len(xs) - 1 THEN xs[k - at + 1] ELSE w.cells[k]
<1> DEFINE cells == [k \in 0 .. Usable(w.size) - 1 |->
                        IF k \in at .. at + Len(xs) - 1 THEN xs[k - at + 1] ELSE w.cells[k]]
<1>1. /\ w.of \in Type /\ w.size \in Nat /\ w.used \in 0 .. Usable(w.size)
      /\ w.cells \in [0 .. Usable(w.size) - 1 -> Val]
  BY VectorParts
<1>2. Usable(w.size) \in Nat
  BY <1>1, UsableType
<1>3. u = [of |-> w.of, size |-> w.size, used |-> used, cells |-> cells]
  <2>1. w = [of |-> w.of, size |-> w.size, used |-> w.used, cells |-> w.cells]
    BY VectorParts
  <2>2. DOMAIN w.cells = 0 .. Usable(w.size) - 1
    BY <1>1
  <2>3. Store(w, at, xs, used) =
           [w EXCEPT !.used = used,
                     !.cells = [k \in DOMAIN w.cells |-> IF k \in at .. at + Len(xs) - 1
                                                         THEN xs[k - at + 1] ELSE w.cells[k]]]
    BY DEF Store
  <2>4. u = [w EXCEPT !.used = used, !.cells = cells]
    BY <2>2, <2>3
  <2> HIDE DEF cells
  <2> QED BY <2>1, <2>4
<1>4. \A k \in at .. at + Len(xs) - 1 : xs[k - at + 1] \in Val
  <2> SUFFICES ASSUME NEW k \in at .. at + Len(xs) - 1 PROVE xs[k - at + 1] \in Val
    OBVIOUS
  <2>1. Len(xs) \in Nat
    BY LenProperties
  <2>2. k - at + 1 \in 1 .. Len(xs)
    BY <2>1
  <2> QED BY <2>2, ElementOfSeq
<1>5. cells \in [0 .. Usable(w.size) - 1 -> Val]
  BY <1>1, <1>2, <1>4
<1>6. IsVector(u)
  BY <1>1, <1>3, <1>5, PartsVector
<1>7. u.of = w.of /\ u.size = w.size /\ u.used = used /\ u.cells = cells
  BY <1>3
<1> QED
  BY <1>2, <1>6, <1>7

\* seq is s with xs written from position at on: what is beyond xs comes from s.
Written(seq, s, at, xs) ==
    \A k \in 1 .. Len(seq) :
       \/ k - 1 \in at .. at + Len(xs) - 1 /\ seq[k] = xs[k - at]
       \/ k - 1 \notin at .. at + Len(xs) - 1 /\ k \in 1 .. Len(s) /\ seq[k] = s[k]

\* Writing to a vector writes to its sequence, if it stays within the block.
LEMMA StoreHolds ==
    ASSUME NEW w, IsVector(w), NEW at \in Nat, NEW xs \in Seq(Val), at + Len(xs) <= Usable(w.size),
           NEW seq \in Seq(Val), Len(seq) <= Usable(w.size), Written(seq, Contents(w), at, xs),
           NEW u, u = Store(w, at, xs, Len(seq))
    PROVE  Holding(u, w, seq)
<1>1. w.size \in Nat /\ w.used \in 0 .. Usable(w.size) /\ Usable(w.size) \in Nat
  BY VectorParts, UsableType
<1>2. /\ Len(Contents(w)) = w.used
      /\ \A k \in 1 .. w.used : Contents(w)[k] = w.cells[k - 1]
  BY ContentsType
<1>3. Len(seq) \in Nat /\ Len(xs) \in Nat
  BY LenProperties
<1>4. Len(seq) \in 0 .. Usable(w.size)
  BY <1>1, <1>3
<1>5. /\ IsVector(u) /\ u.of = w.of /\ u.size = w.size /\ u.used = Len(seq)
      /\ \A k \in 0 .. Len(seq) - 1 :
            u.cells[k] = IF k \in at .. at + Len(xs) - 1 THEN xs[k - at + 1] ELSE w.cells[k]
  BY <1>4, Stored
<1>6. \A k \in 1 .. Len(seq) : Contents(u)[k] = u.cells[k - 1] /\ Len(Contents(u)) = Len(seq) /\ Contents(u) \in Seq(Val)
  BY <1>5, ContentsType
<1>7. ASSUME NEW k \in 1 .. Len(seq) PROVE Contents(u)[k] = seq[k]
  <2>1. k - 1 \in 0 .. Len(seq) - 1 /\ k \in Nat
    BY <1>3
  <2>2. Contents(u)[k] = IF k - 1 \in at .. at + Len(xs) - 1 THEN xs[k - 1 - at + 1] ELSE w.cells[k - 1]
    BY <1>5, <1>6, <2>1
  <2>3. CASE k - 1 \in at .. at + Len(xs) - 1
    <3>1. k - 1 - at + 1 = k - at
      BY <2>1
    <3>2. seq[k] = xs[k - at]
      BY <2>3 DEF Written
    <3> QED BY <2>2, <2>3, <3>1, <3>2
  <2>4. CASE k - 1 \notin at .. at + Len(xs) - 1
    <3>1. k \in 1 .. w.used /\ seq[k] = Contents(w)[k]
      BY <2>4, <1>2 DEF Written
    <3> QED BY <2>2, <2>4, <3>1, <1>2
  <2> QED BY <2>3, <2>4
<1>8. Contents(u) \in Seq(Val) /\ Len(Contents(u)) = Len(seq)
  BY <1>5, ContentsType
<1>9. Contents(u) = seq
  BY <1>7, <1>8, SeqEqual
<1> QED
  BY <1>5, <1>9 DEF Holding

----------------------------------------------------------------------------
(* What is written *)

\* Everything is written.
LEMMA AllWritten == ASSUME NEW xs \in Seq(Val), NEW s
                    PROVE  Written(xs, s, 0, xs)
<1>1. Len(xs) \in Nat
  BY LenProperties
<1> QED
  BY <1>1 DEF Written

\* xs is written after s.
LEMMA AppendedWritten ==
    ASSUME NEW s \in Seq(Val), NEW xs \in Seq(Val)
    PROVE  s \o xs \in Seq(Val) /\ Len(s \o xs) = Len(s) + Len(xs) /\ Written(s \o xs, s, Len(s), xs)
<1> DEFINE n == Len(s)
           m == Len(xs)
           r == s \o xs
<1>1. n \in Nat /\ m \in Nat
  BY LenProperties
<1>2. r \in Seq(Val) /\ Len(r) = n + m
      /\ \A i \in 1 .. n + m : r[i] = IF i <= n THEN s[i] ELSE xs[i - n]
  BY ConcatProperties, Zenon
<1> HIDE DEF n, m, r
<1>3. \A k \in 1 .. n + m : \/ k - 1 \in n .. n + m - 1 /\ r[k] = xs[k - n]
                            \/ k - 1 \notin n .. n + m - 1 /\ k \in 1 .. n /\ r[k] = s[k]
  BY <1>1, <1>2
<1>4. Written(r, s, n, xs)
  BY <1>2, <1>3 DEF Written, n, m
<1> QED
  BY <1>2, <1>4 DEF n, m, r

\* An element that is in use is written.
LEMMA ElementWritten ==
    ASSUME NEW s \in Seq(Val), NEW i \in 0 .. Len(s) - 1, NEW x \in Val
    PROVE  /\ [s EXCEPT ![i + 1] = x] \in Seq(Val) /\ Len([s EXCEPT ![i + 1] = x]) = Len(s)
           /\ <<x>> \in Seq(Val) /\ Len(<<x>>) = 1
           /\ Written([s EXCEPT ![i + 1] = x], s, i, <<x>>)
<1> DEFINE n == Len(s)
           r == [s EXCEPT ![i + 1] = x]
<1>1. n \in Nat /\ i + 1 \in 1 .. n
  BY LenProperties
<1>2. r \in Seq(Val) /\ Len(r) = n /\ \A j \in 1 .. n : r[j] = IF j = i + 1 THEN x ELSE s[j]
  BY <1>1, ExceptSeq
<1>3. <<x>> \in Seq(Val) /\ Len(<<x>>) = 1 /\ <<x>>[1] = x
  OBVIOUS
<1> DEFINE xs == <<x>>
<1> HIDE DEF n, r, xs
<1>4. \A k \in 1 .. n : \/ k - 1 \in i .. i + 1 - 1 /\ r[k] = xs[k - i]
                        \/ k - 1 \notin i .. i + 1 - 1 /\ k \in 1 .. n /\ r[k] = s[k]
  BY <1>1, <1>2, <1>3 DEF xs
<1>5. Written(r, s, i, xs)
  BY <1>2, <1>3, <1>4 DEF Written, n, xs
<1> QED
  BY <1>2, <1>3, <1>5 DEF n, r, xs

\* The part of a sequence after its first m elements, and that before.
LEMMA Parts ==
    ASSUME NEW s \in Seq(Val), NEW m \in 0 .. Len(s)
    PROVE  /\ SubSeq(s, m + 1, Len(s)) \in Seq(Val)
           /\ Len(SubSeq(s, m + 1, Len(s))) = Len(s) - m
           /\ \A k \in 1 .. Len(s) - m : SubSeq(s, m + 1, Len(s))[k] = s[m + k]
           /\ SubSeq(s, 1, m) \in Seq(Val) /\ Len(SubSeq(s, 1, m)) = m
           /\ \A k \in 1 .. m : SubSeq(s, 1, m)[k] = s[k]
<1> DEFINE n == Len(s)
<1>1. n \in Nat /\ \A k \in 1 .. n : s[k] \in Val
  BY LenProperties, ElementOfSeq
<1>2. /\ \A k \in m + 1 .. n : s[k] \in Val
      /\ \A k \in 1 .. m : s[k] \in Val
      /\ m \in Int /\ n \in Int /\ m + 1 \in Int
  BY <1>1
<1>3. /\ SubSeq(s, m + 1, n) \in Seq(Val)
      /\ Len(SubSeq(s, m + 1, n)) = (IF m + 1 <= n THEN n - (m + 1) + 1 ELSE 0)
      /\ \A k \in 1 .. n - (m + 1) + 1 : SubSeq(s, m + 1, n)[k] = s[m + 1 + k - 1]
  BY <1>2, SubSeqProperties
<1>4. /\ SubSeq(s, 1, m) \in Seq(Val)
      /\ Len(SubSeq(s, 1, m)) = (IF 1 <= m THEN m - 1 + 1 ELSE 0)
      /\ \A k \in 1 .. m - 1 + 1 : SubSeq(s, 1, m)[k] = s[1 + k - 1]
  BY <1>2, SubSeqProperties
<1> HIDE DEF n
<1>5. Len(SubSeq(s, m + 1, n)) = n - m /\ \A k \in 1 .. n - m : SubSeq(s, m + 1, n)[k] = s[m + k]
  BY <1>1, <1>3 DEF n
<1>6. Len(SubSeq(s, 1, m)) = m /\ \A k \in 1 .. m : SubSeq(s, 1, m)[k] = s[k]
  BY <1>1, <1>4
<1> QED
  BY <1>3, <1>4, <1>5, <1>6 DEF n

\* The last element in use is written.
LEMMA LastWritten ==
    ASSUME NEW s \in Seq(Val), Len(s) > 0, NEW x \in Val
    PROVE  /\ SubSeq(s, 1, Len(s) - 1) \in Seq(Val) /\ Len(SubSeq(s, 1, Len(s) - 1)) = Len(s) - 1
           /\ <<x>> \in Seq(Val) /\ Len(<<x>>) = 1
           /\ Written(SubSeq(s, 1, Len(s) - 1), s, Len(s) - 1, <<x>>)
<1> DEFINE n == Len(s)
           r == SubSeq(s, 1, n - 1)
           xs == <<x>>
<1>1. n \in Nat \ {0} /\ n - 1 \in 0 .. n
  BY LenProperties
<1>2. r \in Seq(Val) /\ Len(r) = n - 1 /\ \A k \in 1 .. n - 1 : r[k] = s[k]
  BY <1>1, Parts
<1>3. xs \in Seq(Val) /\ Len(xs) = 1
  OBVIOUS
<1> HIDE DEF n, r, xs
<1>4. \A k \in 1 .. n - 1 : k - 1 \notin n - 1 .. n - 1 + 1 - 1 /\ k \in 1 .. n /\ r[k] = s[k]
  BY <1>1, <1>2
<1>5. Written(r, s, n - 1, xs)
  BY <1>2, <1>3, <1>4 DEF Written, n
<1> QED
  BY <1>2, <1>3, <1>5 DEF n, r, xs

\* An element is written between others, which are moved up.
LEMMA InsertedWritten ==
    ASSUME NEW s \in Seq(Val), NEW i \in 0 .. Len(s) - 1, NEW x \in Val
    PROVE  LET xs  == <<x>> \o SubSeq(s, i + 1, Len(s))
               seq == SubSeq(s, 1, i) \o <<x>> \o SubSeq(s, i + 1, Len(s))
           IN  /\ xs \in Seq(Val) /\ Len(xs) = Len(s) - i + 1
               /\ seq \in Seq(Val) /\ Len(seq) = Len(s) + 1
               /\ Written(seq, s, i, xs)
<1> DEFINE n == Len(s)
           t == SubSeq(s, i + 1, n)
           b == SubSeq(s, 1, i)
           xs == <<x>> \o t
           seq == b \o <<x>> \o t
<1>1. n \in Nat \ {0} /\ i \in 0 .. n /\ i < n
  BY LenProperties
<1>2. /\ t \in Seq(Val) /\ Len(t) = n - i
      /\ b \in Seq(Val) /\ Len(b) = i /\ \A k \in 1 .. i : b[k] = s[k]
  BY <1>1, Parts
<1>3. <<x>> \in Seq(Val) /\ Len(<<x>>) = 1
  OBVIOUS
<1>4. seq = b \o xs
  <2> HIDE DEF t, b
  <2>1. \A p, q, r \in Seq(Val) : (p \o q) \o r = p \o (q \o r)
    BY ConcatAssociative
  <2> QED BY <1>2, <1>3, <2>1
<1>5. xs \in Seq(Val) /\ Len(xs) = n - i + 1
  <2> HIDE DEF t, b, n
  <2>1. xs \in Seq(Val) /\ Len(xs) = Len(<<x>>) + Len(t)
    BY <1>2, <1>3, ConcatProperties, Zenon
  <2> QED BY <1>1, <1>2, <1>3, <2>1
<1> HIDE DEF t, b, n, xs
<1>6. /\ b \o xs \in Seq(Val) /\ Len(b \o xs) = Len(b) + Len(xs)
      /\ Written(b \o xs, b, Len(b), xs)
  BY <1>2, <1>5, AppendedWritten
<1> HIDE DEF seq
<1>7. seq \in Seq(Val) /\ Len(seq) = n + 1 /\ Written(seq, b, i, xs)
  <2>1. seq \in Seq(Val) /\ Len(seq) = i + (n - i + 1) /\ Written(seq, b, i, xs)
    BY <1>2, <1>4, <1>5, <1>6
  <2> QED BY <1>1, <2>1
<1>8. Written(seq, s, i, xs)
  <2>1. \A k \in 1 .. Len(b) : k \in 1 .. Len(s) /\ b[k] = s[k]
    BY <1>1, <1>2 DEF n
  <2> QED BY <1>7, <2>1 DEF Written
<1> QED
  BY <1>5, <1>7, <1>8 DEF n, xs, seq, b, t

\* An element is taken out and those after it are moved down.
LEMMA RemovedWritten ==
    ASSUME NEW s \in Seq(Val), NEW i \in 0 .. Len(s) - 1, NEW x \in Val
    PROVE  LET xs  == Append(SubSeq(s, i + 2, Len(s)), x)
               seq == SubSeq(s, 1, i) \o SubSeq(s, i + 2, Len(s))
           IN  /\ xs \in Seq(Val) /\ Len(xs) = Len(s) - i
               /\ seq \in Seq(Val) /\ Len(seq) = Len(s) - 1
               /\ Written(seq, s, i, xs)
<1> DEFINE n == Len(s)
           t == SubSeq(s, i + 2, n)
           b == SubSeq(s, 1, i)
           xs == Append(t, x)
           seq == b \o t
<1>1. n \in Nat \ {0} /\ i \in 0 .. n /\ i < n /\ i + 1 \in 0 .. n /\ i + 1 + 1 = i + 2
  BY LenProperties
<1>2. t \in Seq(Val) /\ Len(t) = n - (i + 1)
  BY <1>1, Parts
<1>3. b \in Seq(Val) /\ Len(b) = i /\ \A k \in 1 .. i : b[k] = s[k]
  BY <1>1, Parts
<1>4. /\ xs \in Seq(Val) /\ Len(xs) = Len(t) + 1
      /\ \A k \in 1 .. Len(t) : xs[k] = t[k]
  <2> HIDE DEF t
  <2> QED BY <1>2, AppendProperties
<1> HIDE DEF t, b, n, xs
<1>5. /\ seq \in Seq(Val) /\ Len(seq) = Len(b) + Len(t)
      /\ Written(seq, b, Len(b), t)
  BY <1>2, <1>3, AppendedWritten
<1> HIDE DEF seq
<1>6. Len(xs) = n - i /\ Len(seq) = n - 1
  BY <1>1, <1>2, <1>3, <1>4, <1>5
<1>7. \A k \in 1 .. n - 1 : \/ k - 1 \in i .. i + (n - i) - 1 /\ seq[k] = xs[k - i]
                            \/ k - 1 \notin i .. i + (n - i) - 1 /\ k \in 1 .. n /\ seq[k] = s[k]
  <2> SUFFICES ASSUME NEW k \in 1 .. n - 1
               PROVE  \/ k - 1 \in i .. i + (n - i) - 1 /\ seq[k] = xs[k - i]
                      \/ k - 1 \notin i .. i + (n - i) - 1 /\ k \in 1 .. n /\ seq[k] = s[k]
    OBVIOUS
  <2>1. \/ k - 1 \in i .. i + (n - (i + 1)) - 1 /\ seq[k] = t[k - i]
        \/ k - 1 \notin i .. i + (n - (i + 1)) - 1 /\ k \in 1 .. i /\ seq[k] = b[k]
    BY <1>2, <1>3, <1>5, <1>6 DEF Written
  <2>2. CASE k - 1 \in i .. i + (n - (i + 1)) - 1 /\ seq[k] = t[k - i]
    <3>1. k - i \in 1 .. Len(t) /\ k - 1 \in i .. i + (n - i) - 1
      BY <2>2, <1>1, <1>2
    <3> QED BY <2>2, <3>1, <1>4
  <2>3. CASE k - 1 \notin i .. i + (n - (i + 1)) - 1 /\ k \in 1 .. i /\ seq[k] = b[k]
    BY <2>3, <1>1, <1>3
  <2> QED BY <2>1, <2>2, <2>3
<1>8. Written(seq, s, i, xs)
  BY <1>6, <1>7 DEF Written, n
<1> QED
  BY <1>4, <1>5, <1>6, <1>8 DEF n, xs, seq, b, t

----------------------------------------------------------------------------
(* The functions *)

\* u is what becomes of v if its elements become seq after a request for more
\* room: a block that had the size of what is in use still has it.
Became(u, v, request, seq) ==
    /\ IsVector(u) /\ u.of = v.of
    /\ Contents(u) = seq /\ u.used = Len(seq)
    /\ u.size = v.size \/ u.size = POLICY_SIZE_STEP(request)
    /\ (v.of = "pointer" /\ v.used <= v.size) => u.used <= u.size

\* The outcomes of a function: it fails and v is as it was, or v becomes seq, or,
\* only if overrun, memory outside the block is accessed.
Does(o, v, request, seq, overrun) ==
    \/ o = Outcome("ENOMEM", v)
    \/ o.ret = "ok" /\ Became(o.vec, v, request, seq)
    \/ o = Outcome("ok", LOST) /\ overrun

\* What the functions make of a sequence.
Replaced(s, i, x) == IF i < Len(s) THEN [s EXCEPT ![i + 1] = x]
                     ELSE s \o Fill(i - Len(s)) \o <<x>>
Inserted(s, i, x) == IF i < Len(s) THEN SubSeq(s, 1, i) \o <<x>> \o SubSeq(s, i + 1, Len(s))
                     ELSE s \o Fill(i - Len(s)) \o <<x>>
Removed(s, i)     == SubSeq(s, 1, i) \o SubSeq(s, i + 2, Len(s))

\* Writing to a vector that may have grown.
LEMMA StoreBecomes ==
    ASSUME NEW v, IsVector(v), NEW must, NEW request, NEW w, Larger(w, v, must, request),
           NEW at \in Nat, NEW xs \in Seq(Val), at + Len(xs) <= Usable(w.size),
           NEW seq \in Seq(Val), Len(seq) <= Usable(w.size), Written(seq, Contents(v), at, xs),
           (v.of = "pointer" /\ v.used <= v.size) => Len(seq) <= w.size
    PROVE  Became(Store(w, at, xs, Len(seq)), v, request, seq)
<1>1. IsVector(w) /\ w.of = v.of /\ Contents(w) = Contents(v)
      /\ (w.size = v.size \/ w.size = POLICY_SIZE_STEP(request))
  BY DEF Larger
<1>2. Holding(Store(w, at, xs, Len(seq)), w, seq)
  BY <1>1, StoreHolds
<1> QED
  BY <1>1, <1>2 DEF Holding, Became

\* The sizes of v and of w are numbers, and so is the room in their blocks.
LEMMA LargerSizes ==
    ASSUME NEW v, IsVector(v), NEW must, NEW request, NEW w, Larger(w, v, must, request)
    PROVE  /\ v.size \in Nat /\ v.used \in Nat /\ v.of \in Type /\ w.size \in Nat
           /\ w.used = v.used /\ w.of = v.of /\ w.size >= v.size /\ (must => w.size >= request)
           /\ v.used <= Usable(v.size) /\ Usable(v.size) <= Usable(w.size) /\ w.size <= Usable(w.size)
           /\ Usable(v.size) \in Nat /\ Usable(w.size) \in Nat
           /\ Contents(w) = Contents(v) /\ Contents(v) \in Seq(Val) /\ Len(Contents(v)) = v.used
           /\ IsVector(w)
<1>1. /\ v.size \in Nat /\ v.used \in 0 .. Usable(v.size) /\ v.of \in Type
      /\ Contents(v) \in Seq(Val) /\ Len(Contents(v)) = v.used
  BY VectorParts, ContentsType
<1>2. /\ w.used = v.used /\ w.of = v.of /\ w.size >= v.size /\ (must => w.size >= request)
      /\ Contents(w) = Contents(v) /\ IsVector(w)
  BY DEF Larger
<1>3. w.size \in Nat
  BY <1>2, VectorParts
<1> QED
  BY <1>1, <1>2, <1>3, UsableType, UsableGrows

\* A new vector is empty.
LEMMA EmptyVector == ASSUME NEW type \in Type
                     PROVE  /\ IsVector(Empty(type)) /\ Empty(type).of = type
                            /\ Empty(type).used = 0 /\ Empty(type).size = 0
                            /\ Contents(Empty(type)) = <<>>
<1>1. Usable(0) = 0
  BY DEF Usable
<1>2. <<>> \in [0 .. Usable(0) - 1 -> Val]
  BY <1>1
<1>3. IsVector([of |-> type, size |-> 0, used |-> 0, cells |-> <<>>])
  <2>1. 0 \in Nat /\ 0 \in 0 .. Usable(0)
    BY <1>1
  <2> QED BY <1>2, <2>1, PartsVector
<1>4. Empty(type).used = 0 /\ Empty(type).of = type /\ Empty(type).size = 0
  BY DEF Empty
<1>5. Contents(Empty(type)) \in Seq(Val) /\ Len(Contents(Empty(type))) = 0
  BY <1>3, <1>4, ContentsType DEF Empty
<1>6. Contents(Empty(type)) = <<>>
  BY <1>5, EmptySeq
<1> QED
  BY <1>3, <1>4, <1>6 DEF Empty

\* Create makes an empty vector (pointervec_Create).
LEMMA CreateDoes ==
    ASSUME NEW type \in Type, NEW n \in 0 .. WordSize - 1, NEW o \in Create(type, n)
    PROVE  \/ o = Outcome("ENOMEM", NULL)
           \/ o.ret = "ok" /\ Became(o.vec, Empty(type), n, <<>>)
<1>1. CASE o = Outcome("ENOMEM", NULL)
  BY <1>1
<1>2. CASE \E w \in Grown(Empty(type), TRUE, n) : o = Outcome("ok", w)
  <2>1. PICK w \in Grown(Empty(type), TRUE, n) : o = Outcome("ok", w)
    BY <1>2
  <2>2. Larger(w, Empty(type), TRUE, n)
    BY EmptyVector, GrownLarger
  <2>3. /\ w.size \in Nat /\ w.used = 0
    <3>1. IsVector(Empty(type)) /\ Empty(type).used = 0
      BY EmptyVector
    <3>2. w.size \in Nat /\ w.used = Empty(type).used
      BY <2>2, <3>1, LargerSizes
    <3> QED BY <3>1, <3>2
  <2>4. Became(w, Empty(type), n, <<>>)
    BY <2>2, <2>3, EmptyVector DEF Larger, Became
  <2> QED
    BY <2>1, <2>4 DEF Outcome
<1> QED
  BY <1>1, <1>2 DEF Create

\* Everything is copied into a vector that has room for it.
LEMMA CopyBecomes ==
    ASSUME NEW v, IsVector(v), NEW xs \in Seq(Val), Len(xs) < WordSize, NEW must \in BOOLEAN,
           must \/ Len(xs) <= v.size, NEW w \in Grown(v, must, Len(xs))
    PROVE  Became(Store(w, 0, xs, Len(xs)), v, Len(xs), xs)
<1>1. Len(xs) \in Nat /\ Len(xs) \in 0 .. WordSize - 1
  BY LenProperties, PolicySizeAssumption
<1>2. Larger(w, v, must, Len(xs))
  BY <1>1, GrownLarger
<1>3. /\ v.size \in Nat /\ w.size \in Nat /\ w.size >= v.size /\ (must => w.size >= Len(xs))
      /\ w.size <= Usable(w.size) /\ Usable(w.size) \in Nat
  BY <1>2, LargerSizes
<1>4. Len(xs) <= w.size /\ Len(xs) <= Usable(w.size) /\ 0 + Len(xs) <= Usable(w.size)
  BY <1>1, <1>3
<1>5. Written(xs, Contents(v), 0, xs)
  BY AllWritten
<1> QED
  BY <1>2, <1>4, <1>5, StoreBecomes

\* Create_from copies what it is given (pointervec_Create_from).
LEMMA CreateFromDoes ==
    ASSUME NEW type \in Type, NEW xs \in Seq(Val), Len(xs) < WordSize, NEW o \in CreateFrom(type, xs)
    PROVE  \/ o = Outcome("ENOMEM", NULL)
           \/ o.ret = "ok" /\ Became(o.vec, Empty(type), Len(xs), xs)
<1>1. CASE o = Outcome("ENOMEM", NULL)
  BY <1>1
<1>2. CASE \E w \in Grown(Empty(type), TRUE, Len(xs)) : o = Outcome("ok", Store(w, 0, xs, Len(xs)))
  <2>1. PICK w \in Grown(Empty(type), TRUE, Len(xs)) : o = Outcome("ok", Store(w, 0, xs, Len(xs)))
    BY <1>2
  <2>2. Became(Store(w, 0, xs, Len(xs)), Empty(type), Len(xs), xs)
    BY EmptyVector, CopyBecomes
  <2> QED
    BY <2>1, <2>2 DEF Outcome
<1> QED
  BY <1>1, <1>2 DEF CreateFrom

\* copy_from never writes outside the block (pointervec_copy_from).
LEMMA CopyFromDoes ==
    ASSUME NEW v, IsVector(v), NEW xs \in Seq(Val), Len(xs) < WordSize, NEW o \in CopyFrom(v, xs)
    PROVE  Does(o, v, Len(xs), xs, FALSE)
<1> DEFINE must == Len(xs) > v.size
<1>1. CASE o = Outcome("ENOMEM", v)
  BY <1>1 DEF Does
<1>2. CASE \E w \in Grown(v, must, Len(xs)) : o = Outcome("ok", Store(w, 0, xs, Len(xs)))
  <2>1. PICK w \in Grown(v, must, Len(xs)) : o = Outcome("ok", Store(w, 0, xs, Len(xs)))
    BY <1>2
  <2>2. must \in BOOLEAN /\ (must \/ Len(xs) <= v.size)
    BY VectorParts, LenProperties
  <2> HIDE DEF must
  <2>3. Became(Store(w, 0, xs, Len(xs)), v, Len(xs), xs)
    BY <2>2, CopyBecomes
  <2> QED
    BY <2>1, <2>3 DEF Outcome, Does
<1> QED
  BY <1>1, <1>2 DEF CopyFrom, Attempt

\* Elements appended to a vector that may have grown: memory outside its block
\* is written only if it has not grown enough.
LEMMA AppendDoes ==
    ASSUME NEW v, IsVector(v), NEW xs \in Seq(Val), NEW must \in BOOLEAN,
           v.used + Len(xs) < WordSize, NEW w \in Grown(v, must, v.used + Len(xs)),
           NEW overrun, (~must /\ v.used + Len(xs) > v.size) => overrun,
           (~must /\ v.of = "pointer" /\ v.used <= v.size) => v.used + Len(xs) <= v.size
    PROVE  Does(Outcome("ok", Appended(w, xs)), v, v.used + Len(xs), Contents(v) \o xs, overrun)
<1> DEFINE total == v.used + Len(xs)
           s == Contents(v)
           seq == s \o xs
<1>1. Len(xs) \in Nat /\ v.used \in Nat
  BY LenProperties, VectorParts, UsableType
<1>2. total \in 0 .. WordSize - 1
  BY <1>1, PolicySizeAssumption
<1>3. Larger(w, v, must, total)
  BY <1>2, GrownLarger
<1>4. /\ v.size \in Nat /\ w.size \in Nat /\ w.size >= v.size /\ (must => w.size >= total)
      /\ w.size <= Usable(w.size) /\ Usable(w.size) \in Nat /\ w.used = v.used
      /\ s \in Seq(Val) /\ Len(s) = v.used
  BY <1>3, LargerSizes
<1> HIDE DEF s
<1>5. seq \in Seq(Val) /\ Len(seq) = Len(s) + Len(xs) /\ Written(seq, s, Len(s), xs)
  BY <1>4, AppendedWritten
<1>6. Appended(w, xs) = Store(w, v.used, xs, Len(seq)) /\ Len(seq) = total
  BY <1>4, <1>5 DEF Appended
<1>7. (v.of = "pointer" /\ v.used <= v.size) => Len(seq) <= w.size
  BY <1>1, <1>2, <1>4, <1>6
<1>8. CASE total <= Usable(w.size)
  <2>1. /\ v.used + Len(xs) <= Usable(w.size) /\ Len(seq) <= Usable(w.size)
        /\ Written(seq, Contents(v), v.used, xs)
    BY <1>4, <1>5, <1>6, <1>8 DEF s
  <2> HIDE DEF seq, total
  <2>2. Became(Store(w, v.used, xs, Len(seq)), v, total, seq)
    BY <1>1, <1>3, <1>5, <1>7, <2>1, StoreBecomes
  <2> QED
    BY <1>6, <2>2 DEF Does, Outcome, seq, total, s
<1>9. CASE ~(total <= Usable(w.size))
  <2>1. overrun
    BY <1>1, <1>2, <1>4, <1>9
  <2>2. Appended(w, xs) = LOST
    BY <1>6, <1>9 DEF Store
  <2> QED
    BY <2>1, <2>2 DEF Does
<1> QED
  BY <1>8, <1>9

\* append adds the element, unless a vector of characters has more in use than
\* its size (pointervec_append, charvec_append).
LEMMA AppendOneDoes ==
    ASSUME NEW v, IsVector(v), NEW x \in Val, v.used + 1 < WordSize, NEW o \in AppendOne(v, x)
    PROVE  Does(o, v, v.used + 1, Contents(v) \o <<x>>, v.used >= v.size /\ ~AppendGrows(v))
<1> DEFINE must == AppendGrows(v)
           overrun == v.used >= v.size /\ ~must
<1>1. CASE o = Outcome("ENOMEM", v)
  BY <1>1 DEF Does
<1>2. CASE \E w \in Grown(v, must, v.used + 1) : o = Outcome("ok", Appended(w, <<x>>))
  <2>1. PICK w \in Grown(v, must, v.used + 1) : o = Outcome("ok", Appended(w, <<x>>))
    BY <1>2
  <2>2. <<x>> \in Seq(Val) /\ Len(<<x>>) = 1
    OBVIOUS
  <2>3. v.used \in Nat /\ v.size \in Nat /\ v.of \in Type
    BY VectorParts, UsableType
  <2>4. /\ must \in BOOLEAN
        /\ (~must /\ v.used + 1 > v.size) => overrun
        /\ (~must /\ v.of = "pointer" /\ v.used <= v.size) => v.used + 1 <= v.size
    <3>1. CASE v.of = "char"
      <4>1. must <=> v.used = v.size
        BY <3>1 DEF AppendGrows
      <4>2. must \in BOOLEAN
        BY <3>1 DEF AppendGrows
      <4> HIDE DEF must
      <4> QED BY <2>3, <3>1, <4>1, <4>2
    <3>2. CASE v.of = "pointer"
      <4>1. must <=> v.used >= v.size
        BY <3>2 DEF AppendGrows
      <4>2. must \in BOOLEAN
        BY <3>2 DEF AppendGrows
      <4> HIDE DEF must
      <4> QED BY <2>3, <3>2, <4>1, <4>2
    <3> QED BY <2>3, <3>1, <3>2 DEF Type
  <2> DEFINE xs == <<x>>
  <2> HIDE DEF must, overrun, xs
  <2>5. v.used + Len(xs) = v.used + 1
    BY <2>2 DEF xs
  <2>6. w \in Grown(v, must, v.used + Len(xs))
    BY <2>1, <2>5
  <2>7. Does(Outcome("ok", Appended(w, xs)), v, v.used + Len(xs), Contents(v) \o xs, overrun)
    BY <2>2, <2>4, <2>5, <2>6, AppendDoes DEF xs
  <2> QED
    BY <2>1, <2>5, <2>7 DEF must, overrun, xs
<1> QED
  BY <1>1, <1>2 DEF AppendOne, Attempt

\* concatenate adds the elements of src, unless they are those of the vector
\* itself or a vector of characters is not made larger (pointervec_append_n,
\* charvec_append_n).
LEMMA ConcatenateDoes ==
    ASSUME NEW v, IsVector(v), NEW src, Contents(src) \in Seq(Val), Len(Contents(src)) = src.used,
           v.used + src.used < WordSize, NEW same \in BOOLEAN, NEW o \in Concatenate(v, src, same)
    PROVE  Does(o, v, v.used + src.used, Contents(v) \o Contents(src),
                same \/ (v.used + src.used > v.size /\ ~AppendNGrows(v, src.used)))
<1> DEFINE must == AppendNGrows(v, src.used)
           total == v.used + src.used
           xs == Contents(src)
           overrun == same \/ (total > v.size /\ ~must)
<1>1. CASE o = Outcome("ENOMEM", v)
  BY <1>1 DEF Does
<1>2. CASE \E w \in Grown(v, must, total) : o = Outcome("ok", Appended(w, xs))
  <2>1. PICK w \in Grown(v, must, total) : o = Outcome("ok", Appended(w, xs))
    BY <1>2
  <2>2. v.used \in Nat /\ v.size \in Nat /\ v.of \in Type /\ src.used \in Nat
    BY VectorParts, UsableType, LenProperties
  <2>3. /\ must \in BOOLEAN
        /\ (~must /\ total > v.size) => overrun
        /\ (~must /\ v.of = "pointer" /\ v.used <= v.size) => total <= v.size
    <3>1. CASE v.of = "char"
      <4>1. must <=> v.used + src.used < v.size
        BY <3>1 DEF AppendNGrows
      <4>2. must \in BOOLEAN
        BY <3>1 DEF AppendNGrows
      <4> HIDE DEF must
      <4> QED BY <2>2, <3>1, <4>1, <4>2
    <3>2. CASE v.of = "pointer"
      <4>1. must <=> v.used + src.used >= v.size
        BY <3>2 DEF AppendNGrows
      <4>2. must \in BOOLEAN
        BY <3>2 DEF AppendNGrows
      <4> HIDE DEF must
      <4> QED BY <2>2, <3>2, <4>1, <4>2
    <3> QED BY <2>2, <3>1, <3>2 DEF Type
  <2>4. total = v.used + Len(xs)
    OBVIOUS
  <2> HIDE DEF must, overrun, xs, total
  <2>5. /\ v.used + Len(xs) < WordSize /\ w \in Grown(v, must, v.used + Len(xs))
        /\ (~must /\ v.used + Len(xs) > v.size) => overrun
        /\ (~must /\ v.of = "pointer" /\ v.used <= v.size) => v.used + Len(xs) <= v.size
    BY <2>1, <2>3, <2>4 DEF total
  <2>6. Does(Outcome("ok", Appended(w, xs)), v, v.used + Len(xs), Contents(v) \o xs, overrun)
    BY <2>3, <2>5, AppendDoes DEF xs
  <2> QED
    BY <2>1, <2>4, <2>6 DEF must, overrun, xs, total
<1>3. CASE same /\ o = Outcome("ok", LOST)
  BY <1>3 DEF Does
<1> QED
  BY <1>1, <1>2, <1>3 DEF Concatenate, Attempt, Moved

\* The elements that fill a gap.
LEMMA FillType == ASSUME NEW n \in Nat
                  PROVE  Fill(n) \in Seq(Val) /\ Len(Fill(n)) = n
<1>1. Fill(n) \in [1 .. n -> Val]
  BY VectorAssumption DEF Fill
<1> QED
  BY <1>1

\* An element is set, in a vector that has room for it, and the gap before it
\* is filled.
LEMMA PutBecomes ==
    ASSUME NEW v, IsVector(v), NEW must, NEW request, NEW w, Larger(w, v, must, request),
           NEW i \in Nat, i < v.used \/ i < w.size, NEW x \in Val
    PROVE  Became(Put(w, i, x), v, request, Replaced(Contents(v), i, x))
<1> DEFINE s == Contents(v)
<1>1. /\ v.size \in Nat /\ v.used \in Nat /\ w.size \in Nat /\ w.used = v.used /\ w.size >= v.size
      /\ v.used <= Usable(v.size) /\ Usable(v.size) <= Usable(w.size) /\ w.size <= Usable(w.size)
      /\ Usable(v.size) \in Nat /\ Usable(w.size) \in Nat
      /\ s \in Seq(Val) /\ Len(s) = v.used
  BY LargerSizes
<1> HIDE DEF s
<1>2. CASE i < v.used
  <2> DEFINE seq == [s EXCEPT ![i + 1] = x]
             xs == <<x>>
  <2>1. i \in 0 .. Len(s) - 1
    BY <1>1, <1>2
  <2>2. /\ seq \in Seq(Val) /\ Len(seq) = Len(s)
        /\ xs \in Seq(Val) /\ Len(xs) = 1 /\ Written(seq, s, i, xs)
    BY <1>1, <2>1, ElementWritten
  <2>3. Put(w, i, x) = Store(w, i, xs, Len(seq)) /\ Replaced(s, i, x) = seq
    BY <1>1, <1>2, <2>2 DEF Put, Replaced
  <2> HIDE DEF seq, xs
  <2>4. /\ i + Len(xs) <= Usable(w.size) /\ Len(seq) <= Usable(w.size)
        /\ (v.of = "pointer" /\ v.used <= v.size) => Len(seq) <= w.size
    BY <1>1, <1>2, <2>2
  <2>5. Written(seq, Contents(v), i, xs)
    BY <2>2 DEF s
  <2>6. Became(Store(w, i, xs, Len(seq)), v, request, seq)
    BY <2>2, <2>4, <2>5, StoreBecomes
  <2> QED BY <2>3, <2>6 DEF s
<1>3. CASE ~(i < v.used)
  <2> DEFINE m == i - Len(s)
             f == Fill(m)
             xs == f \o <<x>>
             seq == s \o xs
  <2>1. m \in Nat
    BY <1>1, <1>3
  <2>2. f \in Seq(Val) /\ Len(f) = m
    BY <2>1, FillType
  <2>3. <<x>> \in Seq(Val) /\ Len(<<x>>) = 1
    OBVIOUS
  <2>4. Put(w, i, x) = Store(w, v.used, xs, i + 1)
    BY <1>1, <1>3 DEF Put
  <2>5. Replaced(s, i, x) = s \o f \o <<x>>
    BY <1>1, <1>3 DEF Replaced
  <2> HIDE DEF f
  <2>6. s \o f \o <<x>> = seq
    <3>1. \A p, q, r \in Seq(Val) : (p \o q) \o r = p \o (q \o r)
      BY ConcatAssociative
    <3> QED BY <1>1, <2>2, <2>3, <3>1
  <2>7. xs \in Seq(Val) /\ Len(xs) = Len(f) + Len(<<x>>)
    BY <2>2, <2>3, ConcatProperties, Zenon
  <2> HIDE DEF xs
  <2>8. seq \in Seq(Val) /\ Len(seq) = Len(s) + Len(xs) /\ Written(seq, s, Len(s), xs)
    BY <1>1, <2>7, AppendedWritten
  <2> HIDE DEF seq
  <2>9. Len(seq) = i + 1 /\ v.used + Len(xs) = i + 1
    BY <1>1, <2>2, <2>3, <2>7, <2>8
  <2>10. i + 1 <= w.size
    BY <1>1, <1>3
  <2>11. v.used + Len(xs) <= Usable(w.size) /\ Len(seq) <= Usable(w.size) /\ Len(seq) <= w.size
    BY <1>1, <2>9, <2>10
  <2>12. Written(seq, Contents(v), v.used, xs)
    BY <1>1, <2>8 DEF s
  <2>13. Became(Store(w, v.used, xs, Len(seq)), v, request, seq)
    BY <1>1, <2>7, <2>8, <2>11, <2>12, StoreBecomes
  <2> QED BY <2>4, <2>5, <2>6, <2>9, <2>13 DEF s
<1> QED
  BY <1>2, <1>3

\* replace sets an element and never writes outside the block
\* (pointervec_replace).
LEMMA ReplaceDoes ==
    ASSUME NEW v, IsVector(v), NEW i \in Nat, i + 1 < WordSize, NEW x \in Val, NEW o \in Replace(v, i, x)
    PROVE  Does(o, v, i + 1, Replaced(Contents(v), i, x), FALSE)
<1> DEFINE must == i >= v.size
<1>1. CASE o = Outcome("ENOMEM", v)
  BY <1>1 DEF Does
<1>2. CASE \E w \in Grown(v, must, i + 1) : o = Outcome("ok", Put(w, i, x))
  <2>1. PICK w \in Grown(v, must, i + 1) : o = Outcome("ok", Put(w, i, x))
    BY <1>2
  <2>2. must \in BOOLEAN /\ i + 1 \in 0 .. WordSize - 1
    BY VectorParts, PolicySizeAssumption
  <2>3. Larger(w, v, must, i + 1)
    BY <2>2, GrownLarger
  <2> HIDE DEF must
  <2>4. i < w.size
    <3>1. w.size \in Nat /\ v.size \in Nat /\ w.size >= v.size /\ (must => w.size >= i + 1)
      BY <2>3, LargerSizes
    <3> QED BY <3>1 DEF must
  <2>5. Became(Put(w, i, x), v, i + 1, Replaced(Contents(v), i, x))
    BY <2>3, <2>4, PutBecomes
  <2> QED
    BY <2>1, <2>5 DEF Outcome, Does
<1> QED
  BY <1>1, <1>2 DEF Replace, Attempt

\* insert moves the elements from i on up by one, unless i is 0 or a vector of
\* characters has more in use than its size (pointervec_insert).
LEMMA InsertDoes ==
    ASSUME NEW v, IsVector(v), NEW i \in Nat, i + 1 < WordSize, v.used + 1 < WordSize, NEW x \in Val,
           NEW o \in Insert(v, i, x)
    PROVE  \E request \in {i + 1, v.used + 1} :
              Does(o, v, request, Inserted(Contents(v), i, x), i = 0 \/ v.used > v.size)
<1> DEFINE must    == i >= v.size \/ (i < v.used /\ v.used = v.size)
           request == IF i >= v.size THEN i + 1 ELSE v.size + 1
           s == Contents(v)
           overrun == i = 0 \/ v.used > v.size
           Made(w) == IF i >= v.used THEN Put(w, i, x) ELSE ShiftedIn(w, i, x)
<1>1. CASE o = Outcome("ENOMEM", v)
  BY <1>1 DEF Does
<1>2. CASE \E w \in Grown(v, must, request) : o = Outcome("ok", Made(w))
  <2>1. PICK w \in Grown(v, must, request) : o = Outcome("ok", Made(w))
    BY <1>2
  <2>2. v.size \in Nat /\ v.used \in Nat /\ s \in Seq(Val) /\ Len(s) = v.used
    BY VectorParts, UsableType, ContentsType
  <2>3. PICK rq \in {i + 1, v.used + 1} : must => rq = request
    BY <2>2
  <2>4. w \in Grown(v, must, rq)
    BY <2>1, <2>3 DEF Grown, NeedsMemory
  <2>5. rq \in 0 .. WordSize - 1 /\ must \in BOOLEAN
    BY <2>2, PolicySizeAssumption
  <2>6. must => rq > i
    BY <2>2, <2>3
  <2>7. (must /\ i < v.used /\ v.used = v.size) => rq = v.used + 1
    BY <2>2, <2>3
  <2> HIDE DEF must, request
  <2>8. Larger(w, v, must, rq)
    BY <2>4, <2>5, GrownLarger
  <2>9. /\ w.size \in Nat /\ w.size >= v.size /\ (must => w.size >= rq) /\ w.used = v.used
        /\ Usable(w.size) \in Nat /\ w.size <= Usable(w.size) /\ Contents(w) = Contents(v)
    BY <2>8, LargerSizes
  <2>10. CASE i >= v.used
    <3>1. i < w.size
      BY <2>2, <2>5, <2>6, <2>9 DEF must
    <3>2. Became(Put(w, i, x), v, rq, Replaced(s, i, x))
      BY <2>8, <3>1, PutBecomes
    <3>3. Inserted(s, i, x) = Replaced(s, i, x)
      BY <2>2, <2>10 DEF Inserted, Replaced
    <3>4. o = Outcome("ok", Put(w, i, x))
      BY <2>1, <2>10
    <3> QED BY <2>3, <3>2, <3>3, <3>4 DEF Does, Outcome
  <2>11. CASE ~(i >= v.used) /\ i = 0
    <3>1. o = Outcome("ok", LOST)
      BY <2>1, <2>11 DEF ShiftedIn
    <3> QED BY <2>3, <2>11, <3>1 DEF Does
  <2>12. CASE ~(i >= v.used) /\ i # 0
    <3> DEFINE xs  == <<x>> \o SubSeq(s, i + 1, Len(s))
               seq == SubSeq(s, 1, i) \o <<x>> \o SubSeq(s, i + 1, Len(s))
    <3>1. i \in 0 .. Len(s) - 1
      BY <2>2, <2>12
    <3>2. /\ xs \in Seq(Val) /\ Len(xs) = Len(s) - i + 1
          /\ seq \in Seq(Val) /\ Len(seq) = Len(s) + 1
          /\ Written(seq, s, i, xs)
      BY <2>2, <3>1, InsertedWritten
    <3>3. o = Outcome("ok", Store(w, i, xs, Len(seq))) /\ Inserted(s, i, x) = seq
      <4>1. ShiftedIn(w, i, x) = Store(w, i, xs, v.used + 1)
        BY <2>2, <2>9, <2>12 DEF ShiftedIn
      <4>2. Inserted(s, i, x) = seq
        <5>1. i < Len(s)
          BY <2>2, <2>12
        <5> QED BY <5>1 DEF Inserted
      <4> HIDE DEF s, xs, seq
      <4> QED BY <2>1, <2>2, <2>12, <3>2, <4>1, <4>2
    <3>4. Written(seq, Contents(v), i, xs)
      BY <3>2
    <3> HIDE DEF xs, seq, s
    <3>5. i + Len(xs) = v.used + 1 /\ Len(seq) = v.used + 1
      BY <2>2, <3>2
    <3>6. v.used <= v.size => v.used + 1 <= w.size
      BY <2>2, <2>7, <2>9, <2>12 DEF must
    <3>7. CASE v.used + 1 <= Usable(w.size)
      <4>1. /\ i + Len(xs) <= Usable(w.size) /\ Len(seq) <= Usable(w.size)
            /\ (v.of = "pointer" /\ v.used <= v.size) => Len(seq) <= w.size
        BY <3>5, <3>6, <3>7
      <4>2. Became(Store(w, i, xs, Len(seq)), v, rq, seq)
        BY <2>8, <3>2, <3>4, <4>1, StoreBecomes
      <4> QED BY <2>3, <3>3, <4>2 DEF Does, Outcome, s
    <3>8. CASE ~(v.used + 1 <= Usable(w.size))
      <4>1. v.used > v.size
        BY <2>2, <2>9, <3>6, <3>8
      <4>2. Store(w, i, xs, Len(seq)) = LOST
        BY <3>5, <3>8 DEF Store
      <4> QED BY <2>3, <3>3, <4>1, <4>2 DEF Does
    <3> QED BY <3>7, <3>8
  <2> QED BY <2>10, <2>11, <2>12
<1> QED
  BY <1>1, <1>2 DEF Insert, Attempt

\* remove and the two after it change a vector in its block, and fail for what
\* is not in use.
DoesInPlace(o, v, seq) ==
    \/ o = Outcome("EDOM", v)
    \/ o.ret = "ok" /\ Became(o.vec, v, 0, seq)

\* v has not grown.
LEMMA NotGrown == ASSUME NEW v, IsVector(v) PROVE Larger(v, v, FALSE, 0)
BY VectorParts DEF Larger

\* Writing to a vector that has not grown.
LEMMA StoreInPlace ==
    ASSUME NEW v, IsVector(v), NEW at \in Nat, NEW xs \in Seq(Val), at + Len(xs) <= v.used,
           NEW seq \in Seq(Val), Len(seq) <= v.used, Written(seq, Contents(v), at, xs)
    PROVE  Became(Store(v, at, xs, Len(seq)), v, 0, seq)
<1>1. Larger(v, v, FALSE, 0)
  BY NotGrown
<1>2. v.size \in Nat /\ v.used \in Nat /\ v.used <= Usable(v.size) /\ Usable(v.size) \in Nat
  BY <1>1, LargerSizes
<1>3. Len(xs) \in Nat /\ Len(seq) \in Nat
  BY LenProperties
<1>4. /\ at + Len(xs) <= Usable(v.size) /\ Len(seq) <= Usable(v.size)
      /\ (v.of = "pointer" /\ v.used <= v.size) => Len(seq) <= v.size
  BY <1>2, <1>3
<1> QED
  BY <1>1, <1>4, StoreBecomes

\* remove takes an element out (pointervec_remove).
LEMMA RemoveDoes ==
    ASSUME NEW v, IsVector(v), NEW i \in Nat, NEW o \in Remove(v, i)
    PROVE  DoesInPlace(o, v, Removed(Contents(v), i)) /\ (o.ret = "ok" <=> i < v.used)
<1> DEFINE s == Contents(v)
<1>1. v.used \in Nat /\ s \in Seq(Val) /\ Len(s) = v.used
  BY VectorParts, UsableType, ContentsType
<1>2. CASE i < v.used
  <2> DEFINE xs  == Append(SubSeq(s, i + 2, Len(s)), Default)
             seq == SubSeq(s, 1, i) \o SubSeq(s, i + 2, Len(s))
  <2>1. i \in 0 .. Len(s) - 1 /\ Default \in Val
    BY <1>1, <1>2, VectorAssumption
  <2>2. /\ xs \in Seq(Val) /\ Len(xs) = Len(s) - i
        /\ seq \in Seq(Val) /\ Len(seq) = Len(s) - 1
        /\ Written(seq, s, i, xs)
    BY <1>1, <2>1, RemovedWritten
  <2>3. o = Outcome("ok", Store(v, i, xs, v.used - 1)) /\ Removed(s, i) = seq
    BY <1>1, <1>2 DEF Remove, Removed
  <2>4. Written(seq, Contents(v), i, xs)
    BY <2>2
  <2> HIDE DEF xs, seq, s
  <2>5. i + Len(xs) <= v.used /\ Len(seq) <= v.used /\ Len(seq) = v.used - 1
    BY <1>1, <1>2, <2>2
  <2>6. Became(Store(v, i, xs, Len(seq)), v, 0, seq)
    BY <2>2, <2>4, <2>5, StoreInPlace
  <2> QED BY <1>2, <2>3, <2>5, <2>6 DEF DoesInPlace, Outcome, s
<1>3. CASE ~(i < v.used)
  BY <1>3 DEF Remove, DoesInPlace, Outcome
<1> QED
  BY <1>2, <1>3

\* clear sets an element to the default (pointervec_clear).
LEMMA ClearDoes ==
    ASSUME NEW v, IsVector(v), NEW i \in Nat, NEW o \in Clear(v, i)
    PROVE  DoesInPlace(o, v, [Contents(v) EXCEPT ![i + 1] = Default]) /\ (o.ret = "ok" <=> i < v.used)
<1> DEFINE s == Contents(v)
<1>1. v.used \in Nat /\ s \in Seq(Val) /\ Len(s) = v.used
  BY VectorParts, UsableType, ContentsType
<1>2. CASE i < v.used
  <2> DEFINE xs  == <<Default>>
             seq == [s EXCEPT ![i + 1] = Default]
  <2>1. i \in 0 .. Len(s) - 1 /\ Default \in Val
    BY <1>1, <1>2, VectorAssumption
  <2>2. /\ seq \in Seq(Val) /\ Len(seq) = Len(s)
        /\ xs \in Seq(Val) /\ Len(xs) = 1 /\ Written(seq, s, i, xs)
    BY <1>1, <2>1, ElementWritten
  <2>3. o = Outcome("ok", Store(v, i, xs, v.used))
    BY <1>2 DEF Clear
  <2>4. Written(seq, Contents(v), i, xs)
    BY <2>2
  <2> HIDE DEF xs, seq, s
  <2>5. i + Len(xs) <= v.used /\ Len(seq) <= v.used /\ Len(seq) = v.used
    BY <1>1, <1>2, <2>2
  <2>6. Became(Store(v, i, xs, Len(seq)), v, 0, seq)
    BY <2>2, <2>4, <2>5, StoreInPlace
  <2> QED BY <1>2, <2>3, <2>5, <2>6 DEF DoesInPlace, Outcome, s, seq
<1>3. CASE ~(i < v.used)
  BY <1>3 DEF Clear, DoesInPlace, Outcome
<1> QED
  BY <1>2, <1>3

\* remove_last takes the last element (pointervec_remove_last).
LEMMA RemoveLastDoes ==
    ASSUME NEW v, IsVector(v), NEW o \in RemoveLast(v)
    PROVE  /\ DoesInPlace(o, v, SubSeq(Contents(v), 1, Len(Contents(v)) - 1))
           /\ o.ret = "ok" <=> v.used > 0
<1> DEFINE s == Contents(v)
<1>1. v.used \in Nat /\ s \in Seq(Val) /\ Len(s) = v.used
  BY VectorParts, UsableType, ContentsType
<1>2. CASE v.used > 0
  <2> DEFINE xs  == <<Default>>
             seq == SubSeq(s, 1, Len(s) - 1)
  <2>1. Len(s) > 0 /\ Default \in Val
    BY <1>1, <1>2, VectorAssumption
  <2>2. /\ seq \in Seq(Val) /\ Len(seq) = Len(s) - 1
        /\ xs \in Seq(Val) /\ Len(xs) = 1 /\ Written(seq, s, Len(s) - 1, xs)
    BY <1>1, <2>1, LastWritten
  <2>3. o = Outcome("ok", Store(v, v.used - 1, xs, v.used - 1))
    BY <1>2 DEF RemoveLast
  <2>4. Written(seq, Contents(v), v.used - 1, xs)
    BY <1>1, <2>2
  <2> HIDE DEF xs, seq, s
  <2>5. v.used - 1 \in Nat /\ v.used - 1 + Len(xs) <= v.used /\ Len(seq) <= v.used /\ Len(seq) = v.used - 1
    BY <1>1, <1>2, <2>2
  <2>6. Became(Store(v, v.used - 1, xs, Len(seq)), v, 0, seq)
    BY <2>2, <2>4, <2>5, StoreInPlace
  <2> QED BY <1>2, <2>3, <2>5, <2>6 DEF DoesInPlace, Outcome, s, seq
<1>3. CASE ~(v.used > 0)
  BY <1>3 DEF RemoveLast, DoesInPlace, Outcome
<1> QED
  BY <1>2, <1>3

\* What replace and insert make of a sequence is no longer than the index after
\* the element, or one longer.
LEMMA ChangedType ==
    ASSUME NEW s \in Seq(Val), NEW i \in Nat, NEW x \in Val
    PROVE  /\ Len(Replaced(s, i, x)) = IF i < Len(s) THEN Len(s) ELSE i + 1
           /\ Len(Inserted(s, i, x)) = IF i < Len(s) THEN Len(s) + 1 ELSE i + 1
<1>1. Len(s) \in Nat
  BY LenProperties
<1>2. CASE i < Len(s)
  <2>1. i \in 0 .. Len(s) - 1
    BY <1>1, <1>2
  <2>2. Replaced(s, i, x) = [s EXCEPT ![i + 1] = x]
    BY <1>2 DEF Replaced
  <2>3. Inserted(s, i, x) = SubSeq(s, 1, i) \o <<x>> \o SubSeq(s, i + 1, Len(s))
    BY <1>2 DEF Inserted
  <2>4. Len([s EXCEPT ![i + 1] = x]) = Len(s)
    BY <2>1, ElementWritten
  <2>5. Len(SubSeq(s, 1, i) \o <<x>> \o SubSeq(s, i + 1, Len(s))) = Len(s) + 1
    BY <2>1, InsertedWritten
  <2> QED BY <1>2, <2>2, <2>3, <2>4, <2>5
<1>3. CASE ~(i < Len(s))
  <2> DEFINE f == Fill(i - Len(s))
  <2>1. f \in Seq(Val) /\ Len(f) = i - Len(s)
    BY <1>1, <1>3, FillType
  <2>2. <<x>> \in Seq(Val) /\ Len(<<x>>) = 1
    OBVIOUS
  <2>3. Replaced(s, i, x) = s \o f \o <<x>> /\ Inserted(s, i, x) = s \o f \o <<x>>
    BY <1>3 DEF Replaced, Inserted
  <2> HIDE DEF f
  <2>4. s \o f \in Seq(Val) /\ Len(s \o f) = Len(s) + Len(f)
    BY <2>1, ConcatProperties, Zenon
  <2>5. Len(s \o f \o <<x>>) = Len(s \o f) + Len(<<x>>)
    BY <2>2, <2>4, ConcatProperties, Zenon
  <2>6. Len(s \o f \o <<x>>) = i + 1
    BY <1>1, <2>1, <2>2, <2>4, <2>5
  <2> QED BY <1>3, <2>3, <2>6
<1> QED
  BY <1>2, <1>3

\* The part of a sequence that slice copies.
Sliced(s, start, len) == SubSeq(s, start + 1, IF start + len > Len(s) THEN Len(s) ELSE start + len)

\* A part of a sequence is no longer than it.
LEMMA SlicedType ==
    ASSUME NEW s \in Seq(Val), NEW start \in Nat, NEW len \in Nat
    PROVE  Sliced(s, start, len) \in Seq(Val) /\ Len(Sliced(s, start, len)) <= Len(s)
<1> DEFINE n == Len(s)
           stop == IF start + len > n THEN n ELSE start + len
<1>1. n \in Nat /\ \A k \in 1 .. n : s[k] \in Val
  BY LenProperties, ElementOfSeq
<1>2. stop \in 0 .. n
  BY <1>1
<1> HIDE DEF stop, n
<1>3. start + 1 \in Int /\ stop \in Int /\ \A k \in start + 1 .. stop : s[k] \in Val
  BY <1>1, <1>2
<1>4. /\ SubSeq(s, start + 1, stop) \in Seq(Val)
      /\ Len(SubSeq(s, start + 1, stop)) = (IF start + 1 <= stop THEN stop - (start + 1) + 1 ELSE 0)
  BY <1>3, SubSeqProperties
<1>5. Len(SubSeq(s, start + 1, stop)) <= n
  BY <1>1, <1>2, <1>4
<1> QED
  BY <1>4, <1>5 DEF stop, n, Sliced

\* slice copies a part of src, unless it is a part of the vector itself, which
\* has more in use than its size (pointervec_slice, charvec_slice).
LEMMA SliceDoes ==
    ASSUME NEW v, IsVector(v), NEW src, IsVector(src), src.used < WordSize,
           NEW start \in Nat, NEW len \in Nat, NEW same \in BOOLEAN, same => src = v,
           NEW o \in Slice(v, src, start, len, same)
    PROVE  LET xs == Sliced(Contents(src), start, len) IN
           /\ start >= src.used => o = Outcome("ERANGE", v)
           /\ start < src.used => Does(o, v, Len(xs), xs, same /\ v.used > v.size)
           /\ Len(xs) <= src.used
<1> DEFINE xs == Sliced(Contents(src), start, len)
<1>1. /\ src.used \in Nat /\ Contents(src) \in Seq(Val) /\ Len(Contents(src)) = src.used
      /\ v.size \in Nat /\ v.used \in Nat
  BY VectorParts, UsableType, ContentsType
<1>2. xs \in Seq(Val) /\ Len(xs) <= src.used /\ Len(xs) \in Nat
  BY <1>1, SlicedType, LenProperties
<1>3. xs = SubSeq(Contents(src), start + 1, IF start + len > src.used THEN src.used ELSE start + len)
  BY <1>1 DEF Sliced
<1> HIDE DEF xs
<1>4. ASSUME start < src.used PROVE Does(o, v, Len(xs), xs, same /\ v.used > v.size)
  <2>1. o \in CopyFrom(v, xs) \cup Moved(v, same, Len(xs) > v.size, Len(xs))
    BY <1>3, <1>4 DEF Slice
  <2>2. CASE o \in CopyFrom(v, xs)
    <3>1. Len(xs) < WordSize
      BY <1>1, <1>2, PolicySizeAssumption
    <3>2. Does(o, v, Len(xs), xs, FALSE)
      BY <1>2, <2>2, <3>1, CopyFromDoes
    <3> QED BY <3>2 DEF Does
  <2>3. CASE o \in Moved(v, same, Len(xs) > v.size, Len(xs))
    <3>1. same /\ Len(xs) > v.size /\ o = Outcome("ok", LOST)
      BY <2>3 DEF Moved, NeedsMemory
    <3>2. v.used > v.size
      BY <1>1, <1>2, <3>1
    <3> QED BY <3>1, <3>2 DEF Does
  <2> QED BY <2>1, <2>2, <2>3
<1>5. ASSUME start >= src.used PROVE o = Outcome("ERANGE", v)
  BY <1>1, <1>5 DEF Slice
<1> QED
  BY <1>2, <1>4, <1>5 DEF xs
=============================================================================
