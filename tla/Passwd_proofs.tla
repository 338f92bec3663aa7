--------------------------- MODULE Passwd_proofs ---------------------------
(* What the macros and functions of errors.h do to the fields of a result,    *)
(* for all widths: arithmetic of powers of two, which the provers do not      *)
(* know, then of division, then the fields.  Then the calls of passwd.c, for  *)
(* any accounts, keys and memory, and any errno that getpwnam, getpwuid and   *)
(* the allocations may leave.  Last the functions that read links         *)
(* (Readlink), which return results too.                                      *)
EXTENDS Passwd, Readlink, FiniteSetTheorems, TLAPS

----------------------------------------------------------------------------
(* Powers of two *)

\* Powers of two are positive: 2^n counts the subsets of 1 .. n.
LEMMA PowerType == ASSUME NEW n \in Nat PROVE 2^n \in Nat \ {0}
<1>1. IsFiniteSet(1 .. n) /\ Cardinality(1 .. n) = n
  <2>1. IsFiniteSet(1 .. n) /\ Cardinality(1 .. n) = IF 1 > n THEN 0 ELSE n - 1 + 1
    BY FS_Interval
  <2> QED BY <2>1
<1>2. /\ IsFiniteSet(SUBSET (1 .. n))
      /\ Cardinality(SUBSET (1 .. n)) = 2^n
  BY <1>1, FS_SUBSET
<1>3. Cardinality(SUBSET (1 .. n)) \in Nat
  BY <1>2, FS_CardinalityType
<1>4. Cardinality(SUBSET (1 .. n)) # 0
  BY <1>2, FS_EmptySet
<1> QED BY <1>2, <1>3, <1>4

\* The subsets of 1 .. n + 1 are those of 1 .. n, and those with n + 1.
LEMMA PowerSucc == ASSUME NEW n \in Nat PROVE 2^(n + 1) = 2 * 2^n
<1> DEFINE S == 1 .. n
           T == 1 .. n + 1
           With(s) == s \cup {n + 1}
           D == {With(s) : s \in SUBSET S}
           f == [s \in SUBSET S |-> With(s)]
<1>1. IsFiniteSet(S) /\ Cardinality(S) = n /\ IsFiniteSet(T) /\ Cardinality(T) = n + 1
  <2>1. IsFiniteSet(S) /\ Cardinality(S) = IF 1 > n THEN 0 ELSE n - 1 + 1
    BY FS_Interval
  <2>2. IsFiniteSet(T) /\ Cardinality(T) = IF 1 > n + 1 THEN 0 ELSE n + 1 - 1 + 1
    BY FS_Interval
  <2> QED BY <2>1, <2>2
<1>2. /\ IsFiniteSet(SUBSET S) /\ Cardinality(SUBSET S) = 2^n
      /\ IsFiniteSet(SUBSET T) /\ Cardinality(SUBSET T) = 2^(n + 1)
  BY <1>1, FS_SUBSET
<1>3. T = S \cup {n + 1} /\ n + 1 \notin S
  OBVIOUS
<1>4. f \in Bijection(SUBSET S, D)
  <2>1. f \in [SUBSET S -> D]
    OBVIOUS
  <2>2. ASSUME NEW s \in SUBSET S, NEW t \in SUBSET S, f[s] = f[t] PROVE s = t
    <3>1. s \cup {n + 1} = t \cup {n + 1}
      BY <2>2
    <3> QED BY <3>1, <1>3
  <2>3. \A d \in D : \E s \in SUBSET S : f[s] = d
    OBVIOUS
  <2> QED BY <2>1, <2>2, <2>3, Zenon DEF Bijection, Injection, Surjection, IsInjective
<1>5. IsFiniteSet(D) /\ Cardinality(D) = 2^n
  BY <1>2, <1>4, FS_Bijection DEF ExistsBijection
<1>6. SUBSET T = (SUBSET S) \cup D
  <2> HIDE DEF S, T
  <2>1. ASSUME NEW t \in SUBSET T, t \notin SUBSET S PROVE t \in D
    <3>1. n + 1 \in t
      BY <1>3, <2>1
    <3>2. t \ {n + 1} \in SUBSET S /\ t = With(t \ {n + 1})
      BY <1>3, <3>1, <2>1
    <3> QED BY <3>2
  <2>2. (SUBSET S) \cup D \subseteq SUBSET T
    BY <1>3
  <2> QED BY <2>1, <2>2
<1>7. (SUBSET S) \cap D = {}
  BY <1>3
<1>8. Cardinality(SUBSET T) = 2^n + 2^n - 0
  <2> HIDE DEF S, T, D
  <2>1. Cardinality((SUBSET S) \cup D)
          = Cardinality(SUBSET S) + Cardinality(D) - Cardinality((SUBSET S) \cap D)
    BY <1>2, <1>5, FS_Union
  <2>2. Cardinality((SUBSET S) \cap D) = 0
    BY <1>7, FS_EmptySet
  <2> QED BY <1>2, <1>5, <1>6, <2>1, <2>2
<1>9. 2^(n + 1) = 2^n + 2^n - 0 /\ 2^n \in Nat
  BY <1>2, <1>8, PowerType
<1> QED BY <1>9

\* A set of numbers that has 0 and the successor of each of its elements has
\* them all: otherwise there is a least one that it lacks.
LEMMA SetInduction ==
    ASSUME NEW S \in SUBSET Nat, 0 \in S, \A n \in S : n + 1 \in S
    PROVE  S = Nat
<1> SUFFICES ASSUME Nat \ S # {} PROVE FALSE
  OBVIOUS
<1>1. IsWellFoundedOn(OpToRel(<, Nat), Nat)
  BY NatLessThanWellFounded
<1>2. PICK x \in Nat \ S : \A y \in Nat \ S : ~ (<<y, x>> \in OpToRel(<, Nat))
  BY <1>1, WFMin
<1>3. x - 1 \in Nat /\ x = x - 1 + 1 /\ x - 1 < x
  <2>1. x \in Nat /\ x # 0
    OBVIOUS
  <2> QED BY <2>1
<1>4. x - 1 \in S
  BY <1>2, <1>3 DEF OpToRel
<1> QED BY <1>2, <1>3, <1>4

\* By induction on m.
LEMMA PowerSum == ASSUME NEW m \in Nat, NEW n \in Nat PROVE 2^(m + n) = 2^m * 2^n
<1> DEFINE S == {k \in Nat : 2^(k + n) = 2^k * 2^n}
<1>1. 0 \in S
  <2>1. 2^0 = 1 /\ 0 + n = n
    OBVIOUS
  <2>2. 2^n = 1 * 2^n
    BY PowerType
  <2> QED BY <2>1, <2>2
<1>2. ASSUME NEW k \in S PROVE k + 1 \in S
  <2>1. k \in Nat /\ 2^(k + n) = 2^k * 2^n
    OBVIOUS
  <2>2. k + n \in Nat /\ k + 1 + n = k + n + 1
    BY <2>1
  <2>3. 2^(k + n + 1) = 2 * 2^(k + n) /\ 2^(k + 1) = 2 * 2^k
    BY <2>1, <2>2, PowerSucc
  <2>4. 2 * (2^k * 2^n) = (2 * 2^k) * 2^n
    <3> DEFINE a == 2^k
               b == 2^n
    <3>1. a \in Nat /\ b \in Nat
      BY <2>1, PowerType
    <3> HIDE DEF a, b
    <3>2. 2 * (a * b) = (2 * a) * b
      BY <3>1
    <3> QED BY <3>2 DEF a, b
  <2>5. 2^(k + 1 + n) = 2^(k + 1) * 2^n
    BY <2>1, <2>2, <2>3, <2>4
  <2> QED BY <2>1, <2>5
<1>3. S = Nat
  <2> HIDE DEF S
  <2>1. S \in SUBSET Nat
    BY DEF S
  <2> QED BY <1>1, <1>2, <2>1, SetInduction
<1> QED BY <1>3

\* A larger exponent makes a power at least twice as large.
LEMMA PowerLess == ASSUME NEW m \in Nat, NEW n \in Nat, m < n PROVE 2 * 2^m <= 2^n
<1> DEFINE d == n - m - 1
           a == 2^m
           b == 2^d
<1>1. d \in Nat /\ n = d + (m + 1) /\ m + 1 \in Nat
  OBVIOUS
<1>2. 2^n = b * 2^(m + 1) /\ 2^(m + 1) = 2 * a
  <2> HIDE DEF d
  <2> QED BY <1>1, PowerSum, PowerSucc
<1>3. a \in Nat /\ b \in Nat \ {0}
  BY <1>1, PowerType
<1>4. b * (2 * a) >= 2 * a
  <2> HIDE DEF a, b
  <2> QED BY <1>3
<1> QED BY <1>2, <1>3, <1>4

----------------------------------------------------------------------------
(* Division *)

\* Quotient and remainder...
LEMMA Division ==
    ASSUME NEW a \in Int, NEW b \in Nat \ {0}
    PROVE  /\ a \div b \in Int /\ a % b \in 0 .. b - 1
           /\ a = b * (a \div b) + (a % b)
BY Z3

\* ... are the only ones there are...
LEMMA DivisionUnique ==
    ASSUME NEW b \in Nat \ {0}, NEW q \in Int, NEW l \in 0 .. b - 1
    PROVE  (b * q + l) \div b = q /\ (b * q + l) % b = l
<1> DEFINE a == b * q + l
           p == a \div b
           m == a % b
<1>1. a \in Int /\ a = b * q + l
  OBVIOUS
<1>2. p \in Int /\ m \in 0 .. b - 1 /\ a = b * p + m
  <2> HIDE DEF a
  <2> QED BY <1>1, Division
<1> HIDE DEF a, p, m
<1>3. b * (p - q) = l - m
  BY <1>1, <1>2
<1>4. CASE p - q >= 1
  <2>1. b * (p - q) >= b
    BY <1>2, <1>4
  <2> QED BY <1>2, <1>3, <2>1
<1>5. CASE p - q <= -1
  <2>1. b * (p - q) <= -b
    BY <1>2, <1>5
  <2> QED BY <1>2, <1>3, <2>1
<1>6. CASE p = q
  <2>1. b * (p - q) = 0
    BY <1>2, <1>6
  <2> QED BY <1>2, <1>3, <1>6, <2>1 DEF a, p, m
<1> QED BY <1>2, <1>4, <1>5, <1>6

\* ... and dividing twice is dividing by the product.
LEMMA DivisionTwice ==
    ASSUME NEW a \in Int, NEW b \in Nat \ {0}, NEW c \in Nat \ {0}
    PROVE  a \div (b * c) = (a \div b) \div c
<1> DEFINE q == a \div b
           l == a % b
           h == q \div c
           g == q % c
<1>1. q \in Int /\ l \in 0 .. b - 1 /\ a = b * q + l
  BY Division
<1>2. h \in Int /\ g \in 0 .. c - 1 /\ q = c * h + g
  BY <1>1, Division
<1> HIDE DEF q, l, h, g
<1>3. a = (b * c) * h + (b * g + l)
  BY <1>1, <1>2
<1>4. b * c \in Nat \ {0} /\ b * g + l \in 0 .. b * c - 1
  <2>1. g <= c - 1 /\ g >= 0 /\ l <= b - 1 /\ l >= 0
    BY <1>1, <1>2
  <2>2. b * g <= b * (c - 1)
    BY <2>1, <1>2
  <2>3. b * g \in Nat /\ b * c \in Nat /\ b * (c - 1) = b * c - b /\ b * c > 0
    BY <1>2
  <2> QED BY <1>1, <2>1, <2>2, <2>3
<1>5. a \div (b * c) = h
  BY <1>2, <1>3, <1>4, DivisionUnique
<1> QED BY <1>5 DEF q, h

----------------------------------------------------------------------------
(* Fields of a word *)

\* Low(x, n) is a number of n bits, and x if x is one.
LEMMA LowType ==
    ASSUME NEW x \in Int, NEW n \in Nat
    PROVE  /\ Low(x, n) \in 0 .. 2^n - 1
           /\ x \in 0 .. 2^n - 1 => Low(x, n) = x
<1> DEFINE b == 2^n
<1>1. b \in Nat \ {0}
  BY PowerType
<1> HIDE DEF b
<1>2. x % b \in 0 .. b - 1
  BY <1>1, Division
<1>3. ASSUME x \in 0 .. b - 1 PROVE x % b = x
  <2>1. (b * 0 + x) % b = x
    BY <1>1, <1>3, DivisionUnique
  <2>2. b * 0 + x = x
    BY <1>1
  <2> QED BY <2>1, <2>2
<1> QED BY <1>2, <1>3 DEF Low, b

\* A word r, seen as a field of w bits with o bits below it.
LEMMA FieldParts ==
    ASSUME NEW r \in Int, NEW w \in Nat, NEW o \in Nat
    PROVE  \E h \in Int, l \in 0 .. 2^o - 1 :
              r = 2^o * (2^w * h + error_field_get(r, w, o)) + l
<1> DEFINE P == 2^o
           Q == 2^w
           q == r \div P
<1>1. P \in Nat \ {0} /\ Q \in Nat \ {0}
  BY PowerType
<1> HIDE DEF P, Q
<1>2. q \in Int /\ r % P \in 0 .. P - 1 /\ r = P * q + (r % P)
  BY <1>1, Division
<1> HIDE DEF q
<1>3. q \div Q \in Int /\ q % Q \in Int /\ q = Q * (q \div Q) + (q % Q)
  BY <1>1, <1>2, Division
<1>4. r = P * (Q * (q \div Q) + (q % Q)) + (r % P)
  BY <1>2, <1>3
<1> QED BY <1>2, <1>3, <1>4 DEF P, Q, q, error_field_get, Low

\* A word before and after a field of it is set: what is above and below stays.
LEMMA FieldSplit ==
    ASSUME NEW r \in Int, NEW x \in Int, NEW w \in Nat, NEW o \in Nat
    PROVE  \E h \in Int, g \in 0 .. 2^w - 1, l \in 0 .. 2^o - 1 :
              /\ r = 2^o * (2^w * h + g) + l
              /\ error_field_set(r, x, w, o) = 2^o * (2^w * h + Low(x, w)) + l
<1> DEFINE P == 2^o
           Q == 2^w
           y == Low(x, w)
           g == error_field_get(r, w, o)
<1>1. P \in Nat \ {0} /\ Q \in Nat \ {0} /\ y \in Int
  BY PowerType, LowType
<1>2. PICK h \in Int, l \in 0 .. P - 1 : r = P * (Q * h + g) + l
  BY FieldParts
<1>3. g \in 0 .. Q - 1
  <2>1. r \div P \in Int
    BY <1>1, Division
  <2> QED BY <2>1, LowType DEF error_field_get
<1> HIDE DEF P, Q, y, g
<1>4. r + (y - g) * P = P * (Q * h + y) + l
  <2>1. g \in Int /\ l \in Int /\ Q * h \in Int
    BY <1>1, <1>3
  <2>2. P * (Q * h + g) + (y - g) * P = P * (Q * h + y)
    BY <1>1, <2>1
  <2> QED BY <1>1, <1>2, <2>1, <2>2
<1>5. error_field_set(r, x, w, o) = P * (Q * h + y) + l
  BY <1>4 DEF P, y, g, error_field_set
<1> QED BY <1>2, <1>3, <1>5 DEF P, Q, y, g

\* A field that has been set holds the low bits of what it was set to.
LEMMA FieldSet ==
    ASSUME NEW r \in Int, NEW x \in Int, NEW w \in Nat, NEW o \in Nat
    PROVE  /\ error_field_set(r, x, w, o) \in Int
           /\ error_field_get(error_field_set(r, x, w, o), w, o) = Low(x, w)
<1> DEFINE P == 2^o
           Q == 2^w
           y == Low(x, w)
<1>1. P \in Nat \ {0} /\ Q \in Nat \ {0} /\ y \in 0 .. Q - 1
  BY PowerType, LowType
<1>2. PICK h \in Int, g \in 0 .. Q - 1, l \in 0 .. P - 1 :
         /\ r = P * (Q * h + g) + l
         /\ error_field_set(r, x, w, o) = P * (Q * h + y) + l
  BY FieldSplit, Zenon
<1> HIDE DEF P, Q, y
<1>3. Q * h + y \in Int /\ P * (Q * h + y) + l \in Int
  BY <1>1
<1>4. (P * (Q * h + y) + l) \div P = Q * h + y
  BY <1>1, <1>3, DivisionUnique
<1>5. (Q * h + y) % Q = y
  BY <1>1, DivisionUnique
<1> QED BY <1>2, <1>3, <1>4, <1>5 DEF P, Q, y, error_field_get, Low

\* The bits above it are as they were...
LEMMA BitsAbove ==
    ASSUME NEW r \in Int, NEW x \in Int, NEW w \in Nat, NEW o \in Nat
    PROVE  error_field_set(r, x, w, o) \div 2^(o + w) = r \div 2^(o + w)
<1> DEFINE P == 2^o
           Q == 2^w
           y == Low(x, w)
<1>1. P \in Nat \ {0} /\ Q \in Nat \ {0} /\ y \in 0 .. Q - 1 /\ 2^(o + w) = P * Q
  BY PowerType, PowerSum, LowType
<1>2. PICK h \in Int, g \in 0 .. Q - 1, l \in 0 .. P - 1 :
         /\ r = P * (Q * h + g) + l
         /\ error_field_set(r, x, w, o) = P * (Q * h + y) + l
  BY FieldSplit, Zenon
<1> HIDE DEF P, Q, y
<1>3. ASSUME NEW f \in 0 .. Q - 1
      PROVE  (P * (Q * h + f) + l) \div (P * Q) = h
  <2>1. Q * h + f \in Int /\ P * (Q * h + f) + l \in Int
    BY <1>1
  <2>2. (P * (Q * h + f) + l) \div P = Q * h + f
    BY <1>1, <2>1, DivisionUnique
  <2>3. (Q * h + f) \div Q = h
    BY <1>1, DivisionUnique
  <2> DEFINE a == P * (Q * h + f) + l
  <2> HIDE DEF a
  <2>4. a \div (P * Q) = (a \div P) \div Q
    BY <1>1, <2>1, DivisionTwice DEF a
  <2> QED BY <2>2, <2>3, <2>4 DEF a
<1> QED BY <1>1, <1>2, <1>3

\* ... and so is every field above it.
LEMMA FieldAbove ==
    ASSUME NEW r \in Int, NEW x \in Int, NEW w \in Nat, NEW o \in Nat,
           NEW v \in Nat, NEW p \in Nat, o + w <= p
    PROVE  error_field_get(error_field_set(r, x, w, o), v, p) = error_field_get(r, v, p)
<1> DEFINE b == 2^(o + w)
           K == 2^(p - (o + w))
<1>1. b \in Nat \ {0} /\ K \in Nat \ {0} /\ 2^p = b * K
  <2>1. p - (o + w) \in Nat /\ o + w \in Nat /\ p = (o + w) + (p - (o + w))
    OBVIOUS
  <2> QED BY <2>1, PowerType, PowerSum
<1>2. error_field_set(r, x, w, o) \in Int
  BY FieldSet
<1>3. error_field_set(r, x, w, o) \div b = r \div b
  BY BitsAbove
<1> HIDE DEF b, K
<1>4. ASSUME NEW a \in Int PROVE a \div (b * K) = (a \div b) \div K
  BY <1>1, DivisionTwice
<1>5. error_field_set(r, x, w, o) \div 2^p = r \div 2^p
  BY <1>1, <1>2, <1>3, <1>4
<1> QED BY <1>5 DEF error_field_get

\* No field below it changes either.
LEMMA FieldBelow ==
    ASSUME NEW r \in Int, NEW x \in Int, NEW w \in Nat, NEW o \in Nat,
           NEW v \in Nat, NEW p \in Nat, p + v <= o
    PROVE  error_field_get(error_field_set(r, x, w, o), v, p) = error_field_get(r, v, p)
<1> DEFINE A == 2^p
           B == 2^v
           K == 2^(o - (p + v))
           d == Low(x, w) - error_field_get(r, w, o)
           q == r \div A
<1>1. A \in Nat \ {0} /\ B \in Nat \ {0} /\ K \in Nat \ {0}
  BY PowerType
<1>2. 2^o = (A * B) * K
  <2>1. 2^(p + v) = A * B
    BY PowerSum
  <2>2. o - (p + v) \in Nat /\ p + v \in Nat /\ o = (p + v) + (o - (p + v))
    OBVIOUS
  <2>3. 2^o = 2^(p + v) * K
    BY <2>2, PowerSum
  <2> QED BY <2>1, <2>3
<1>3. d \in Int
  <2>1. r \div 2^o \in Int
    BY PowerType, Division
  <2>2. error_field_get(r, w, o) \in 0 .. 2^w - 1 /\ Low(x, w) \in 0 .. 2^w - 1 /\ 2^w \in Nat
    BY <2>1, LowType, PowerType DEF error_field_get
  <2> QED BY <2>2
<1>4. error_field_set(r, x, w, o) = r + d * ((A * B) * K)
  BY <1>2 DEF error_field_set
<1> HIDE DEF A, B, K, d
<1>5. q \in Int /\ r % A \in 0 .. A - 1 /\ r = A * q + (r % A)
  BY <1>1, Division
<1>6. q \div B \in Int /\ q % B \in 0 .. B - 1 /\ q = B * (q \div B) + (q % B)
  BY <1>1, <1>5, Division
<1> DEFINE e == B * (d * K)
<1>7. e \in Int /\ q + e \in Int /\ d * ((A * B) * K) = A * e
  BY <1>1, <1>3, <1>5
<1>8. r + d * ((A * B) * K) = A * (q + e) + (r % A)
  <2> HIDE DEF q, e
  <2> QED BY <1>1, <1>5, <1>7
<1>9. (r + d * ((A * B) * K)) \div A = q + e
  <2> HIDE DEF q, e
  <2> QED BY <1>1, <1>5, <1>7, <1>8, DivisionUnique
<1>10. (q + e) % B = q % B
  <2> DEFINE f == q \div B
             m == q % B
  <2>1. q + e = B * (f + d * K) + m /\ f + d * K \in Int
    <3> HIDE DEF q, f, m
    <3>1. d * K \in Int /\ f \in Int /\ m \in Int /\ q = B * f + m
      BY <1>1, <1>3, <1>6 DEF f, m
    <3>2. B * (f + d * K) = B * f + B * (d * K)
      BY <1>1, <3>1
    <3> QED BY <1>1, <1>3, <1>5, <3>1, <3>2
  <2> HIDE DEF q, e
  <2> QED BY <1>1, <1>6, <2>1, DivisionUnique
<1> QED BY <1>4, <1>9, <1>10 DEF A, B, error_field_get, Low

----------------------------------------------------------------------------
(* Results *)

\* Where the fields of a result lie: each begins where the one below it ends.
LEMMA Offsets ==
    /\ {bits_errno, bits_facility, bits_reserved, bits_severity, bits_err} \subseteq Nat \ {0}
    /\ {off_errno, off_facility, off_reserved, off_severity, off_err} \subseteq Nat
    /\ off_errno + bits_errno = off_facility
    /\ off_facility + bits_facility = off_reserved
    /\ off_reserved + bits_reserved = off_severity
    /\ off_severity + bits_severity = off_err
BY ResultsAssumption DEF off_errno, off_facility, off_reserved, off_severity, off_err

\* No two fields of a result overlap: a setter stores as many of the bits of its
\* argument as its field has, and every other field of the result holds what it
\* held, for all widths, results and numbers (error_field_set, BITS_SETFLD).
THEOREM SettersStayApart ==
    ASSUME NEW field \in DOMAIN Width, NEW r \in Int, NEW x \in Int
    PROVE  Held(Set(field, r, x)) = [Held(r) EXCEPT ![field] = Low(x, Width[field])]
<1> DEFINE f == [errno    |-> [w |-> bits_errno,    o |-> off_errno],
                 facility |-> [w |-> bits_facility, o |-> off_facility],
                 reserved |-> [w |-> bits_reserved, o |-> off_reserved],
                 severity |-> [w |-> bits_severity, o |-> off_severity],
                 err      |-> [w |-> bits_err,      o |-> off_err]]
           Get(y, g) == error_field_get(y, f[g].w, f[g].o)
           Put(y, g) == error_field_set(y, x, f[g].w, f[g].o)
<1>1. ASSUME NEW g \in DOMAIN Width PROVE f[g].w = Width[g] /\ f[g].w \in Nat /\ f[g].o \in Nat
  BY Offsets DEF Width
<1>2. ASSUME NEW g \in DOMAIN Width, NEW h \in DOMAIN Width, g # h
      PROVE  f[g].o + f[g].w <= f[h].o \/ f[h].o + f[h].w <= f[g].o
  <2> USE Offsets DEF Width
  <2>1. {g, h} \subseteq {"errno", "facility", "reserved", "severity", "err"}
    OBVIOUS
  <2>2. CASE g = "errno"
    BY <1>2, <2>1, <2>2
  <2>3. CASE g = "facility"
    BY <1>2, <2>1, <2>3
  <2>4. CASE g = "reserved"
    BY <1>2, <2>1, <2>4
  <2>5. CASE g = "severity"
    BY <1>2, <2>1, <2>5
  <2>6. CASE g = "err"
    BY <1>2, <2>1, <2>6
  <2> QED BY <2>1, <2>2, <2>3, <2>4, <2>5, <2>6
<1>3. \A y : Held(y) = [g \in DOMAIN Width |-> Get(y, g)]
  BY DEF Held, Width, error_errno, error_facility, error_severity
<1>4. Set(field, r, x) = Put(r, field)
  BY DEF Set, Width, error_errno_set, error_facility_set, error_reserved_set,
         error_severity_set, error_err_set
<1> HIDE DEF f
<1>5. Get(Put(r, field), field) = Low(x, Width[field])
  <2> DEFINE w == f[field].w
             o == f[field].o
  <2>1. w = Width[field] /\ w \in Nat /\ o \in Nat
    BY <1>1
  <2> HIDE DEF w, o
  <2>2. error_field_get(error_field_set(r, x, w, o), w, o) = Low(x, w)
    BY <2>1, FieldSet
  <2> QED BY <2>1, <2>2 DEF w, o
<1>6. ASSUME NEW w \in Nat, NEW o \in Nat, NEW v \in Nat, NEW p \in Nat,
             o + w <= p \/ p + v <= o
      PROVE  error_field_get(error_field_set(r, x, w, o), v, p) = error_field_get(r, v, p)
  BY <1>6, FieldAbove, FieldBelow
<1>7. ASSUME NEW g \in DOMAIN Width, g # field PROVE Get(Put(r, field), g) = Get(r, g)
  BY <1>1, <1>2, <1>6, <1>7
<1> HIDE DEF Get, Put
<1>8. Held(r) = [g \in DOMAIN Width |-> Get(r, g)]
  BY <1>3
<1>9. Held(Put(r, field)) = [g \in DOMAIN Width |-> Get(Put(r, field), g)]
  BY <1>3
<1> QED BY <1>4, <1>5, <1>7, <1>8, <1>9

\* A field of 0 that is set, shifted to its place.
LEMMA FieldOfZero ==
    ASSUME NEW x \in Int, NEW w \in Nat, NEW o \in Nat
    PROVE  error_field_set(0, x, w, o) = Low(x, w) * 2^o
<1> DEFINE P == 2^o
           Q == 2^w
           y == Low(x, w)
<1>1. P \in Nat \ {0} /\ Q \in Nat \ {0} /\ y \in Int
  BY PowerType, LowType
<1> HIDE DEF P, Q, y
<1>2. 0 \div P = 0 /\ 0 % Q = 0
  <2>1. P * 0 + 0 = 0 /\ Q * 0 + 0 = 0 /\ 0 \in 0 .. P - 1 /\ 0 \in 0 .. Q - 1
    BY <1>1
  <2>2. (P * 0 + 0) \div P = 0
    BY <1>1, <2>1, DivisionUnique
  <2>3. (Q * 0 + 0) % Q = 0
    BY <1>1, <2>1, DivisionUnique
  <2> QED BY <2>1, <2>2, <2>3
<1>3. error_field_get(0, w, o) = 0
  BY <1>2 DEF P, Q, error_field_get, Low
<1>4. 0 + (y - 0) * P = y * P
  BY <1>1
<1> QED BY <1>3, <1>4 DEF P, y, error_field_set

\* A field that is given -1 or TRUE: all of its bits are set.
LEMMA LowOnes ==
    ASSUME NEW w \in Nat \ {0}
    PROVE  Low(-1, w) = 2^w - 1 /\ Low(1, 1) = 1
<1> DEFINE Q == 2^w
<1>1. Q \in Nat \ {0}
  BY PowerType
<1> HIDE DEF Q
<1>2. Q * (-1) + (Q - 1) = -1 /\ Q - 1 \in 0 .. Q - 1
  BY <1>1
<1>3. (Q * (-1) + (Q - 1)) % Q = Q - 1
  BY <1>1, <1>2, DivisionUnique
<1>4. 2^1 = 2
  OBVIOUS
<1>5. Low(1, 1) = 1
  BY <1>4, Z3 DEF Low
<1> QED BY <1>2, <1>3, <1>5 DEF Q, Low

\* The powers that the fields of a result stand for.
LEMMA Powers ==
    /\ {2^bits_errno, 2^off_reserved, 2^off_severity, 2^off_err} \subseteq Nat \ {0}
    /\ 2^off_errno = 1
    /\ off_facility = bits_errno
    /\ 2^off_facility * 2^bits_facility = 2^off_reserved
    /\ 2^off_reserved * 2^bits_reserved = 2^off_severity
    /\ 2^off_severity * 2^bits_severity = 2^off_err
    /\ 2 * 2^off_err = Words
    /\ 2^bits_errno <= 2^off_reserved
    /\ 2^bits_errno <= 2^off_severity
    /\ 2^bits_errno <= 2^off_err
<1>1. 2^0 = 1
  OBVIOUS
<1>2. off_errno = 0 /\ off_facility = bits_errno /\ bits_err = 1
  BY Offsets, ResultsAssumption DEF off_errno, off_facility
<1>3. bits_errno < off_reserved /\ bits_errno < off_severity /\ bits_errno < off_err
  BY <1>2, Offsets
<1>4. {2^bits_errno, 2^off_reserved, 2^off_severity, 2^off_err} \subseteq Nat \ {0}
  BY Offsets, PowerType
<1>5. /\ 2 * 2^bits_errno <= 2^off_reserved
      /\ 2 * 2^bits_errno <= 2^off_severity
      /\ 2 * 2^bits_errno <= 2^off_err
  BY <1>3, Offsets, PowerLess
<1>6. /\ 2^off_facility * 2^bits_facility = 2^off_reserved
      /\ 2^off_reserved * 2^bits_reserved = 2^off_severity
      /\ 2^off_severity * 2^bits_severity = 2^off_err
  BY Offsets, PowerSum
<1>7. 2 * 2^off_err = Words
  BY <1>2, Offsets, PowerSucc DEF Words
<1>8. \A n \in Nat, m \in Nat : 2 * n <= m => n <= m
  OBVIOUS
<1> QED BY <1>1, <1>2, <1>4, <1>5, <1>6, <1>7, <1>8

\* A result made of an errno is no success, whatever the errno, 0 included: the
\* bits above errno are set (ERRORS_STD_ERRNO).
LEMMA NeverOk ==
    ASSUME NEW e \in Int
    PROVE  ERRORS_STD_ERRNO(e) \in 1 .. Words - 1 /\ ERRORS_STD_ERRNO(e) # ok
<1> DEFINE b == 2^bits_errno
           p == 2^off_err
           l == Low(e, bits_errno)
<1>1. b \in Nat \ {0} /\ p \in Nat \ {0} /\ b <= p /\ Words = 2 * p
  BY Powers
<1>2. l \in 0 .. b - 1
  BY LowType, Offsets
<1> HIDE DEF b, p, l
<1>3. Words - b + l \in 1 .. Words - 1
  BY <1>1, <1>2
<1>4. ERRORS_STD_ERRNO(e) \in 1 .. Words - 1
  BY <1>3 DEF b, l, ERRORS_STD_ERRNO
<1> QED BY <1>4 DEF ok

\* The macro and the function make the same result of an errno: what
\* ERRORS_STD_ERRNO writes down is what error_encode puts together, field by
\* field, out of severity -1, facility -1 and the errno (errors.h).
THEOREM MacroIsEncode ==
    ASSUME NEW e \in Int
    PROVE  error_std_errno(e) = ERRORS_STD_ERRNO(e)
<1> DEFINE b == 2^bits_errno
           r == 2^off_reserved
           s == 2^off_severity
           p == 2^off_err
           l == Low(e, bits_errno)
<1>1. b \in Nat \ {0} /\ r \in Nat \ {0} /\ s \in Nat \ {0} /\ p \in Nat \ {0} /\ l \in Int
  BY Powers, LowType, Offsets
<1>2. error_err_set(0, 1) = p
  <2>1. error_err_set(0, 1) = Low(1, bits_err) * p
    BY Offsets, FieldOfZero DEF error_err_set
  <2>2. Low(1, bits_err) = 1
    BY LowOnes, Offsets, ResultsAssumption
  <2> HIDE DEF p
  <2> QED BY <1>1, <2>1, <2>2
<1>3. ASSUME NEW w \in Nat \ {0}, NEW o \in Nat, NEW n \in Nat, 2^o * 2^w = n
      PROVE  error_field_set(0, -1, w, o) = n - 2^o
  <2> DEFINE x == 2^w
             y == 2^o
  <2>1. error_field_set(0, -1, w, o) = (x - 1) * y
    BY FieldOfZero, LowOnes
  <2>2. x \in Nat /\ y \in Nat /\ y * x = n
    BY <1>3, PowerType
  <2> HIDE DEF x, y
  <2>3. (x - 1) * y = n - y
    BY <2>2
  <2> QED BY <2>1, <2>3 DEF x, y
<1>4. /\ error_severity_set(0, -1) = p - s
      /\ error_reserved_set(0, -1) = s - r
      /\ error_facility_set(0, -1) = r - b
  <2>1. 2^off_facility * 2^bits_facility = r /\ 2^off_facility = b
    BY Powers
  <2>2. 2^off_reserved * 2^bits_reserved = s /\ 2^off_severity * 2^bits_severity = p
    BY Powers
  <2>3. {bits_facility, bits_reserved, bits_severity} \subseteq Nat \ {0}
    BY Offsets
  <2>4. {off_facility, off_reserved, off_severity} \subseteq Nat
    BY Offsets
  <2> HIDE DEF b, r, s, p
  <2>5. error_field_set(0, -1, bits_severity, off_severity) = p - s
    BY <1>1, <1>3, <2>2, <2>3, <2>4, Zenon DEF s
  <2>6. error_field_set(0, -1, bits_reserved, off_reserved) = s - r
    BY <1>1, <1>3, <2>2, <2>3, <2>4, Zenon DEF r
  <2>7. error_field_set(0, -1, bits_facility, off_facility) = r - b
    BY <1>1, <1>3, <2>1, <2>3, <2>4, Zenon
  <2> QED BY <2>5, <2>6, <2>7 DEF error_severity_set, error_reserved_set, error_facility_set
<1>5. error_errno_set(0, e) = l
  <2>1. error_errno_set(0, e) = l * 2^off_errno
    BY Offsets, FieldOfZero DEF error_errno_set
  <2>2. l * 1 = l
    BY <1>1
  <2> QED BY <2>1, <2>2, Powers
<1>6. error_std_errno(e) = p + (p - s) + (s - r) + (r - b) + l
  BY <1>2, <1>4, <1>5 DEF error_std_errno, error_encode, ERROR_STD_SEVERITY, ERROR_STD_FACILITY
<1>7. ERRORS_STD_ERRNO(e) = 2 * p - b + l
  BY Powers DEF ERRORS_STD_ERRNO
<1> HIDE DEF b, r, s, p, l
<1> QED BY <1>1, <1>6, <1>7

\* What is read back from a result made of an errno: the errno itself, and a
\* severity and a facility of -1, cut to their widths.
THEOREM ErrnoComesBack ==
    ASSUME NEW e \in 0 .. 2^bits_errno - 1
    PROVE  /\ error_errno(ERRORS_STD_ERRNO(e)) = e
           /\ error_severity(ERRORS_STD_ERRNO(e)) = Low(ERROR_STD_SEVERITY, bits_severity)
           /\ error_facility(ERRORS_STD_ERRNO(e)) = Low(ERROR_STD_FACILITY, bits_facility)
<1> DEFINE b == 2^bits_errno
           f == 2^bits_facility
           s == 2^off_severity
           v == 2^bits_severity
           k == 2^bits_reserved
           R == ERRORS_STD_ERRNO(e)
<1>1. /\ b \in Nat \ {0} /\ f \in Nat \ {0} /\ k \in Nat \ {0} /\ v \in Nat \ {0}
      /\ e \in 0 .. b - 1
  BY PowerType, Offsets
<1>2. s = (b * f) * k /\ R = 2 * (s * v) - b + e
  <2>1. Words = 2 * (s * v)
    BY Powers
  <2>2. Low(e, bits_errno) = e
    BY <1>1, LowType, Offsets
  <2> QED BY <2>1, <2>2, Powers DEF ERRORS_STD_ERRNO
<1>3. 2^off_errno = 1 /\ 2^off_facility = b
  BY Powers
<1> HIDE DEF b, f, s, v, k, R
<1>4. s \in Nat /\ b <= s
  <2>1. \A m \in Nat \ {0}, n \in Nat \ {0} : m * n >= m /\ m * n \in Nat \ {0}
    OBVIOUS
  <2>2. b * f \in Nat \ {0} /\ b * f >= b
    BY <1>1, <2>1
  <2>3. (b * f) * k \in Nat \ {0} /\ (b * f) * k >= b * f
    BY <1>1, <2>1, <2>2
  <2> QED BY <1>1, <1>2, <2>2, <2>3
<1> DEFINE n == 2 * ((f * k) * v) - 1
<1>5. n \in Int /\ R = b * n + e /\ n = f * (2 * (k * v) - 1) + (f - 1)
  BY <1>1, <1>2
<1>6. R \in Int
  BY <1>1, <1>2, <1>4
<1>7. error_errno(R) = e
  <2>1. R \div 1 = R
    BY <1>6
  <2>2. R % b = e
    <3> HIDE DEF n
    <3> QED BY <1>1, <1>5, DivisionUnique
  <2> QED BY <1>3, <2>1, <2>2 DEF error_errno, error_field_get, Low, b
<1>8. error_facility(R) = f - 1
  <2>1. R \div b = n
    <3> HIDE DEF n
    <3> QED BY <1>1, <1>5, DivisionUnique
  <2>2. n % f = f - 1
    <3> DEFINE m == 2 * (k * v) - 1
    <3>1. m \in Int /\ n = f * m + (f - 1) /\ f - 1 \in 0 .. f - 1
      BY <1>1, <1>5
    <3> HIDE DEF m, n
    <3> QED BY <1>1, <3>1, DivisionUnique
  <2> QED BY <1>3, <2>1, <2>2 DEF error_facility, error_field_get, Low, f
<1>9. error_severity(R) = v - 1
  <2> DEFINE m == v * 1 + (v - 1)
             l == s - b + e
  <2>1. R = s * m + l /\ m \in Int /\ l \in 0 .. s - 1 /\ s \in Nat \ {0}
    BY <1>1, <1>2, <1>4
  <2>2. m % v = v - 1
    BY <1>1, DivisionUnique
  <2>3. R \div s = m
    <3> HIDE DEF m, l
    <3> QED BY <2>1, DivisionUnique
  <2> QED BY <2>2, <2>3 DEF error_severity, error_field_get, Low, v, s
<1>10. Low(ERROR_STD_SEVERITY, bits_severity) = v - 1 /\ Low(ERROR_STD_FACILITY, bits_facility) = f - 1
  BY Offsets, LowOnes DEF v, f, ERROR_STD_SEVERITY, ERROR_STD_FACILITY
<1> QED BY <1>7, <1>8, <1>9, <1>10 DEF R

----------------------------------------------------------------------------
(* The calls of passwd.c *)

Records  == Accounts \cup {Zeroed}
Failures == {ERRORS_STD_ERRNO(errno) : errno \in Errnos \cup {ENOMEM, EINVAL}}

ByName == {"str_getpwnam", "str_getpwuid", "str_getpwnam_r", "str_getpwuid_r"}
Names  == ByName \cup {"none", "str_passwd_Create", "str_passwd_Delete"}

\* The types of the variables; before is what callers was.
Typed == /\ heap \in [DOMAIN heap -> Records] /\ DOMAIN heap \subseteq Address
         /\ own \in Records
         /\ fn \in Names
         /\ key \in DOMAIN Keys \cup {NULL}
         /\ result \in {ok} \cup Failures
         /\ before = <<before[1], before[2], before[3]>>

\* A record that a function has allocated and not given to its caller is the
\* only thing in which the heap differs from what it was before the call.
Inside == pc \in {"lookup", "make"} =>
             /\ handle = before[2] /\ own = before[3]
             /\ before[1] = [a \in DOMAIN heap \ {pw} |-> heap[a]]
             /\ IF Allocates THEN pw \in DOMAIN heap ELSE pw = NULL
             /\ handle # pw \/ handle = NULL

\* Where a function may be, and what it has done until then.
Control == /\ pc \in {"returned", "allocate", "delete", "lookup", "make", "null"}
           /\ pc = "lookup" => fn \in ByName
           /\ pc = "make" => Known /\ fn \in ByName \cup {"str_passwd_Create"}
           /\ pc = "allocate" => /\ Allocates /\ callers = before /\ pw = NULL
                                 /\ fn = "str_passwd_Create" => key = NULL \/ Known
           /\ pc = "delete" => fn = "str_passwd_Delete" /\ callers = before
           /\ pc = "null" => callers = before

IInv == /\ Typed /\ Control /\ Inside
        /\ HandleIsLive /\ FailureChangesNothing /\ OkMeansFound

----------------------------------------------------------------------------
(* What the steps have in common *)

\* Every errno that a function meets fits its field, and makes a failure.
LEMMA FailsType ==
    /\ ok \notin Failures
    /\ \A errno \in Errnos \cup {ENOMEM, EINVAL} :
          /\ errno \in 0 .. 2^bits_errno - 1 /\ errno \in Int
          /\ ERRORS_STD_ERRNO(errno) \in Failures
<1>1. ASSUME NEW errno \in Errnos \cup {ENOMEM, EINVAL}
      PROVE  errno \in 0 .. 2^bits_errno - 1 /\ errno \in Int
  <2>1. errno \in 0 .. 2^bits_errno - 1
    BY PasswdAssumption
  <2> QED BY <2>1
<1>2. ASSUME NEW errno \in Errnos \cup {ENOMEM, EINVAL} PROVE ERRORS_STD_ERRNO(errno) # ok
  BY <1>1, NeverOk
<1> QED BY <1>1, <1>2 DEF Failures

\* A call begins with nothing done.
LEMMA CallBegins ==
    ASSUME IInv, NEW f \in Names \ {"none"}, NEW k \in DOMAIN Keys \cup {NULL}, NEW next,
           Call(f, k, next),
           next = "lookup" => f \in {"str_getpwnam", "str_getpwuid"},
           next = "allocate" => f \in {"str_passwd_Create", "str_getpwnam_r", "str_getpwuid_r"},
           next = "delete" => f = "str_passwd_Delete",
           f = "str_passwd_Create" => k = NULL \/ Keys[k] # NULL,
           next \in {"lookup", "allocate", "delete", "null"}
    PROVE  IInv'
<1> USE DEF IInv, Call
<1>1. Typed'
  BY DEF Typed, callers, Names
<1>2. Control'
  BY DEF Control, callers, Allocates, ByName, Known
<1>3. Inside'
  <2>1. NULL \notin DOMAIN heap /\ DOMAIN heap \ {NULL} = DOMAIN heap
    BY PasswdAssumption DEF Typed
  <2>2. heap = [a \in DOMAIN heap \ {NULL} |-> heap[a]]
    BY <2>1 DEF Typed
  <2>3. before' = <<heap, handle, own>> /\ heap' = heap /\ handle' = handle /\ own' = own /\ pw' = NULL
    BY DEF callers
  <2>4. pc' = next /\ fn' = f
    OBVIOUS
  <2>5. ASSUME pc' \in {"lookup", "make"} PROVE ~Allocates'
    BY <2>4, <2>5 DEF Allocates
  <2>6. handle' # pw' \/ handle' = NULL
    BY <2>3
  <2> QED BY <2>2, <2>3, <2>5, <2>6 DEF Inside
<1>4. HandleIsLive' /\ FailureChangesNothing' /\ OkMeansFound'
  BY DEF HandleIsLive, FailureChangesNothing, OkMeansFound, callers
<1> QED BY <1>1, <1>2, <1>3, <1>4

\* A function that fails after it has allocated a record leaves nothing behind.
LEMMA Unwinds ==
    ASSUME IInv, pc \in {"lookup", "make"}, NEW res \in Failures, Unwind(res)
    PROVE  IInv'
<1> USE DEF IInv
<1>1. /\ heap' = before[1] /\ handle' = before[2] /\ own' = before[3]
      /\ before' = before /\ before = <<before[1], before[2], before[3]>>
  BY DEF Unwind, Return, Inside, Typed
<1>2. pc' = "returned" /\ result' = res /\ res # ok /\ fn' = fn /\ key' = key
  BY FailsType DEF Unwind, Return
<1>3. Typed'
  <2>1. heap' = [a \in DOMAIN heap \ {pw} |-> heap[a]]
    BY DEF Unwind
  <2>2. heap' \in [DOMAIN heap' -> Records] /\ DOMAIN heap' \subseteq Address
    BY <2>1 DEF Typed
  <2>3. own' = own
    BY DEF Unwind
  <2> QED BY <1>1, <1>2, <2>2, <2>3 DEF Typed
<1>4. callers' = before'
  BY <1>1 DEF callers
<1>5. HandleIsLive'
  <2>1. handle' = handle /\ heap' = [a \in DOMAIN heap \ {pw} |-> heap[a]]
    BY DEF Unwind
  <2> QED BY <2>1 DEF HandleIsLive, Inside
<1> QED BY <1>2, <1>3, <1>4, <1>5 DEF Control, Inside, FailureChangesNothing, OkMeansFound

----------------------------------------------------------------------------
(* The invariant *)

LEMMA Initial == Init => IInv
<1> SUFFICES ASSUME Init PROVE IInv
  OBVIOUS
<1>1. heap \in [DOMAIN heap -> Records] /\ DOMAIN heap = {}
  BY DEF Init
<1> QED BY <1>1 DEF Init, IInv, Typed, Control, Inside, HandleIsLive, FailureChangesNothing,
             OkMeansFound, callers, Records, Names

LEMMA StepKeeps == IInv /\ [Next]_vars => IInv'
<1> SUFFICES ASSUME IInv, [Next]_vars PROVE IInv'
  OBVIOUS
<1> USE DEF IInv
<1>1. CASE UNCHANGED vars
  BY <1>1 DEF vars, callers, Typed, Control, Inside, HandleIsLive, FailureChangesNothing,
       OkMeansFound, Allocates, Known
<1>2. CASE CallCreate
  <2>1. PICK k \in {NULL} \cup {name \in DOMAIN Keys : Keys[name] # NULL} :
           Call("str_passwd_Create", k, "allocate")
    BY <1>2 DEF CallCreate
  <2> QED BY <2>1, CallBegins DEF Names
<1>3. CASE CallDelete
  BY <1>3, CallBegins DEF CallDelete, Names
<1>4. CASE CallLookup
  BY <1>4, CallBegins DEF CallLookup, Names, ByName
<1>5. CASE CallLookupR
  BY <1>5, CallBegins DEF CallLookupR, Names, ByName
<1>6. CASE CallNull
  BY <1>6, CallBegins DEF CallNull, Names, ByName
<1>7. CASE Allocate
  <2>1. fn' = fn /\ key' = key /\ before' = before /\ callers = before /\ pw = NULL /\ Allocates
    BY <1>7 DEF Allocate, Continue, Return, Control
  <2>2. CASE Return(ERRORS_STD_ERRNO(ENOMEM)) /\ UNCHANGED <<callers, pw, made>>
    BY <2>1, <2>2, FailsType DEF Return, callers, Typed, Control, Inside, HandleIsLive,
         FailureChangesNothing, OkMeansFound
  <2>3. ASSUME NEW a \in Address \ DOMAIN heap,
               heap' = [b \in DOMAIN heap \cup {a} |-> IF b = a THEN Zeroed ELSE heap[b]],
               pw' = a, UNCHANGED <<own, made>>,
               \/ fn = "str_passwd_Create" /\ key = NULL /\ handle' = a /\ Return(ok)
               \/ fn = "str_passwd_Create" /\ key # NULL /\ Continue("make") /\ UNCHANGED handle
               \/ fn # "str_passwd_Create" /\ Continue("lookup") /\ UNCHANGED handle
        PROVE  IInv'
    <3>1. /\ heap' \in [DOMAIN heap' -> Records] /\ DOMAIN heap' = DOMAIN heap \cup {a}
          /\ DOMAIN heap' \subseteq Address
      BY <2>3 DEF Typed, Records
    <3>2. DOMAIN heap' \ {a} = DOMAIN heap /\ a \notin DOMAIN heap
      BY <3>1
    <3>3. heap = [b \in DOMAIN heap' \ {a} |-> heap'[b]]
      BY <2>3, <3>2 DEF Typed
    <3>4. before = <<heap, handle, own>>
      BY <2>1 DEF callers
    <3>5. Typed'
      BY <2>1, <2>3, <3>1 DEF Typed, Return, Continue
    <3>6. HandleIsLive'
      BY <2>3, <3>1 DEF HandleIsLive
    <3>7. FailureChangesNothing' /\ OkMeansFound'
      BY <2>3 DEF FailureChangesNothing, OkMeansFound, Return, Continue
    <3>8. Inside'
      <4>1. Allocates'
        BY <2>1 DEF Allocates
      <4>2. handle # a \/ handle = NULL
        BY <2>3 DEF HandleIsLive
      <4> QED BY <2>1, <2>3, <3>1, <3>3, <3>4, <4>1, <4>2 DEF Inside, Return, Continue
    <3>9. Control'
      <4>1. fn \in ByName \/ fn = "str_passwd_Create"
        BY <2>1 DEF Allocates, ByName
      <4>2. key # NULL /\ fn = "str_passwd_Create" => Known
        BY <1>7 DEF Allocate, Control
      <4> QED BY <2>1, <2>3, <4>1, <4>2 DEF Control, Return, Continue, Known
    <3> QED BY <3>5, <3>6, <3>7, <3>8, <3>9
  <2> QED BY <1>7, <2>2, <2>3 DEF Allocate
<1>8. CASE Lookup
  <2>1. CASE Known /\ Continue("make") /\ UNCHANGED <<callers, pw, made>>
    BY <1>8, <2>1 DEF Lookup, Continue, callers, Typed, Control, Inside, HandleIsLive,
         FailureChangesNothing, OkMeansFound, Known, Allocates
  <2>2. ASSUME NEW errno \in Errnos \cup {ENOMEM, EINVAL}, Unwind(ERRORS_STD_ERRNO(errno))
        PROVE  IInv'
    BY <1>8, <2>2, FailsType, Unwinds DEF Lookup
  <2> QED BY <1>8, <2>1, <2>2 DEF Lookup
<1>9. CASE MakeString
  <2>1. CASE made' = made + 1 /\ Continue("make") /\ UNCHANGED <<callers, pw>>
    BY <1>9, <2>1 DEF MakeString, Continue, callers, Typed, Control, Inside, HandleIsLive,
         FailureChangesNothing, OkMeansFound, Known, Allocates
  <2>2. CASE Unwind(ERRORS_STD_ERRNO(ENOMEM))
    BY <1>9, <2>2, FailsType, Unwinds DEF MakeString
  <2> QED BY <1>9, <2>1, <2>2 DEF MakeString
<1>10. CASE Make
  <2>1. /\ fn' = fn /\ key' = key /\ before' = before /\ pc' = "returned" /\ result' = ok
        /\ pw' = pw /\ Known
    BY <1>10 DEF Make, Return, Control
  <2>2. Keys[key] \in Records
    BY <2>1, PasswdAssumption DEF Known, Typed, Records
  <2>3. CASE Allocates
    <3>1. heap' = [heap EXCEPT ![pw] = Keys[key]] /\ own' = own /\ handle' = pw
      BY <1>10, <2>3 DEF Make, Filled
    <3>2. pw \in DOMAIN heap
      BY <1>10, <2>3 DEF Make, Inside
    <3>3. /\ heap' \in [DOMAIN heap' -> Records] /\ DOMAIN heap' = DOMAIN heap
          /\ heap'[handle'] = Keys[key]
      BY <2>2, <3>1, <3>2 DEF Typed
    <3> QED BY <2>1, <2>3, <3>1, <3>2, <3>3 DEF Typed, Control, Inside, HandleIsLive,
               FailureChangesNothing, OkMeansFound, Known, Allocates
  <2>4. CASE ~Allocates
    <3>1. own' = Keys[key] /\ heap' = heap /\ handle' = handle
      BY <1>10, <2>4 DEF Make, Filled
    <3> QED BY <2>1, <2>2, <2>4, <3>1 DEF Typed, Control, Inside, HandleIsLive,
               FailureChangesNothing, OkMeansFound, Known, Allocates
  <2> QED BY <2>3, <2>4
<1>11. CASE Delete
  <2>1. /\ heap' = [a \in DOMAIN heap \ {handle} |-> heap[a]]
        /\ handle' = NULL /\ own' = own /\ pc' = "returned" /\ result' = ok
        /\ fn' = fn /\ key' = key /\ before' = before /\ fn = "str_passwd_Delete"
    BY <1>11 DEF Delete, Return, Control
  <2>2. heap' \in [DOMAIN heap' -> Records] /\ DOMAIN heap' \subseteq Address
    BY <2>1 DEF Typed
  <2> QED BY <2>1, <2>2 DEF Typed, Control, Inside, HandleIsLive, FailureChangesNothing,
             OkMeansFound
<1>12. CASE NullArgument
  <2>1. /\ callers' = callers /\ pw' = pw /\ made' = made
        /\ pc' = "returned" /\ result' = ERRORS_STD_ERRNO(EINVAL)
        /\ fn' = fn /\ key' = key /\ before' = before /\ callers = before
    BY <1>12 DEF NullArgument, Return, Control
  <2>2. result' \in Failures /\ result' # ok
    BY <2>1, FailsType
  <2> QED BY <2>1, <2>2 DEF Typed, Control, Inside, HandleIsLive, FailureChangesNothing,
             OkMeansFound, callers
<1> QED BY <1>1, <1>2, <1>3, <1>4, <1>5, <1>6, <1>7, <1>8, <1>9, <1>10, <1>11, <1>12 DEF Next

\* The invariant holds of every reachable state.
THEOREM Invariance == Spec => []IInv
BY Initial, StepKeeps, PTL DEF Spec

----------------------------------------------------------------------------
(* Theorems *)

\* Whatever the calls and wherever they run out of memory, every record, the
\* caller's own included, is the whole of an account or untouched
\* (str_passwd_make fills it when it has all five strings).
THEOREM NoMixedRecord == Spec => []RecordsAreAccounts
<1>1. IInv => RecordsAreAccounts
  BY DEF IInv, Typed, RecordsAreAccounts, Records
<1> QED BY <1>1, Invariance, PTL

\* After a call that failed, the caller's heap, handle and record are those from
\* before it: what the function allocated is freed on every path (unwind).
THEOREM NothingOnFailure == Spec => []FailureChangesNothing
<1>1. IInv => FailureChangesNothing
  BY DEF IInv
<1> QED BY <1>1, Invariance, PTL

\* The caller's handle is null or points to a record that is allocated.
THEOREM NoDanglingHandle == Spec => []HandleIsLive
<1>1. IInv => HandleIsLive
  BY DEF IInv
<1> QED BY <1>1, Invariance, PTL

\* ok is returned only with the record of the account asked for: an errno of 0
\* that getpwnam left on an unknown user is no success, since the bits above
\* errno are set in whatever ERRORS_STD_ERRNO makes.
THEOREM FoundWhenOk == Spec => []OkMeansFound
<1>1. IInv => OkMeansFound
  BY DEF IInv
<1> QED BY <1>1, Invariance, PTL

\* The errno of a call that failed comes back out of its result, which is what
\* error_encode makes of that errno, for all widths of the fields.
THEOREM ErrnoIsCarried == Spec => []FailureCarriesErrno
<1>1. ASSUME IInv, result # ok PROVE FailureCarriesErrno
  <2>1. PICK errno \in Errnos \cup {ENOMEM, EINVAL} : result = ERRORS_STD_ERRNO(errno)
    BY <1>1 DEF IInv, Typed, Failures
  <2>2. errno \in 0 .. 2^bits_errno - 1 /\ errno \in Int
    BY FailsType
  <2>3. error_errno(result) = errno
    BY <2>1, <2>2, ErrnoComesBack
  <2>4. result = error_std_errno(errno)
    BY <2>1, <2>2, MacroIsEncode
  <2>5. /\ error_severity(result) = Low(ERROR_STD_SEVERITY, bits_severity)
        /\ error_facility(result) = Low(ERROR_STD_FACILITY, bits_facility)
    BY <2>1, <2>2, ErrnoComesBack
  <2> QED BY <2>3, <2>4, <2>5 DEF FailureCarriesErrno
<1>2. IInv => FailureCarriesErrno
  BY <1>1 DEF FailureCarriesErrno
<1> QED BY <1>2, Invariance, PTL

\* Setting a field of any result that a call returns leaves its other fields.
THEOREM ResultFieldsApart == Spec => []FieldsAreApart
<1>1. ASSUME IInv PROVE FieldsAreApart
  <2>1. result \in Int
    <3>1. \A errno \in Errnos \cup {ENOMEM, EINVAL} : ERRORS_STD_ERRNO(errno) \in Int
      BY FailsType, NeverOk
    <3> QED BY <1>1, <3>1 DEF IInv, Typed, Failures, ok
  <2>2. -2 ^ off_reserved .. 2 ^ off_reserved \subseteq Int
    BY Powers
  <2> QED BY <2>1, <2>2, SettersStayApart DEF FieldsAreApart
<1> QED BY <1>1, Invariance, PTL

----------------------------------------------------------------------------
(* Reading links: what str_readlink, str_realpath and str_getexe_pid return,  *)
(* for links of any lengths that change at any time.                          *)

Functions == {"str_readlink", "str_realpath", "str_getexe_pid"}

\* The file has been seen to be what it is.
FileSeen == file \in Files /\ TextOf(file) \subseteq seen /\ seen \subseteq Text

\* The buffer has room for a number of characters, and is not enlarged beyond
\* twice the longest link.
SizeType == size \in Nat /\ (size = FirstSize \/ size <= 2 * Length[LongestText])

\* Until a function returns nothing has failed, unless it goes on with the path
\* left empty, and the caller's string is as it was.
LinkControl == /\ fn \in Functions /\ pc \in PCs
               /\ pc = "str_realpath" => fn = "str_realpath"
               /\ pc # "done" => target = Old
               /\ pc \notin {"done", "empty"} => result = ok /\ failed = {}
               /\ pc = "empty" => result # ok /\ failed = {"nomem"}
               /\ failed \subseteq {"nomem", "lstat", "realpath", "readlink"}
               /\ result \in 0 .. Words - 1

LinkIInv == /\ FileSeen /\ SizeType /\ LinkControl
            /\ target \in {Old} \cup [text : Text, chars : Nat]
            /\ TargetWholeOrUntouched /\ OnlyReadlinkFailsUnnoticed

----------------------------------------------------------------------------
(* What the steps have in common *)

\* The result of a system call or an allocation that fails is no ok.
LEMMA LinkFailsType ==
    ASSUME NEW errno \in {ENOENT, EINVAL, EACCES, ENOMEM}
    PROVE  ERRORS_STD_ERRNO(errno) \in 0 .. Words - 1 /\ ERRORS_STD_ERRNO(errno) # ok
<1>1. errno \in Int /\ Words \in Int
  <2>1. errno \in 1 .. 2^bits_errno - 1
    BY ReadlinkAssumption
  <2> QED BY <2>1, Powers
<1>2. ERRORS_STD_ERRNO(errno) \in 1 .. Words - 1 /\ ERRORS_STD_ERRNO(errno) # ok
  BY <1>1, NeverOk
<1> QED BY <1>1, <1>2

LEMMA OkIsWord == ok \in 0 .. Words - 1
BY Powers DEF ok

LEMMA LongestIsLongest ==
    /\ LongestText \in Text
    /\ \A t \in Text : Length[t] <= Length[LongestText] /\ Length[t] \in Nat \ {0}
BY ReadlinkAssumption DEF LongestText

\* What has been read or found is not what was there before.
LEMMA PartType ==
    ASSUME NEW t \in Text
    PROVE  /\ Part(t, Length[t]) \in [text : Text, chars : Nat]
           /\ Part(t, Length[t]) # Old
           /\ Part(t, Length[t]).text = t /\ Part(t, Length[t]).chars = Length[t]
<1>1. Length[t] \in Nat /\ Length[t] # 0
  BY LongestIsLongest
<1>2. Part(t, Length[t]).chars # Old.chars
  BY <1>1 DEF Part, Old
<1> QED BY <1>1, <1>2 DEF Part

\* A function that returns at once, with the whole of a text or with a failure.
LEMMA Returning ==
    ASSUME LinkIInv, NEW res, NEW tgt, NEW failure, Done(res, tgt, failure),
           res \in 0 .. Words - 1, failure \subseteq {"nomem", "lstat", "realpath", "readlink"},
           \/ tgt = Old /\ failure # {}
              /\ (res = ok <=> failed \cup failure \subseteq {"readlink"})
           \/ /\ failure = {} /\ failed = {} /\ res = ok
              /\ \E t \in Text : /\ tgt = Part(t, Length[t])
                                 /\ fn # "str_realpath" => t \in seen
    PROVE  LinkIInv'
<1> USE DEF LinkIInv
<1>1. /\ pc' = "done" /\ result' = res /\ target' = tgt /\ failed' = failed \cup failure
      /\ size' = size /\ file' = file /\ seen' = seen /\ fn' = fn
  BY DEF Done, Goto
<1>2. FileSeen' /\ SizeType'
  BY <1>1 DEF FileSeen, SizeType
<1>3. LinkControl'
  BY <1>1 DEF LinkControl, PCs
<1>4. CASE /\ tgt = Old /\ failure # {}
           /\ (res = ok <=> failed \cup failure \subseteq {"readlink"})
  <2>1. TargetWholeOrUntouched'
    BY <1>1, <1>4 DEF TargetWholeOrUntouched
  <2>2. OnlyReadlinkFailsUnnoticed'
    BY <1>1, <1>4, Zenon DEF OnlyReadlinkFailsUnnoticed
  <2> QED BY <1>1, <1>2, <1>3, <1>4, <2>1, <2>2
<1>5. ASSUME failure = {}, failed = {}, res = ok,
             NEW t \in Text, tgt = Part(t, Length[t]), fn # "str_realpath" => t \in seen
      PROVE  LinkIInv'
  <2>1. TargetWholeOrUntouched'
    BY <1>1, <1>5, PartType DEF TargetWholeOrUntouched
  <2>2. OnlyReadlinkFailsUnnoticed'
    BY <1>1, <1>5, PartType DEF OnlyReadlinkFailsUnnoticed
  <2> QED BY <1>1, <1>2, <1>3, <1>5, <2>1, <2>2, PartType
<1> QED BY <1>4, <1>5

\* A call that fails, as long as nothing failed unnoticed.
LEMMA Failing ==
    ASSUME LinkIInv, NEW call \in {"nomem", "lstat", "realpath"},
           NEW errno \in {ENOENT, EINVAL, EACCES, ENOMEM}, Fails(call, errno), pc # "done"
    PROVE  LinkIInv'
<1>1. target = Old
  BY DEF LinkIInv, LinkControl
<1>2. Done(ERRORS_STD_ERRNO(errno), Old, {call})
  BY <1>1 DEF Fails
<1>3. ~(failed \cup {call} \subseteq {"readlink"})
  OBVIOUS
<1>4. {call} # {} /\ {call} \subseteq {"nomem", "lstat", "realpath", "readlink"}
  OBVIOUS
<1> QED BY <1>2, <1>3, <1>4, LinkFailsType, Returning

\* str_copy_cstring of a whole text.
LEMMA Copying ==
    ASSUME LinkIInv, NEW t \in Text,
           Copy(t, Length[t]), pc \notin {"done", "empty"},
           fn # "str_realpath" => t \in seen
    PROVE  LinkIInv'
<1>1. CASE Done(ok, Part(t, Length[t]), {})
  <2>1. failed = {}
    BY DEF LinkIInv, LinkControl
  <2> QED BY <1>1, <2>1, OkIsWord, Returning
<1>2. CASE Fails("nomem", ENOMEM)
  BY <1>2, Failing
<1> QED BY <1>1, <1>2 DEF Copy

----------------------------------------------------------------------------
(* The invariant *)

LEMMA LinkInitial == LinkInit => LinkIInv
<1> SUFFICES ASSUME LinkInit PROVE LinkIInv
  OBVIOUS
<1>1. FileSeen
  <2>1. TextOf(file) \subseteq Text
    BY DEF LinkInit, TextOf, Files, Gone, Dir, Link
  <2> QED BY <2>1 DEF LinkInit, FileSeen
<1>2. SizeType
  BY LongestIsLongest DEF LinkInit, SizeType
<1>3. LinkControl
  BY OkIsWord DEF LinkInit, LinkControl, Functions, PCs
<1> QED BY <1>1, <1>2, <1>3
        DEF LinkInit, LinkIInv, TargetWholeOrUntouched, OnlyReadlinkFailsUnnoticed

\* Nothing but the next step and the result is changed.
LEMMA Continuing ==
    ASSUME LinkIInv,
           NEW next \in PCs \ {"done", "empty", "str_realpath"}, Goto(next),
           pc \notin {"done", "empty"}, result' = ok, UNCHANGED <<target, failed>>, SizeType'
    PROVE  LinkIInv'
<1> USE DEF LinkIInv
<1>1. /\ pc' = next /\ result' = ok /\ target' = target /\ target = Old
      /\ failed' = failed /\ failed = {}
      /\ file' = file /\ seen' = seen /\ fn' = fn
  BY DEF Goto, LinkControl
<1>2. FileSeen'
  BY <1>1 DEF FileSeen
<1>3. LinkControl'
  BY <1>1, OkIsWord DEF LinkControl
<1> QED BY <1>1, <1>2, <1>3 DEF TargetWholeOrUntouched, OnlyReadlinkFailsUnnoticed

LEMMA LinkSteps == LinkIInv /\ [LinkNext]_linkVars => LinkIInv'
<1> SUFFICES ASSUME LinkIInv, [LinkNext]_linkVars PROVE LinkIInv'
  OBVIOUS
<1> USE DEF LinkIInv
<1>1. CASE UNCHANGED linkVars
  BY <1>1 DEF linkVars, progVars, FileSeen, SizeType, LinkControl, TargetWholeOrUntouched,
       OnlyReadlinkFailsUnnoticed
<1>2. CASE Change
  <2>1. /\ file' \in Files /\ seen' = seen \cup TextOf(file')
        /\ fn' = fn /\ pc' = pc /\ size' = size /\ result' = result /\ target' = target
        /\ failed' = failed
    BY <1>2 DEF Change, progVars
  <2>2. TextOf(file') \subseteq Text
    BY <2>1 DEF TextOf, Files, Gone, Dir, Link
  <2>3. FileSeen'
    BY <2>1, <2>2 DEF FileSeen, TextOf
  <2>4. SizeType' /\ LinkControl' /\ OnlyReadlinkFailsUnnoticed'
    BY <2>1 DEF SizeType, LinkControl, OnlyReadlinkFailsUnnoticed
  <2>5. TargetWholeOrUntouched'
    BY <2>1 DEF TargetWholeOrUntouched
  <2> QED BY <2>1, <2>3, <2>4, <2>5
<1>3. CASE Realpath
  <2>1. pc \notin {"done", "empty"} /\ fn = "str_realpath"
    BY <1>3 DEF Realpath, LinkControl
  <2> QED BY <1>3, <2>1, Copying, Failing DEF Realpath
<1>4. CASE Getexe
  <2>1. pc \notin {"done", "empty"} /\ result = ok
    BY <1>4 DEF Getexe, LinkControl
  <2>2. CASE Goto("path") /\ UNCHANGED <<size, result, target, failed>>
    <3>1. SizeType'
      BY <2>2 DEF SizeType
    <3> QED BY <2>1, <2>2, <3>1, Continuing DEF PCs
  <2> QED BY <1>4, <2>1, <2>2, Failing DEF Getexe
<1>5. CASE GetexePath
  <2>1. pc = "path" /\ result = ok /\ target = Old
    BY <1>5 DEF GetexePath, LinkControl
  <2>2. CASE Goto("str_readlink") /\ UNCHANGED <<size, result, target, failed>>
    <3>1. SizeType'
      BY <2>2 DEF SizeType
    <3> QED BY <2>1, <2>2, <3>1, Continuing DEF PCs
  <2>3. CASE /\ Goto("empty") /\ result' = ERRORS_STD_ERRNO(ENOMEM) /\ failed' = {"nomem"}
             /\ UNCHANGED <<size, target>>
    <3>1. FileSeen' /\ SizeType'
      BY <2>3 DEF FileSeen, SizeType, Goto
    <3>2. LinkControl'
      BY <2>1, <2>3, LinkFailsType DEF LinkControl, PCs, Goto
    <3>3. TargetWholeOrUntouched' /\ OnlyReadlinkFailsUnnoticed'
      BY <2>1, <2>3 DEF TargetWholeOrUntouched, OnlyReadlinkFailsUnnoticed, Goto, Old
    <3> QED BY <2>3, <3>1, <3>2, <3>3
  <2> QED BY <1>5, <2>2, <2>3 DEF GetexePath
<1>6. CASE LstatEmpty
  BY <1>6, Failing DEF LstatEmpty
<1>7. CASE Lstat
  <2>1. pc = "str_readlink" /\ result = ok
    BY <1>7 DEF Lstat, LinkControl
  <2>2. CASE /\ file.kind = "link"
             /\ size' = IF file.st_size = 0 THEN FirstSize ELSE file.st_size
             /\ Goto("reallocate")
             /\ UNCHANGED <<result, target, failed>>
    <3>1. PICK t \in Text : file.st_size \in {0, Length[t]}
      BY <2>2 DEF FileSeen, Files, Gone, Dir, Link
    <3>2. SizeType'
      BY <2>2, <3>1, LongestIsLongest, ReadlinkAssumption DEF SizeType
    <3> QED BY <2>1, <2>2, <3>2, Continuing DEF PCs
  <2> QED BY <1>7, <2>1, <2>2, Failing DEF Lstat
<1>8. CASE Reallocate
  <2>1. pc = "reallocate"
    BY <1>8 DEF Reallocate
  <2>2. CASE result' = ok /\ Goto("readlink") /\ UNCHANGED <<size, target, failed>>
    <3>1. SizeType'
      BY <2>2 DEF SizeType
    <3> QED BY <2>1, <2>2, <3>1, Continuing DEF PCs
  <2> QED BY <1>8, <2>1, <2>2, Failing DEF Reallocate
<1>9. CASE ReadlinkCall
  <2>1. pc = "readlink" /\ result = ok /\ target = Old /\ failed = {}
    BY <1>9 DEF ReadlinkCall, LinkControl
  <2>2. ASSUME file.kind = "link" PROVE file.text \in Text /\ file.text \in seen
    BY <2>2 DEF FileSeen, TextOf
  <2> DEFINE nr == Min2(Length[file.text], size + 1)
  <2>3. CASE file.kind = "link" /\ WholeRead(nr) /\ Copy(file.text, nr)
    <3>1. Length[file.text] \in Nat /\ size \in Nat
      BY <2>2, <2>3, LongestIsLongest DEF SizeType
    <3>2. nr = Length[file.text]
      BY <2>3, <3>1 DEF WholeRead, Min2
    <3> QED BY <2>1, <2>2, <2>3, <3>2, Copying
  <2>4. CASE file.kind = "link" /\ ~WholeRead(nr) /\ Enlarge
    <3>1. /\ Length[file.text] \in Nat /\ size \in Nat /\ Length[LongestText] \in Nat
          /\ Length[file.text] <= Length[LongestText]
      BY <2>2, <2>4, LongestIsLongest DEF SizeType
    <3>2. size + 1 <= Length[file.text]
      BY <2>4, <3>1 DEF WholeRead, Min2
    <3>3. SizeType'
      BY <2>4, <3>1, <3>2 DEF SizeType, Enlarge
    <3> QED BY <2>1, <2>4, <3>3, Continuing DEF Enlarge, PCs
  <2>5. CASE ReadlinkFails
    <3>1. Done(ok, Old, {"readlink"})
      BY <2>1, <2>5 DEF ReadlinkFails
    <3>2. failed \cup {"readlink"} \subseteq {"readlink"} /\ {"readlink"} # {}
      BY <2>1
    <3> QED BY <3>1, <3>2, OkIsWord, Returning
  <2> QED BY <1>9, <2>3, <2>4, <2>5 DEF ReadlinkCall
<1> QED BY <1>1, <1>2, <1>3, <1>4, <1>5, <1>6, <1>7, <1>8, <1>9 DEF LinkNext, Step

\* The invariant holds of every reachable state.
THEOREM LinkInvariance == LinkSpec => []LinkIInv
BY LinkInitial, LinkSteps, PTL DEF LinkSpec

----------------------------------------------------------------------------
(* Theorems *)

\* The buffer of str_readlink is at most twice as large as the longest link,
\* unless it is that of the first read, and a result is a word.
THEOREM TypeCorrect == LinkSpec => []LinkTypeOK
<1>1. LinkIInv => LinkTypeOK
  BY LongestIsLongest DEF LinkIInv, FileSeen, SizeType, LinkControl, LinkTypeOK
<1> QED BY <1>1, LinkInvariance, PTL

\* However the file changes between lstat, the reads and the doublings of the
\* buffer, the caller gets the whole of what the link was at some time during
\* the call, or nothing (nr < size+1).
THEOREM WholeTarget == LinkSpec => []TargetWholeOrUntouched
<1>1. LinkIInv => TargetWholeOrUntouched
  BY DEF LinkIInv
<1> QED BY <1>1, LinkInvariance, PTL

\* The caller is told of every failure but that of readlink itself, and its
\* string is written just if nothing failed.
THEOREM FailuresTold == LinkSpec => []OnlyReadlinkFailsUnnoticed
<1>1. LinkIInv => OnlyReadlinkFailsUnnoticed
  BY DEF LinkIInv
<1> QED BY <1>1, LinkInvariance, PTL
=============================================================================
