---------------------------- MODULE Vector_proofs ----------------------------
(* Calls of the functions of charvec.c and pointervec.c on any vectors, for   *)
(* any elements, memory that malloc adds, size policy and bound on lengths.   *)
(* Last the sizes of blocks in bytes (Growth), for any requests.              *)
EXTENDS Vector, Growth, VectorOps_proofs

\* A vector of elements of type t, as the calls leave one.  One of pointers has
\* no more in use than its size; one of characters may, since append_n does not
\* make it larger when it must.
Fine(v, t) == /\ IsVector(v) /\ v.of = t
              /\ v.used <= MaxUsed
              /\ v.size \in Sizes
              /\ t = "pointer" => v.used <= v.size

\* The inductive invariant.
IInv == /\ type \in Type
        /\ lost \in BOOLEAN
        /\ vec = [h \in Handles |-> vec[h]]
        /\ \A h \in Handles : vec[h] # NULL => Fine(vec[h], type)

----------------------------------------------------------------------------
(* One call *)

\* An outcome of a call on v, which is a vector or NULL: v becomes a vector with
\* the elements seq, or is as it was, or memory outside a block is accessed.
Legal(o, v, t, seq, fails, overrun) ==
    \/ o.ret \in fails /\ o.vec = v
    \/ o.ret = "ok" /\ Fine(o.vec, t) /\ Contents(o.vec) = seq
    \/ o = Outcome("ok", LOST) /\ overrun

Called(fn, h, args, ret) == call' = [fn |-> fn, on |-> h, args |-> args, ret |-> ret]

\* What the call fn has done to the vector h.
Effect(fn, h, args, seq, fails, overrun) ==
    /\ type' = type
    /\ \/ /\ lost' = TRUE /\ vec' = vec /\ overrun
          /\ Called(fn, h, args, "ok")
       \/ /\ lost' = lost /\ vec' = vec
          /\ \E ret \in fails : Called(fn, h, args, ret)
       \/ /\ lost' = lost
          /\ \E u : Fine(u, type) /\ Contents(u) = seq /\ vec' = [vec EXCEPT ![h] = u]
          /\ Called(fn, h, args, "ok")

\* NULL and LOST are no vectors, and NULL is no sequence.
LEMMA FineIsVector == ASSUME NEW u, NEW t, Fine(u, t)
                      PROVE  u # NULL /\ u # LOST /\ Contents(u) # NULL /\ Len(Contents(u)) = u.used
<1>1. u \in VectorsOf(u.size) /\ u.size \in Sizes /\ IsVector(u)
  BY DEF Fine, IsVector
<1>2. u # NULL /\ u # LOST
  BY <1>1, MaxUsedAssumption
<1>3. Contents(u) \in Seq(Val) /\ Len(Contents(u)) = u.used
  BY <1>1, ContentsType
<1> QED
  BY <1>2, <1>3, MaxUsedAssumption

\* A legal request leads to one of the sizes.
LEMMA BecomesFine ==
    ASSUME NEW v, NEW t, Fine(v, t), NEW request \in 0 .. MaxUsed, NEW seq, Len(seq) <= MaxUsed,
           NEW u, Became(u, v, request, seq)
    PROVE  Fine(u, t) /\ Contents(u) = seq
BY DEF Fine, Became, Sizes

\* An empty vector is one of those.
LEMMA EmptyFine == ASSUME NEW t \in Type PROVE Fine(Empty(t), t)
BY EmptyVector, MaxUsedAssumption DEF Fine, Sizes

\* Legal outcomes have an effect, on a vector that exists.
LEMMA ReturnsEffect ==
    ASSUME IInv, NEW fn, NEW h \in Handles, NEW args, NEW outcomes, NEW seq, NEW fails, NEW overrun,
           Returns(fn, h, args, outcomes),
           \A o \in outcomes : Legal(o, vec[h], type, seq, fails, overrun)
    PROVE  Effect(fn, h, args, seq, fails, overrun)
<1>1. PICK o \in outcomes :
         /\ call' = [fn |-> fn, on |-> h, args |-> args, ret |-> o.ret]
         /\ \/ o.vec = LOST /\ lost' = TRUE /\ UNCHANGED vec
            \/ o.vec # LOST /\ vec' = [vec EXCEPT ![h] = o.vec] /\ UNCHANGED lost
         /\ UNCHANGED type
  BY DEF Returns
<1>2. vec[h] # LOST
  <2>1. CASE vec[h] = NULL
    BY <2>1, VectorAssumption
  <2>2. CASE vec[h] # NULL
    BY <2>2, FineIsVector DEF IInv
  <2> QED BY <2>1, <2>2
<1>3. CASE o.ret \in fails /\ o.vec = vec[h]
  <2>1. vec' = vec
    BY <1>1, <1>2, <1>3 DEF IInv
  <2> QED
    BY <1>1, <1>2, <1>3, <2>1 DEF Effect, Called
<1>4. CASE o.ret = "ok" /\ Fine(o.vec, type) /\ Contents(o.vec) = seq
  <2>1. o.vec # LOST
    BY <1>4, FineIsVector
  <2> QED
    BY <1>1, <1>4, <2>1 DEF Effect, Called
<1>5. CASE o = Outcome("ok", LOST) /\ overrun
  <2>1. o.vec = LOST /\ o.ret = "ok"
    BY <1>5 DEF Outcome
  <2> QED
    BY <1>1, <1>5, <2>1 DEF Effect, Called
<1> QED
  BY <1>3, <1>4, <1>5 DEF Legal

\* The outcomes of functions that may need memory are legal.
LEMMA DoesLegal ==
    ASSUME NEW v, NEW t, Fine(v, t), NEW request \in 0 .. MaxUsed, NEW seq, Len(seq) <= MaxUsed,
           NEW overrun, NEW o, Does(o, v, request, seq, overrun)
    PROVE  Legal(o, v, t, seq, {"ENOMEM"}, overrun)
<1>1. CASE o = Outcome("ENOMEM", v)
  BY <1>1 DEF Legal, Outcome
<1>2. CASE o.ret = "ok" /\ Became(o.vec, v, request, seq)
  BY <1>2, BecomesFine DEF Legal
<1>3. CASE o = Outcome("ok", LOST) /\ overrun
  BY <1>3 DEF Legal
<1> QED
  BY <1>1, <1>2, <1>3 DEF Does

\* So are those of functions that do not, for an element in use.
LEMMA InPlaceLegal ==
    ASSUME NEW v, NEW t, Fine(v, t), NEW seq, Len(seq) <= MaxUsed,
           NEW o, DoesInPlace(o, v, seq), o.ret = "ok"
    PROVE  Legal(o, v, t, seq, {}, FALSE)
<1>1. o.ret = "ok" /\ Became(o.vec, v, 0, seq)
  BY DEF DoesInPlace, Outcome
<1>2. 0 \in 0 .. MaxUsed
  BY MaxUsedAssumption, PolicySizeAssumption
<1>3. Fine(o.vec, t) /\ Contents(o.vec) = seq
  BY <1>1, <1>2, BecomesFine
<1> QED
  BY <1>1, <1>3 DEF Legal

\* The call fn of the vector h has failed for its index.
Refused(fn, h, args, ret) == type' = type /\ lost' = lost /\ vec' = vec /\ Called(fn, h, args, ret)

\* A function that fails for its index does nothing else.
LEMMA ReturnsRefused ==
    ASSUME IInv, NEW fn, NEW h \in Live, NEW args, NEW outcomes, NEW ret,
           Returns(fn, h, args, outcomes), \A o \in outcomes : o = Outcome(ret, vec[h])
    PROVE  Refused(fn, h, args, ret)
<1>1. PICK o \in outcomes :
         /\ call' = [fn |-> fn, on |-> h, args |-> args, ret |-> o.ret]
         /\ \/ o.vec = LOST /\ lost' = TRUE /\ UNCHANGED vec
            \/ o.vec # LOST /\ vec' = [vec EXCEPT ![h] = o.vec] /\ UNCHANGED lost
         /\ UNCHANGED type
  BY DEF Returns
<1>2. vec[h] # LOST
  BY FineIsVector DEF IInv, Live
<1>3. o.vec = vec[h] /\ o.ret = ret
  BY DEF Outcome
<1>4. vec' = vec /\ lost' = lost
  BY <1>1, <1>2, <1>3 DEF IInv, Live
<1> QED
  BY <1>1, <1>3, <1>4 DEF Refused, Called

----------------------------------------------------------------------------
(* The calls *)

\* What is known of a vector that is used.
LEMMA LiveFine == ASSUME IInv, NEW h \in Live
                  PROVE  /\ h \in Handles /\ Fine(vec[h], type) /\ IsVector(vec[h])
                         /\ vec[h].used \in 0 .. MaxUsed /\ vec[h].size \in Nat /\ vec[h].of = type
                         /\ Contents(vec[h]) \in Seq(Val) /\ Len(Contents(vec[h])) = vec[h].used
<1>1. h \in Handles /\ Fine(vec[h], type) /\ IsVector(vec[h])
  BY DEF IInv, Live, Fine
<1>2. vec[h].used \in Nat /\ vec[h].size \in Nat
  BY <1>1, VectorParts, UsableType
<1> QED
  BY <1>1, <1>2, ContentsType, MaxUsedAssumption DEF Fine

\* Create makes an empty vector.
LEMMA CreateEffect ==
    ASSUME IInv, NEW h \in Handles, NEW n \in Index, CallCreate(h, n)
    PROVE  Effect("Create", h, <<n>>, <<>>, {"ENOMEM"}, FALSE)
<1>1. n \in 0 .. WordSize - 1 /\ n \in 0 .. MaxUsed /\ type \in Type /\ vec[h] = NULL
  BY MaxUsedAssumption, PolicySizeAssumption DEF Index, IInv, CallCreate
<1>2. ASSUME NEW o \in Create(type, n) PROVE Legal(o, vec[h], type, <<>>, {"ENOMEM"}, FALSE)
  <2>1. CASE o = Outcome("ENOMEM", NULL)
    BY <1>1, <2>1 DEF Legal, Outcome
  <2>2. CASE o.ret = "ok" /\ Became(o.vec, Empty(type), n, <<>>)
    <3>1. Fine(Empty(type), type) /\ Len(<<>>) <= MaxUsed
      BY <1>1, EmptyFine, MaxUsedAssumption
    <3>2. Fine(o.vec, type) /\ Contents(o.vec) = <<>>
      BY <1>1, <2>2, <3>1, BecomesFine
    <3> QED BY <2>2, <3>2 DEF Legal
  <2> QED BY <1>1, <2>1, <2>2, CreateDoes
<1> QED
  BY <1>2, ReturnsEffect DEF CallCreate

\* Creating a vector from elements.
LEMMA CreateFromLegal ==
    ASSUME NEW t \in Type, NEW xs \in Seq(Val), Len(xs) <= MaxUsed, NEW o \in CreateFrom(t, xs)
    PROVE  Legal(o, NULL, t, xs, {"ENOMEM"}, FALSE)
<1>1. Len(xs) \in 0 .. MaxUsed /\ Len(xs) < WordSize
  BY LenProperties, MaxUsedAssumption, PolicySizeAssumption
<1>2. CASE o = Outcome("ENOMEM", NULL)
  BY <1>2 DEF Legal, Outcome
<1>3. CASE o.ret = "ok" /\ Became(o.vec, Empty(t), Len(xs), xs)
  <2>1. Fine(Empty(t), t)
    BY EmptyFine
  <2>2. Fine(o.vec, t) /\ Contents(o.vec) = xs
    BY <1>1, <1>3, <2>1, BecomesFine
  <2> QED BY <1>3, <2>2 DEF Legal
<1> QED
  BY <1>1, <1>2, <1>3, CreateFromDoes

\* Copying elements to a vector.
LEMMA CopyFromLegal ==
    ASSUME NEW v, NEW t, Fine(v, t), NEW xs \in Seq(Val), Len(xs) <= MaxUsed, NEW o \in CopyFrom(v, xs)
    PROVE  Legal(o, v, t, xs, {"ENOMEM"}, FALSE)
<1>1. Len(xs) \in 0 .. MaxUsed /\ Len(xs) < WordSize
  BY LenProperties, MaxUsedAssumption, PolicySizeAssumption
<1>2. Does(o, v, Len(xs), xs, FALSE)
  BY <1>1, CopyFromDoes DEF Fine
<1> QED
  BY <1>1, <1>2, DoesLegal

\* Arrays of the program are no longer than vectors.
LEMMA OutsideType == ASSUME NEW xs \in Outside
                     PROVE  xs \in Seq(Val) /\ Len(xs) <= MaxUsed
<1>1. PICK n \in 0 .. 2 : xs \in [1 .. n -> Val]
  BY DEF Outside
<1>2. xs \in Seq(Val) /\ Len(xs) = n
  BY <1>1
<1> QED
  BY <1>2, MaxUsedAssumption

\* Creating a vector from an array, or copying one to it.
LEMMA ArrayEffect ==
    ASSUME IInv, NEW h \in Handles, NEW xs \in Outside, CallCreateFrom(h, xs) \/ CallCopyFrom(h, xs)
    PROVE  Effect("copy_from", h, <<xs>>, xs, {"ENOMEM"}, FALSE)
<1>1. xs \in Seq(Val) /\ Len(xs) <= MaxUsed /\ type \in Type
  BY OutsideType DEF IInv
<1>2. CASE CallCreateFrom(h, xs)
  <2>1. vec[h] = NULL /\ Returns("copy_from", h, <<xs>>, CreateFrom(type, xs))
    BY <1>2 DEF CallCreateFrom
  <2>2. \A o \in CreateFrom(type, xs) : Legal(o, vec[h], type, xs, {"ENOMEM"}, FALSE)
    BY <1>1, <2>1, CreateFromLegal
  <2> QED BY <2>1, <2>2, ReturnsEffect
<1>3. CASE CallCopyFrom(h, xs)
  <2>1. h \in Live /\ Returns("copy_from", h, <<xs>>, CopyFrom(vec[h], xs))
    BY <1>3 DEF CallCopyFrom
  <2>2. \A o \in CopyFrom(vec[h], xs) : Legal(o, vec[h], type, xs, {"ENOMEM"}, FALSE)
    BY <1>1, <2>1, LiveFine, CopyFromLegal
  <2> QED BY <2>1, <2>2, ReturnsEffect
<1> QED
  BY <1>2, <1>3

\* Copying a vector to a new one or to one that exists.
LEMMA CopyEffect ==
    ASSUME IInv, NEW h \in Handles, NEW g \in Handles, CallCopy(h, g)
    PROVE  Effect("copy", h, <<g>>, Contents(vec[g]), {"ENOMEM"}, FALSE)
<1> DEFINE xs == Contents(vec[g])
<1>1. g \in Live /\ Returns("copy", h, <<g>>, Copy(vec[h], vec[g])) /\ type \in Type
  BY DEF CallCopy, IInv
<1>2. xs \in Seq(Val) /\ Len(xs) <= MaxUsed /\ vec[g].of = type
  BY <1>1, LiveFine, MaxUsedAssumption
<1>3. ASSUME NEW o \in Copy(vec[h], vec[g]) PROVE Legal(o, vec[h], type, xs, {"ENOMEM"}, FALSE)
  <2>1. CASE vec[h] = NULL
    <3>1. o \in CreateFrom(type, xs)
      BY <1>2, <1>3, <2>1 DEF Copy
    <3> HIDE DEF xs
    <3> QED BY <1>1, <1>2, <2>1, <3>1, CreateFromLegal
  <2>2. CASE vec[h] # NULL
    <3>1. o \in CopyFrom(vec[h], xs) /\ Fine(vec[h], type)
      BY <1>3, <2>2 DEF Copy, IInv
    <3> HIDE DEF xs
    <3> QED BY <1>2, <3>1, CopyFromLegal
  <2> QED BY <2>1, <2>2
<1> QED
  BY <1>1, <1>3, ReturnsEffect

\* Copying a part of a vector, maybe to itself.
LEMMA SliceEffect ==
    ASSUME IInv, NEW h \in Handles, NEW g \in Handles, NEW start \in Index, NEW len \in Lengths,
           CallSlice(h, g, start, len)
    PROVE  \/ /\ start < vec[g].used
              /\ Effect("slice", h, <<g, start, len>>, Sliced(Contents(vec[g]), start, len), {"ENOMEM"},
                        h = g /\ Overfull(vec[h]))
           \/ /\ start >= vec[g].used
              /\ Refused("slice", h, <<g, start, len>>, "ERANGE")
<1> DEFINE xs == Sliced(Contents(vec[g]), start, len)
           overrun == h = g /\ vec[h].used > vec[h].size
<1>1. h \in Live /\ g \in Live /\ Returns("slice", h, <<g, start, len>>, Slice(vec[h], vec[g], start, len, h = g))
  BY DEF CallSlice
<1>2. /\ IsVector(vec[h]) /\ Fine(vec[h], type) /\ IsVector(vec[g])
      /\ vec[g].used \in 0 .. MaxUsed
      /\ Contents(vec[g]) \in Seq(Val)
  BY <1>1, LiveFine
<1>3. start \in Nat /\ len \in Nat /\ vec[g].used \in Nat /\ vec[g].used < WordSize
  BY <1>2, MaxUsedAssumption, PolicySizeAssumption DEF Index, Lengths
<1>4. \A o \in Slice(vec[h], vec[g], start, len, h = g) :
         /\ start >= vec[g].used => o = Outcome("ERANGE", vec[h])
         /\ start < vec[g].used => Does(o, vec[h], Len(xs), xs, overrun)
         /\ Len(xs) <= vec[g].used
  <2>1. (h = g) \in BOOLEAN /\ (h = g => vec[g] = vec[h])
    OBVIOUS
  <2> QED BY <1>2, <1>3, <2>1, SliceDoes
<1>5. xs \in Seq(Val) /\ Len(xs) \in Nat
  BY <1>2, <1>3, SlicedType, LenProperties
<1> HIDE DEF xs, overrun
<1>6. CASE start < vec[g].used
  <2>1. ASSUME NEW o \in Slice(vec[h], vec[g], start, len, h = g)
        PROVE  Legal(o, vec[h], type, xs, {"ENOMEM"}, overrun)
    <3>1. Len(xs) \in 0 .. MaxUsed /\ Len(xs) <= MaxUsed
      BY <1>2, <1>4, <1>5, MaxUsedAssumption
    <3>2. Does(o, vec[h], Len(xs), xs, overrun)
      BY <1>4, <1>6
    <3> QED BY <1>2, <3>1, <3>2, DoesLegal
  <2>2. Effect("slice", h, <<g, start, len>>, xs, {"ENOMEM"}, overrun)
    BY <1>1, <2>1, ReturnsEffect
  <2> QED BY <1>6, <2>2 DEF xs, overrun, Overfull
<1>7. CASE start >= vec[g].used
  <2>1. \A o \in Slice(vec[h], vec[g], start, len, h = g) : o = Outcome("ERANGE", vec[h])
    BY <1>4, <1>7
  <2>2. Refused("slice", h, <<g, start, len>>, "ERANGE")
    BY <1>1, <2>1, ReturnsRefused
  <2> QED BY <1>7, <2>2
<1>8. start < vec[g].used \/ start >= vec[g].used
  BY <1>3
<1> QED
  BY <1>6, <1>7, <1>8

\* Setting an element.
LEMMA ReplaceEffect ==
    ASSUME IInv, NEW h \in Handles, NEW i \in Index, NEW x \in Val, CallReplace(h, i, x)
    PROVE  Effect("replace", h, <<i, x>>, Replaced(Contents(vec[h]), i, x), {"ENOMEM"}, FALSE)
<1> DEFINE s == Contents(vec[h])
           seq == Replaced(s, i, x)
<1>1. h \in Live /\ Returns("replace", h, <<i, x>>, Replace(vec[h], i, x))
  BY DEF CallReplace
<1>2. /\ IsVector(vec[h]) /\ Fine(vec[h], type) /\ vec[h].used \in 0 .. MaxUsed
      /\ s \in Seq(Val) /\ Len(s) = vec[h].used
  BY <1>1, LiveFine
<1>3. i \in Nat /\ i + 1 \in 0 .. MaxUsed /\ i + 1 < WordSize
  BY MaxUsedAssumption, PolicySizeAssumption DEF Index
<1>4. Len(seq) <= MaxUsed
  <2>1. Len(Replaced(s, i, x)) = (IF i < Len(s) THEN Len(s) ELSE i + 1)
    BY <1>2, <1>3, ChangedType
  <2> HIDE DEF s
  <2>2. (IF i < Len(s) THEN Len(s) ELSE i + 1) <= MaxUsed
    BY <1>2, <1>3, MaxUsedAssumption, PolicySizeAssumption
  <2> QED BY <2>1, <2>2
<1> HIDE DEF seq
<1>5. ASSUME NEW o \in Replace(vec[h], i, x) PROVE Legal(o, vec[h], type, seq, {"ENOMEM"}, FALSE)
  <2>1. Does(o, vec[h], i + 1, seq, FALSE)
    BY <1>2, <1>3, ReplaceDoes DEF seq
  <2> QED BY <1>2, <1>3, <1>4, <2>1, DoesLegal
<1> QED
  BY <1>1, <1>5, ReturnsEffect DEF seq

\* Inserting an element.
LEMMA InsertEffect ==
    ASSUME IInv, NEW h \in Handles, NEW i \in Index, NEW x \in Val, CallInsert(h, i, x)
    PROVE  Effect("insert", h, <<i, x>>, Inserted(Contents(vec[h]), i, x), {"ENOMEM"},
                  i = 0 \/ Overfull(vec[h]))
<1> DEFINE s == Contents(vec[h])
           seq == Inserted(s, i, x)
           overrun == i = 0 \/ vec[h].used > vec[h].size
<1>1. h \in Live /\ vec[h].used < MaxUsed /\ Returns("insert", h, <<i, x>>, Insert(vec[h], i, x))
  BY DEF CallInsert
<1>2. /\ IsVector(vec[h]) /\ Fine(vec[h], type) /\ vec[h].used \in 0 .. MaxUsed
      /\ s \in Seq(Val) /\ Len(s) = vec[h].used
  BY <1>1, LiveFine
<1>3. /\ i \in Nat /\ i + 1 \in 0 .. MaxUsed /\ i + 1 < WordSize
      /\ vec[h].used + 1 \in 0 .. MaxUsed /\ vec[h].used + 1 < WordSize
  BY <1>1, <1>2, MaxUsedAssumption, PolicySizeAssumption DEF Index
<1>4. Len(seq) <= MaxUsed
  <2>1. Len(Inserted(s, i, x)) = (IF i < Len(s) THEN Len(s) + 1 ELSE i + 1)
    BY <1>2, <1>3, ChangedType
  <2> HIDE DEF s
  <2>2. (IF i < Len(s) THEN Len(s) + 1 ELSE i + 1) <= MaxUsed
    BY <1>1, <1>2, <1>3, MaxUsedAssumption, PolicySizeAssumption
  <2> QED BY <2>1, <2>2
<1> HIDE DEF seq
<1>5. ASSUME NEW o \in Insert(vec[h], i, x) PROVE Legal(o, vec[h], type, seq, {"ENOMEM"}, overrun)
  <2>1. PICK request \in {i + 1, vec[h].used + 1} : Does(o, vec[h], request, seq, overrun)
    BY <1>2, <1>3, InsertDoes DEF seq
  <2>2. request \in 0 .. MaxUsed
    BY <1>3
  <2> QED BY <1>2, <1>4, <2>1, <2>2, DoesLegal
<1>6. Effect("insert", h, <<i, x>>, seq, {"ENOMEM"}, overrun)
  <2> HIDE DEF overrun
  <2> QED BY <1>1, <1>5, ReturnsEffect
<1> QED
  BY <1>6 DEF seq, Overfull

\* Appending an element.
LEMMA AppendEffect ==
    ASSUME IInv, NEW h \in Handles, NEW x \in Val, CallAppend(h, x)
    PROVE  Effect("append", h, <<x>>, Contents(vec[h]) \o <<x>>, {"ENOMEM"},
                  vec[h].used >= vec[h].size /\ ~AppendGrows(vec[h]))
<1> DEFINE s == Contents(vec[h])
           xs == <<x>>
           seq == s \o xs
           overrun == vec[h].used >= vec[h].size /\ ~AppendGrows(vec[h])
<1>1. h \in Live /\ vec[h].used < MaxUsed /\ Returns("append", h, xs, AppendOne(vec[h], x))
  BY DEF CallAppend
<1>2. /\ IsVector(vec[h]) /\ Fine(vec[h], type) /\ vec[h].used \in 0 .. MaxUsed
      /\ s \in Seq(Val) /\ Len(s) = vec[h].used
  BY <1>1, LiveFine
<1>3. vec[h].used + 1 \in 0 .. MaxUsed /\ vec[h].used + 1 < WordSize
  BY <1>1, <1>2, MaxUsedAssumption, PolicySizeAssumption
<1>4. xs \in Seq(Val) /\ Len(xs) = 1
  OBVIOUS
<1> HIDE DEF s, xs
<1>5. Len(seq) = Len(s) + Len(xs)
  BY <1>2, <1>4, ConcatProperties, Zenon
<1>6. Len(seq) <= MaxUsed
  BY <1>2, <1>3, <1>4, <1>5, MaxUsedAssumption
<1>7. ASSUME NEW o \in AppendOne(vec[h], x) PROVE Legal(o, vec[h], type, seq, {"ENOMEM"}, overrun)
  <2>1. Does(o, vec[h], vec[h].used + 1, seq, overrun)
    BY <1>2, <1>3, AppendOneDoes DEF s, xs
  <2> HIDE DEF seq, overrun
  <2> QED BY <1>2, <1>3, <1>6, <2>1, DoesLegal
<1>8. Effect("append", h, xs, seq, {"ENOMEM"}, overrun)
  <2> HIDE DEF seq, overrun
  <2> QED BY <1>1, <1>7, ReturnsEffect
<1> QED
  BY <1>8 DEF xs, s

\* Adding a vector to another or to itself.
LEMMA ConcatenateEffect ==
    ASSUME IInv, NEW h \in Handles, NEW g \in Handles, CallConcatenate(h, g)
    PROVE  Effect("concatenate", h, <<g>>, Contents(vec[h]) \o Contents(vec[g]), {"ENOMEM"},
                  h = g \/ (vec[h].used + vec[g].used > vec[h].size
                            /\ ~AppendNGrows(vec[h], vec[g].used)))
<1> DEFINE s == Contents(vec[h])
           xs == Contents(vec[g])
           seq == s \o xs
           total == vec[h].used + vec[g].used
           overrun == h = g \/ (total > vec[h].size /\ ~AppendNGrows(vec[h], vec[g].used))
<1>1. h \in Live /\ g \in Live /\ total <= MaxUsed
      /\ Returns("concatenate", h, <<g>>, Concatenate(vec[h], vec[g], h = g))
  BY DEF CallConcatenate
<1>2. /\ IsVector(vec[h]) /\ Fine(vec[h], type) /\ vec[h].used \in 0 .. MaxUsed
      /\ s \in Seq(Val) /\ Len(s) = vec[h].used
      /\ xs \in Seq(Val) /\ Len(xs) = vec[g].used /\ vec[g].used \in 0 .. MaxUsed
  BY <1>1, LiveFine
<1>3. total \in 0 .. MaxUsed /\ total < WordSize
  BY <1>1, <1>2, MaxUsedAssumption, PolicySizeAssumption
<1> HIDE DEF s, xs
<1>4. Len(seq) = Len(s) + Len(xs)
  BY <1>2, ConcatProperties, Zenon
<1>5. Len(seq) <= MaxUsed
  BY <1>1, <1>2, <1>4
<1>6. ASSUME NEW o \in Concatenate(vec[h], vec[g], h = g)
      PROVE  Legal(o, vec[h], type, seq, {"ENOMEM"}, overrun)
  <2>1. (h = g) \in BOOLEAN
    OBVIOUS
  <2>2. Does(o, vec[h], total, seq, overrun)
    BY <1>2, <1>3, <2>1, ConcatenateDoes DEF s, xs
  <2> HIDE DEF seq, overrun, total
  <2> QED BY <1>2, <1>3, <1>5, <2>2, DoesLegal
<1>7. Effect("concatenate", h, <<g>>, seq, {"ENOMEM"}, overrun)
  <2> HIDE DEF seq, overrun
  <2> QED BY <1>1, <1>6, ReturnsEffect
<1> QED
  BY <1>7 DEF xs, s

\* Taking an element out.
LEMMA RemoveEffect ==
    ASSUME IInv, NEW h \in Handles, NEW i \in Index, CallRemove(h, i)
    PROVE  \/ /\ i < vec[h].used
              /\ Effect("remove", h, <<i>>, Removed(Contents(vec[h]), i), {}, FALSE)
           \/ i >= vec[h].used /\ Refused("remove", h, <<i>>, "EDOM")
<1> DEFINE s == Contents(vec[h])
           seq == Removed(s, i)
<1>1. h \in Live /\ Returns("remove", h, <<i>>, Remove(vec[h], i))
  BY DEF CallRemove
<1>2. /\ IsVector(vec[h]) /\ Fine(vec[h], type) /\ vec[h].used \in 0 .. MaxUsed
      /\ s \in Seq(Val) /\ Len(s) = vec[h].used
  BY <1>1, LiveFine
<1>3. i \in Nat
  BY DEF Index
<1> HIDE DEF s
<1>4. CASE i < vec[h].used
  <2>1. i \in 0 .. Len(s) - 1
    BY <1>2, <1>3, <1>4
  <2>2. Len(SubSeq(s, 1, i) \o SubSeq(s, i + 2, Len(s))) = Len(s) - 1
    BY <1>2, <2>1, VectorAssumption, RemovedWritten
  <2>3. Len(seq) = Len(s) - 1
    BY <2>2 DEF Removed
  <2>4. Len(seq) <= MaxUsed
    BY <1>2, <2>3, MaxUsedAssumption, PolicySizeAssumption
  <2>5. ASSUME NEW o \in Remove(vec[h], i) PROVE Legal(o, vec[h], type, seq, {}, FALSE)
    <3>1. DoesInPlace(o, vec[h], seq) /\ o.ret = "ok"
      BY <1>2, <1>3, <1>4, RemoveDoes DEF s
    <3> HIDE DEF seq
    <3> QED BY <1>2, <2>4, <3>1, InPlaceLegal
  <2> HIDE DEF seq
  <2>6. Effect("remove", h, <<i>>, seq, {}, FALSE)
    BY <1>1, <2>5, ReturnsEffect
  <2> QED BY <1>4, <2>6 DEF seq, s
<1>5. CASE ~(i < vec[h].used)
  <2>1. \A o \in Remove(vec[h], i) : o = Outcome("EDOM", vec[h])
    BY <1>5 DEF Remove
  <2>2. Refused("remove", h, <<i>>, "EDOM")
    BY <1>1, <2>1, ReturnsRefused
  <2>3. i >= vec[h].used
    BY <1>2, <1>3, <1>5
  <2> QED BY <2>2, <2>3
<1> QED
  BY <1>4, <1>5

\* Setting an element to the default.
LEMMA ClearEffect ==
    ASSUME IInv, NEW h \in Handles, NEW i \in Index, CallClear(h, i)
    PROVE  \/ /\ i < vec[h].used
              /\ Effect("clear", h, <<i>>, [Contents(vec[h]) EXCEPT ![i + 1] = Default], {}, FALSE)
           \/ i >= vec[h].used /\ Refused("clear", h, <<i>>, "EDOM")
<1> DEFINE s == Contents(vec[h])
           seq == [s EXCEPT ![i + 1] = Default]
<1>1. h \in Live /\ Returns("clear", h, <<i>>, Clear(vec[h], i))
  BY DEF CallClear
<1>2. /\ IsVector(vec[h]) /\ Fine(vec[h], type) /\ vec[h].used \in 0 .. MaxUsed
      /\ s \in Seq(Val) /\ Len(s) = vec[h].used
  BY <1>1, LiveFine
<1>3. i \in Nat
  BY DEF Index
<1> HIDE DEF s
<1>4. CASE i < vec[h].used
  <2>1. i \in 0 .. Len(s) - 1
    BY <1>2, <1>3, <1>4
  <2>2. Len(seq) = Len(s)
    BY <1>2, <2>1, VectorAssumption, ElementWritten
  <2> HIDE DEF seq
  <2>3. Len(seq) <= MaxUsed
    BY <1>2, <2>2, MaxUsedAssumption, PolicySizeAssumption
  <2>4. ASSUME NEW o \in Clear(vec[h], i) PROVE Legal(o, vec[h], type, seq, {}, FALSE)
    <3>1. DoesInPlace(o, vec[h], seq) /\ o.ret = "ok"
      BY <1>2, <1>3, <1>4, ClearDoes DEF s, seq
    <3> QED BY <1>2, <2>3, <3>1, InPlaceLegal
  <2>5. Effect("clear", h, <<i>>, seq, {}, FALSE)
    BY <1>1, <2>4, ReturnsEffect
  <2> QED BY <1>4, <2>5 DEF seq, s
<1>5. CASE ~(i < vec[h].used)
  <2>1. \A o \in Clear(vec[h], i) : o = Outcome("EDOM", vec[h])
    BY <1>5 DEF Clear
  <2>2. Refused("clear", h, <<i>>, "EDOM")
    BY <1>1, <2>1, ReturnsRefused
  <2>3. i >= vec[h].used
    BY <1>2, <1>3, <1>5
  <2> QED BY <2>2, <2>3
<1> QED
  BY <1>4, <1>5

\* Taking the last element.
LEMMA RemoveLastEffect ==
    ASSUME IInv, NEW h \in Handles, CallRemoveLast(h)
    PROVE  \/ /\ vec[h].used > 0
              /\ Effect("remove_last", h, <<>>, SubSeq(Contents(vec[h]), 1, Len(Contents(vec[h])) - 1), {}, FALSE)
           \/ vec[h].used = 0 /\ Refused("remove_last", h, <<>>, "EDOM")
<1> DEFINE s == Contents(vec[h])
           seq == SubSeq(s, 1, Len(s) - 1)
<1>1. h \in Live /\ Returns("remove_last", h, <<>>, RemoveLast(vec[h]))
  BY DEF CallRemoveLast
<1>2. /\ IsVector(vec[h]) /\ Fine(vec[h], type) /\ vec[h].used \in 0 .. MaxUsed
      /\ s \in Seq(Val) /\ Len(s) = vec[h].used
  BY <1>1, LiveFine
<1> HIDE DEF s
<1>3. CASE vec[h].used > 0
  <2>1. Len(s) > 0
    BY <1>2, <1>3
  <2>2. Len(seq) = Len(s) - 1
    BY <1>2, <2>1, VectorAssumption, LastWritten
  <2> HIDE DEF seq
  <2>3. Len(seq) <= MaxUsed
    BY <1>2, <2>2, MaxUsedAssumption, PolicySizeAssumption
  <2>4. ASSUME NEW o \in RemoveLast(vec[h]) PROVE Legal(o, vec[h], type, seq, {}, FALSE)
    <3>1. DoesInPlace(o, vec[h], seq) /\ o.ret = "ok"
      BY <1>2, <1>3, RemoveLastDoes DEF s, seq
    <3> QED BY <1>2, <2>3, <3>1, InPlaceLegal
  <2>5. Effect("remove_last", h, <<>>, seq, {}, FALSE)
    BY <1>1, <2>4, ReturnsEffect
  <2> QED BY <1>3, <2>5 DEF seq, s
<1>4. CASE ~(vec[h].used > 0)
  <2>1. \A o \in RemoveLast(vec[h]) : o = Outcome("EDOM", vec[h])
    BY <1>4 DEF RemoveLast
  <2>2. Refused("remove_last", h, <<>>, "EDOM")
    BY <1>1, <2>1, ReturnsRefused
  <2>3. vec[h].used = 0
    BY <1>2, <1>4
  <2> QED BY <2>2, <2>3
<1> QED
  BY <1>3, <1>4

\* Deleting a vector changes nothing.
LEMMA DeleteEffect ==
    ASSUME IInv, NEW h \in Handles, CallDelete(h)
    PROVE  Refused("Delete", h, <<>>, "ok")
<1>1. h \in Live /\ Returns("Delete", h, <<>>, {Outcome("ok", vec[h])})
  BY DEF CallDelete
<1> QED
  BY <1>1, ReturnsRefused

----------------------------------------------------------------------------
(* The vectors stay vectors *)

\* An effect leaves vectors, as they should be.
LEMMA EffectInvariant ==
    ASSUME IInv, NEW h \in Handles, NEW fn, NEW args, NEW seq, NEW fails, NEW overrun, NEW ret,
           Effect(fn, h, args, seq, fails, overrun) \/ Refused(fn, h, args, ret)
    PROVE  IInv'
<1>1. CASE UNCHANGED <<type, vec>> /\ lost' \in BOOLEAN
  BY <1>1 DEF IInv, Fine
<1>2. CASE \E u : Fine(u, type) /\ vec' = [vec EXCEPT ![h] = u] /\ UNCHANGED <<type, lost>>
  <2>1. PICK u : Fine(u, type) /\ vec' = [vec EXCEPT ![h] = u] /\ UNCHANGED <<type, lost>>
    BY <1>2
  <2>2. DOMAIN vec = Handles
    BY DEF IInv
  <2>3. vec' = [g \in Handles |-> IF g = h THEN u ELSE vec[g]]
    BY <2>1, <2>2
  <2>4. vec' = [g \in Handles |-> vec'[g]]
    BY <2>3
  <2>5. ASSUME NEW g \in Handles, vec'[g] # NULL PROVE Fine(vec'[g], type')
    <3>1. vec'[g] = IF g = h THEN u ELSE vec[g]
      BY <2>3
    <3> QED BY <2>1, <2>5, <3>1 DEF IInv
  <2> QED BY <2>1, <2>4, <2>5 DEF IInv
<1> QED
  BY <1>1, <1>2 DEF Effect, Refused, IInv

\* Every call has an effect on one vector, or is refused.
LEMMA NextInvariant == ASSUME IInv, Next PROVE IInv'
<1>1. PICK h \in Handles :
              \/ \E n \in Index : CallCreate(h, n)
              \/ \E xs \in Outside : CallCreateFrom(h, xs) \/ CallCopyFrom(h, xs)
              \/ \E g \in Handles : CallCopy(h, g) \/ CallConcatenate(h, g)
              \/ \E g \in Handles : \E start \in Index, len \in Lengths : CallSlice(h, g, start, len)
              \/ \E i \in Index, x \in Val : CallReplace(h, i, x) \/ CallInsert(h, i, x)
              \/ \E i \in Index : CallRemove(h, i) \/ CallClear(h, i)
              \/ CallRemoveLast(h)
              \/ \E x \in Val : CallAppend(h, x)
              \/ CallDelete(h)
  BY DEF Next
<1>2. ASSUME NEW n \in Index, CallCreate(h, n) PROVE IInv'
  BY <1>2, CreateEffect, EffectInvariant
<1>3. ASSUME NEW xs \in Outside, CallCreateFrom(h, xs) \/ CallCopyFrom(h, xs) PROVE IInv'
  BY <1>3, ArrayEffect, EffectInvariant
<1>4. ASSUME NEW g \in Handles, CallCopy(h, g) PROVE IInv'
  BY <1>4, CopyEffect, EffectInvariant
<1>5. ASSUME NEW g \in Handles, CallConcatenate(h, g) PROVE IInv'
  <2> DEFINE seq == Contents(vec[h]) \o Contents(vec[g])
             overrun == h = g \/ (vec[h].used + vec[g].used > vec[h].size
                                 /\ ~AppendNGrows(vec[h], vec[g].used))
  <2>1. Effect("concatenate", h, <<g>>, seq, {"ENOMEM"}, overrun)
    BY <1>5, ConcatenateEffect
  <2> HIDE DEF seq, overrun
  <2> QED BY <2>1, EffectInvariant
<1>6. ASSUME NEW g \in Handles, NEW start \in Index, NEW len \in Lengths, CallSlice(h, g, start, len)
      PROVE  IInv'
  BY <1>6, SliceEffect, EffectInvariant
<1>7. ASSUME NEW i \in Index, NEW x \in Val, CallReplace(h, i, x) PROVE IInv'
  BY <1>7, ReplaceEffect, EffectInvariant
<1>8. ASSUME NEW i \in Index, NEW x \in Val, CallInsert(h, i, x) PROVE IInv'
  BY <1>8, InsertEffect, EffectInvariant
<1>9. ASSUME NEW i \in Index, CallRemove(h, i) PROVE IInv'
  BY <1>9, RemoveEffect, EffectInvariant
<1>10. ASSUME NEW i \in Index, CallClear(h, i) PROVE IInv'
  BY <1>10, ClearEffect, EffectInvariant
<1>11. CASE CallRemoveLast(h)
  BY <1>11, RemoveLastEffect, EffectInvariant
<1>12. ASSUME NEW x \in Val, CallAppend(h, x) PROVE IInv'
  BY <1>12, AppendEffect, EffectInvariant
<1>13. CASE CallDelete(h)
  BY <1>13, DeleteEffect, EffectInvariant
<1> QED
  BY <1>1, <1>2, <1>3, <1>4, <1>5, <1>6, <1>7, <1>8, <1>9, <1>10, <1>11, <1>12, <1>13

\* No program has vectors.
LEMMA InitInvariant == ASSUME Init PROVE IInv
BY DEF Init, IInv

\* However a program calls the functions, its vectors are vectors, no longer than
\* it asks for, of sizes of the policy, and none of pointers has more in use
\* than its size.
THEOREM Invariance == Spec => []IInv
<1>1. Init => IInv
  BY InitInvariant
<1>2. IInv /\ [Next]_vars => IInv'
  <2>1. ASSUME IInv, UNCHANGED vars PROVE IInv'
    BY <2>1 DEF IInv, vars, Fine
  <2> QED BY <2>1, NextInvariant
<1> QED
  BY <1>1, <1>2, PTL DEF Spec

\* Every vector has a block of the size that it believes to have, with room for
\* all that it has in use (what the functions of charvec.c and pointervec.c
\* rely on in each other).
THEOREM TypeCorrect == Spec => []TypeOK
<1>1. IInv => TypeOK
  BY DEF IInv, TypeOK, Live, Fine
<1> QED
  BY <1>1, Invariance, PTL

\* What a vector of pointers has in use lies within the size it asked malloc
\* for (pointervec_append_n).
THEOREM PointersWithinSize == Spec => []UsedWithinSize
<1>1. IInv => UsedWithinSize
  BY DEF IInv, UsedWithinSize, Live, Fine
<1> QED
  BY <1>1, Invariance, PTL

----------------------------------------------------------------------------
(* Where memory outside a block is touched *)

\* What touches memory outside a block, as LostOnly says.
Overruns(c) ==
          LET v == vec[c.on] IN
          CASE c.fn = "insert"      -> c.args[1] = 0 \/ Overfull(v)
            [] c.fn = "slice"       -> c.on = c.args[1] /\ Overfull(v)
            [] c.fn = "append"      -> v.used >= v.size /\ ~AppendGrows(v)
            [] c.fn = "concatenate" ->
                  LET n == vec[c.args[1]].used
                  IN  \/ c.on = c.args[1]
                      \/ v.used + n > v.size /\ ~AppendNGrows(v, n)
            [] OTHER                    -> FALSE

\* A call that has touched it had a reason to.
LEMMA EffectLost ==
    ASSUME NEW fn, NEW h, NEW args, NEW seq, NEW fails, NEW overrun,
           Effect(fn, h, args, seq, fails, overrun), lost' /\ ~lost
    PROVE  overrun /\ call'.fn = fn /\ call'.on = h /\ call'.args = args
<1>1. lost' # lost
  BY Zenon
<1>2. overrun /\ Called(fn, h, args, "ok")
  BY <1>1, Zenon DEF Effect
<1> QED
  BY <1>2 DEF Called

\* One that is refused has not.
LEMMA RefusedLost == ASSUME NEW fn, NEW h, NEW args, NEW ret, Refused(fn, h, args, ret)
                     PROVE  ~(lost' /\ ~lost)
BY DEF Refused

\* Memory outside a block is only touched where LostOnly says: by inserting at
\* the front, by adding a vector to itself, where a block that is too small is
\* not made larger, and by functions of a vector that, for that reason, has more
\* in use than its size.
THEOREM OverrunsOnly == Spec => LostOnly
<1>1. ASSUME IInv, Next, lost' /\ ~lost PROVE Overruns(call')
  <2>1. PICK h \in Handles :
              \/ \E n \in Index : CallCreate(h, n)
              \/ \E xs \in Outside : CallCreateFrom(h, xs) \/ CallCopyFrom(h, xs)
              \/ \E g \in Handles : CallCopy(h, g) \/ CallConcatenate(h, g)
              \/ \E g \in Handles : \E start \in Index, len \in Lengths : CallSlice(h, g, start, len)
              \/ \E i \in Index, x \in Val : CallReplace(h, i, x) \/ CallInsert(h, i, x)
              \/ \E i \in Index : CallRemove(h, i) \/ CallClear(h, i)
              \/ CallRemoveLast(h)
              \/ \E x \in Val : CallAppend(h, x)
              \/ CallDelete(h)
    BY <1>1 DEF Next
  <2>2. ASSUME NEW n \in Index, CallCreate(h, n) PROVE FALSE
    BY <1>1, <2>2, CreateEffect, EffectLost
  <2>3. ASSUME NEW xs \in Outside, CallCreateFrom(h, xs) \/ CallCopyFrom(h, xs) PROVE FALSE
    BY <1>1, <2>3, ArrayEffect, EffectLost
  <2>4. ASSUME NEW g \in Handles, CallCopy(h, g) PROVE FALSE
    BY <1>1, <2>4, CopyEffect, EffectLost
  <2>5. ASSUME NEW g \in Handles, CallConcatenate(h, g) PROVE Overruns(call')
    <3> DEFINE overrun == h = g \/ (vec[h].used + vec[g].used > vec[h].size
                                     /\ ~AppendNGrows(vec[h], vec[g].used))
    <3>1. Effect("concatenate", h, <<g>>, Contents(vec[h]) \o Contents(vec[g]), {"ENOMEM"}, overrun)
      BY <1>1, <2>5, ConcatenateEffect
    <3> HIDE DEF overrun
    <3>2. overrun /\ call'.fn = "concatenate" /\ call'.on = h /\ call'.args = <<g>>
      BY <1>1, <3>1, EffectLost
    <3> QED BY <3>2 DEF Overruns, overrun
  <2>6. ASSUME NEW g \in Handles, NEW start \in Index, NEW len \in Lengths, CallSlice(h, g, start, len)
        PROVE  Overruns(call')
    <3>1. Effect("slice", h, <<g, start, len>>, Sliced(Contents(vec[g]), start, len), {"ENOMEM"},
                        h = g /\ Overfull(vec[h]))
      BY <1>1, <2>6, SliceEffect, RefusedLost
    <3>2. h = g /\ Overfull(vec[h])
      BY <1>1, <3>1, EffectLost
    <3>3. call'.fn = "slice" /\ call'.on = h /\ call'.args = <<g, start, len>>
      BY <1>1, <3>1, EffectLost
    <3> QED BY <3>2, <3>3 DEF Overruns
  <2>7. ASSUME NEW i \in Index, NEW x \in Val, CallReplace(h, i, x) PROVE FALSE
    BY <1>1, <2>7, ReplaceEffect, EffectLost
  <2>8. ASSUME NEW i \in Index, NEW x \in Val, CallInsert(h, i, x) PROVE Overruns(call')
    <3> DEFINE overrun == i = 0 \/ Overfull(vec[h])
    <3>1. Effect("insert", h, <<i, x>>, Inserted(Contents(vec[h]), i, x), {"ENOMEM"}, overrun)
      BY <1>1, <2>8, InsertEffect
    <3> HIDE DEF overrun
    <3>2. overrun /\ call'.fn = "insert" /\ call'.on = h /\ call'.args = <<i, x>>
      BY <1>1, <3>1, EffectLost
    <3> QED BY <3>2 DEF Overruns, overrun
  <2>9. ASSUME NEW i \in Index, CallRemove(h, i) PROVE FALSE
    BY <1>1, <2>9, RemoveEffect, EffectLost, RefusedLost
  <2>10. ASSUME NEW i \in Index, CallClear(h, i) PROVE FALSE
    BY <1>1, <2>10, ClearEffect, EffectLost, RefusedLost
  <2>11. CASE CallRemoveLast(h)
    BY <1>1, <2>11, RemoveLastEffect, EffectLost, RefusedLost
  <2>12. ASSUME NEW x \in Val, CallAppend(h, x) PROVE Overruns(call')
    <3>1. vec[h].used >= vec[h].size /\ ~AppendGrows(vec[h])
      BY <1>1, <2>12, AppendEffect, EffectLost
    <3>2. call'.fn = "append" /\ call'.on = h /\ call'.args = <<x>>
      BY <1>1, <2>12, AppendEffect, EffectLost
    <3> QED BY <3>1, <3>2 DEF Overruns
  <2>13. CASE CallDelete(h)
    BY <1>1, <2>13, DeleteEffect, RefusedLost
  <2> QED
    BY <2>1, <2>2, <2>3, <2>4, <2>5, <2>6, <2>7, <2>8, <2>9, <2>10, <2>11, <2>12, <2>13
<1>2. IInv /\ [Next]_vars => [lost' /\ ~lost => Overruns(call')]_vars
  BY <1>1
<1>3. LostOnly <=> [][lost' /\ ~lost => Overruns(call')]_vars
  BY DEF LostOnly, Overruns
<1> QED
  BY <1>2, <1>3, Invariance, PTL DEF Spec

----------------------------------------------------------------------------
(* What callers see: sequences *)

\* The sequence that callers see in a vector.
Seen(v) == IF v = NULL THEN NULL ELSE Contents(v)
Seqs == [h \in Handles |-> Seen(vec[h])]


\* An effect that touches no memory outside a block changes the sequence as a
\* function that succeeds, or fails for want of memory.
LEMMA EffectSeen ==
    ASSUME IInv, NEW h \in Handles, NEW fn, NEW args, NEW seq, NEW fails, NEW overrun,
           Effect(fn, h, args, seq, fails, overrun), ~lost'
    PROVE  \/ Sequences!Succeed(h, fn, args, seq)
           \/ \E ret \in fails : Sequences!Keep(h, fn, args, ret)
<1>1. CASE vec' = vec /\ \E ret \in fails : Called(fn, h, args, ret)
  BY <1>1 DEF Called, Sequences!Keep, Sequences!Returns
<1>2. CASE /\ \E u : Fine(u, type) /\ Contents(u) = seq /\ vec' = [vec EXCEPT ![h] = u]
           /\ Called(fn, h, args, "ok")
  <2>1. PICK u : Fine(u, type) /\ Contents(u) = seq /\ vec' = [vec EXCEPT ![h] = u]
    BY <1>2
  <2>2. u # NULL /\ Len(seq) = u.used /\ u.used <= MaxUsed
    BY <2>1, FineIsVector DEF Fine
  <2>3. DOMAIN vec = Handles
    BY DEF IInv
  <2>4. \A g \in Handles : vec'[g] = IF g = h THEN u ELSE vec[g]
    BY <2>1, <2>3
  <2>5. Seqs' = [g \in Handles |-> IF g = h THEN seq ELSE Seen(vec[g])]
    BY <2>1, <2>2, <2>4 DEF Seqs, Seen
  <2>6. Seqs' = [Seqs EXCEPT ![h] = seq]
    BY <2>5 DEF Seqs
  <2>7. Len(seq) <= MaxUsed
    BY <2>2
  <2> QED
    BY <1>2, <2>6, <2>7 DEF Called, Sequences!Succeed, Sequences!Returns, Seqs, Seen
<1> QED
  BY <1>1, <1>2, Zenon DEF Effect

\* Of a function that may need memory.
LEMMA GrowsSeen ==
    ASSUME IInv, NEW h \in Handles, NEW fn, NEW args, NEW seq, NEW overrun,
           Effect(fn, h, args, seq, {"ENOMEM"}, overrun), ~lost'
    PROVE  Sequences!Grows(h, fn, args, seq)
<1>1. \/ Sequences!Succeed(h, fn, args, seq)
      \/ \E ret \in {"ENOMEM"} : Sequences!Keep(h, fn, args, ret)
  <2> DEFINE fails == {"ENOMEM"}
  <2> HIDE DEF fails
  <2>1. Effect(fn, h, args, seq, fails, overrun)
    BY DEF fails
  <2>2. \/ Sequences!Succeed(h, fn, args, seq)
        \/ \E ret \in fails : Sequences!Keep(h, fn, args, ret)
    BY <2>1, EffectSeen
  <2> QED BY <2>2 DEF fails
<1> QED
  BY <1>1, Zenon DEF Sequences!Grows

\* The sequence has become seq.
Succeeded(h, fn, args, seq) == Sequences!Succeed(h, fn, args, seq)

\* Of one that does not.
LEMMA SucceedsSeen ==
    ASSUME IInv, NEW h \in Handles, NEW fn, NEW args, NEW seq, NEW overrun,
           Effect(fn, h, args, seq, {}, overrun), ~lost'
    PROVE  Succeeded(h, fn, args, seq)
<1> DEFINE fails == {}
<1> HIDE DEF fails
<1>1. Effect(fn, h, args, seq, fails, overrun)
  BY DEF fails
<1>2. \/ Sequences!Succeed(h, fn, args, seq)
      \/ \E ret \in fails : Sequences!Keep(h, fn, args, ret)
  BY <1>1, EffectSeen
<1> QED
  BY <1>2, Zenon DEF fails, Succeeded

\* One that is refused keeps the sequences.
LEMMA RefusedSeen ==
    ASSUME NEW h \in Handles, NEW fn, NEW args, NEW ret, Refused(fn, h, args, ret)
    PROVE  Sequences!Keep(h, fn, args, ret)
BY DEF Refused, Called, Sequences!Keep, Sequences!Returns

\* A vector that exists is seen as the sequence of its elements.
LEMMA LiveSeen == ASSUME IInv, NEW h \in Live
                  PROVE  /\ h \in Handles /\ h \in Sequences!Live
                         /\ Seqs[h] = Contents(vec[h]) /\ Seqs[h] # NULL
                         /\ Contents(vec[h]) \in Seq(Val) /\ Len(Contents(vec[h])) = vec[h].used
<1>1. h \in Handles /\ vec[h] # NULL /\ Contents(vec[h]) # NULL
  BY LiveFine, FineIsVector DEF Live
<1>2. Seqs[h] = Contents(vec[h])
  BY <1>1 DEF Seqs, Seen
<1>3. h \in Sequences!Live
  BY <1>1, <1>2 DEF Sequences!Live, Seqs, Seen
<1> QED
  BY <1>1, <1>2, <1>3, LiveFine

\* The calls, as their callers see them.  ~lost' leaves out those that have
\* touched memory outside a block.
LEMMA CreateSeen ==
    ASSUME IInv, ~lost', NEW h \in Handles, NEW n \in Index, CallCreate(h, n)
    PROVE  Sequences!Create(h, n)
<1>1. Effect("Create", h, <<n>>, <<>>, {"ENOMEM"}, FALSE) /\ Seqs[h] = NULL
  BY CreateEffect DEF CallCreate, Seqs, Seen
<1>2. Sequences!Grows(h, "Create", <<n>>, <<>>)
  BY <1>1, GrowsSeen
<1> QED
  BY <1>1, <1>2 DEF Sequences!Create, Seqs, Seen

LEMMA ArraySeen ==
    ASSUME IInv, ~lost', NEW h \in Handles, NEW xs \in Outside, CallCreateFrom(h, xs) \/ CallCopyFrom(h, xs)
    PROVE  Sequences!CopyFrom(h, xs)
<1>1. Effect("copy_from", h, <<xs>>, xs, {"ENOMEM"}, FALSE)
  BY ArrayEffect
<1>2. Sequences!Grows(h, "copy_from", <<xs>>, xs)
  BY <1>1, GrowsSeen
<1> QED
  BY <1>2 DEF Sequences!CopyFrom

LEMMA CopySeen ==
    ASSUME IInv, ~lost', NEW h \in Handles, NEW g \in Handles, CallCopy(h, g)
    PROVE  Sequences!Copy(h, g)
<1>1. g \in Live /\ Effect("copy", h, <<g>>, Contents(vec[g]), {"ENOMEM"}, FALSE)
  BY CopyEffect DEF CallCopy
<1>2. Seqs[g] = Contents(vec[g]) /\ Seqs[g] # NULL
  BY <1>1, LiveSeen
<1>3. Sequences!Grows(h, "copy", <<g>>, Seqs[g])
  BY <1>1, <1>2, GrowsSeen
<1> QED
  BY <1>2, <1>3 DEF Sequences!Copy, Seqs, Seen

LEMMA SliceSeen ==
    ASSUME IInv, ~lost', NEW h \in Handles, NEW g \in Handles, NEW start \in Index, NEW len \in Lengths,
           CallSlice(h, g, start, len)
    PROVE  Sequences!Slice(h, g, start, len) /\ h \in Sequences!Live /\ g \in Sequences!Live
<1> DEFINE s    == Seqs[g]
           stop == IF start + len > Len(s) THEN Len(s) ELSE start + len
           seq  == SubSeq(s, start + 1, stop)
           args == <<g, start, len>>
<1>1. h \in Live /\ g \in Live
  BY DEF CallSlice
<1>2. h \in Sequences!Live /\ g \in Sequences!Live /\ s = Contents(vec[g]) /\ Len(s) = vec[g].used
  BY <1>1, LiveSeen
<1>3. seq = Sliced(Contents(vec[g]), start, len)
  BY <1>2 DEF Sliced
<1>4. /\ start < Len(s) => Sequences!Grows(h, "slice", args, seq)
      /\ ~(start < Len(s)) => Sequences!Keep(h, "slice", args, "ERANGE")
  <2>1. CASE start < vec[g].used
    <3>1. ~(start >= vec[g].used)
      BY <1>1, <2>1, LiveFine DEF Index
    <3>2. Effect("slice", h, args, Sliced(Contents(vec[g]), start, len), {"ENOMEM"}, h = g /\ Overfull(vec[h]))
      BY <3>1, SliceEffect
    <3> DEFINE overrun == h = g /\ Overfull(vec[h])
    <3> HIDE DEF seq, args, overrun
    <3>3. Effect("slice", h, args, seq, {"ENOMEM"}, overrun)
      BY <1>3, <3>2 DEF overrun
    <3>4. Sequences!Grows(h, "slice", args, seq)
      BY <3>3, GrowsSeen
    <3> QED BY <1>2, <2>1, <3>4
  <2>2. CASE ~(start < vec[g].used)
    <3>1. Refused("slice", h, args, "ERANGE")
      BY <2>2, SliceEffect
    <3>2. Sequences!Keep(h, "slice", args, "ERANGE")
      BY <3>1, RefusedSeen
    <3> QED BY <1>2, <2>2, <3>2
  <2> QED BY <2>1, <2>2
<1>5. Sequences!Slice(h, g, start, len) <=>
         IF start < Len(s) THEN Sequences!Grows(h, "slice", args, seq)
                           ELSE Sequences!Keep(h, "slice", args, "ERANGE")
  BY DEF Sequences!Slice, Seqs, Seen
<1> QED
  BY <1>2, <1>4, <1>5, Zenon

LEMMA ReplaceSeen ==
    ASSUME IInv, ~lost', NEW h \in Handles, NEW i \in Index, NEW x \in Val, CallReplace(h, i, x)
    PROVE  Sequences!Replace(h, i, x) /\ h \in Sequences!Live
<1>1. h \in Live /\ Effect("replace", h, <<i, x>>, Replaced(Contents(vec[h]), i, x), {"ENOMEM"}, FALSE)
  BY ReplaceEffect DEF CallReplace
<1>2. Seqs[h] = Contents(vec[h]) /\ h \in Sequences!Live
  BY <1>1, LiveSeen
<1>3. Sequences!Grows(h, "replace", <<i, x>>, Replaced(Seqs[h], i, x))
  BY <1>1, <1>2, GrowsSeen
<1> QED
  BY <1>2, <1>3 DEF Sequences!Replace, Sequences!Fill, Seqs, Seen, Replaced, Fill

LEMMA InsertSeen ==
    ASSUME IInv, ~lost', NEW h \in Handles, NEW i \in Index, NEW x \in Val, CallInsert(h, i, x)
    PROVE  Sequences!Insert(h, i, x) /\ h \in Sequences!Live
<1> DEFINE overrun == i = 0 \/ Overfull(vec[h])
<1>1. h \in Live /\ Effect("insert", h, <<i, x>>, Inserted(Contents(vec[h]), i, x), {"ENOMEM"}, overrun)
  BY InsertEffect DEF CallInsert
<1> HIDE DEF overrun
<1>2. Seqs[h] = Contents(vec[h]) /\ h \in Sequences!Live
  BY <1>1, LiveSeen
<1>3. Sequences!Grows(h, "insert", <<i, x>>, Inserted(Seqs[h], i, x))
  BY <1>1, <1>2, GrowsSeen
<1> QED
  BY <1>2, <1>3 DEF Sequences!Insert, Sequences!Fill, Seqs, Seen, Inserted, Fill

LEMMA AppendSeen ==
    ASSUME IInv, ~lost', NEW h \in Handles, NEW x \in Val, CallAppend(h, x)
    PROVE  Sequences!Append_(h, x) /\ h \in Sequences!Live
<1> DEFINE overrun == vec[h].used >= vec[h].size /\ ~AppendGrows(vec[h])
<1>1. h \in Live /\ Effect("append", h, <<x>>, Contents(vec[h]) \o <<x>>, {"ENOMEM"}, overrun)
  BY AppendEffect DEF CallAppend
<1> HIDE DEF overrun
<1>2. Seqs[h] = Contents(vec[h]) /\ Seqs[h] \in Seq(Val) /\ h \in Sequences!Live
  BY <1>1, LiveSeen
<1>3. Seqs[h] \o <<x>> = Append(Seqs[h], x)
  <2> DEFINE s == Seqs[h]
  <2>1. s \in Seq(Val)
    BY <1>2
  <2> HIDE DEF s
  <2>2. Append(s, x) = s \o <<x>>
    BY <2>1, AppendIsConcat
  <2> QED BY <2>2 DEF s
<1>4. Sequences!Grows(h, "append", <<x>>, Append(Seqs[h], x))
  BY <1>1, <1>2, <1>3, GrowsSeen
<1> QED
  BY <1>2, <1>4 DEF Sequences!Append_, Seqs, Seen

LEMMA ConcatenateSeen ==
    ASSUME IInv, ~lost', NEW h \in Handles, NEW g \in Handles, CallConcatenate(h, g)
    PROVE  Sequences!Concatenate(h, g) /\ h \in Sequences!Live /\ g \in Sequences!Live
<1> DEFINE overrun == h = g \/ (vec[h].used + vec[g].used > vec[h].size
                                /\ ~AppendNGrows(vec[h], vec[g].used))
<1>1. /\ h \in Live /\ g \in Live
      /\ Effect("concatenate", h, <<g>>, Contents(vec[h]) \o Contents(vec[g]), {"ENOMEM"}, overrun)
  BY ConcatenateEffect DEF CallConcatenate
<1> HIDE DEF overrun
<1>2. /\ Seqs[h] = Contents(vec[h]) /\ h \in Sequences!Live
      /\ Seqs[g] = Contents(vec[g]) /\ g \in Sequences!Live
  BY <1>1, LiveSeen
<1>3. Sequences!Grows(h, "concatenate", <<g>>, Seqs[h] \o Seqs[g])
  BY <1>1, <1>2, GrowsSeen
<1> QED
  BY <1>2, <1>3 DEF Sequences!Concatenate, Seqs, Seen

LEMMA RemoveSeen ==
    ASSUME IInv, ~lost', NEW h \in Handles, NEW i \in Index, CallRemove(h, i)
    PROVE  Sequences!Remove(h, i) /\ h \in Sequences!Live
<1> DEFINE s == Seqs[h]
<1>1. h \in Live
  BY DEF CallRemove
<1>2. s = Contents(vec[h]) /\ Len(s) = vec[h].used /\ h \in Sequences!Live /\ vec[h].used \in Nat /\ i \in Nat
  BY <1>1, LiveSeen, LiveFine DEF Index
<1>3. Sequences!Remove(h, i) <=>
         IF i < Len(s) THEN Sequences!Succeed(h, "remove", <<i>>, Removed(s, i))
                       ELSE Sequences!Keep(h, "remove", <<i>>, "EDOM")
  BY DEF Sequences!Remove, Seqs, Seen, Removed
<1> HIDE DEF s
<1>4. CASE i < vec[h].used
  <2>1. Effect("remove", h, <<i>>, Removed(s, i), {}, FALSE)
    <3>1. ~(i >= vec[h].used)
      BY <1>2, <1>4
    <3> QED BY <1>2, <3>1, RemoveEffect
  <2>2. Sequences!Succeed(h, "remove", <<i>>, Removed(s, i))
    <3>1. Succeeded(h, "remove", <<i>>, Removed(s, i))
      BY <2>1, SucceedsSeen
    <3> QED BY <3>1 DEF Succeeded
  <2> QED BY <1>2, <1>3, <1>4, <2>2, Zenon
<1>5. CASE ~(i < vec[h].used)
  <2>1. Refused("remove", h, <<i>>, "EDOM")
    BY <1>5, RemoveEffect
  <2>2. Sequences!Keep(h, "remove", <<i>>, "EDOM")
    BY <2>1, RefusedSeen
  <2> QED BY <1>2, <1>3, <1>5, <2>2, Zenon
<1> QED
  BY <1>4, <1>5

LEMMA ClearSeen ==
    ASSUME IInv, ~lost', NEW h \in Handles, NEW i \in Index, CallClear(h, i)
    PROVE  Sequences!Clear(h, i) /\ h \in Sequences!Live
<1> DEFINE s == Seqs[h]
           seq == [s EXCEPT ![i + 1] = Default]
<1>1. h \in Live
  BY DEF CallClear
<1>2. s = Contents(vec[h]) /\ Len(s) = vec[h].used /\ h \in Sequences!Live /\ vec[h].used \in Nat /\ i \in Nat
  BY <1>1, LiveSeen, LiveFine DEF Index
<1>3. Sequences!Clear(h, i) <=>
         IF i < Len(s) THEN Sequences!Succeed(h, "clear", <<i>>, seq)
                       ELSE Sequences!Keep(h, "clear", <<i>>, "EDOM")
  BY DEF Sequences!Clear, Seqs, Seen
<1> HIDE DEF s
<1>4. CASE i < vec[h].used
  <2>1. Effect("clear", h, <<i>>, seq, {}, FALSE)
    <3>1. ~(i >= vec[h].used)
      BY <1>2, <1>4
    <3> QED BY <1>2, <3>1, ClearEffect
  <2> HIDE DEF seq
  <2>2. Sequences!Succeed(h, "clear", <<i>>, seq)
    <3>1. Succeeded(h, "clear", <<i>>, seq)
      BY <2>1, SucceedsSeen
    <3> QED BY <3>1 DEF Succeeded
  <2> QED BY <1>2, <1>3, <1>4, <2>2, Zenon
<1>5. CASE ~(i < vec[h].used)
  <2>1. Refused("clear", h, <<i>>, "EDOM")
    BY <1>5, ClearEffect
  <2>2. Sequences!Keep(h, "clear", <<i>>, "EDOM")
    BY <2>1, RefusedSeen
  <2> QED BY <1>2, <1>3, <1>5, <2>2, Zenon
<1> QED
  BY <1>4, <1>5

LEMMA RemoveLastSeen ==
    ASSUME IInv, ~lost', NEW h \in Handles, CallRemoveLast(h)
    PROVE  Sequences!RemoveLast(h) /\ h \in Sequences!Live
<1> DEFINE s == Seqs[h]
           seq == SubSeq(s, 1, Len(s) - 1)
<1>1. h \in Live
  BY DEF CallRemoveLast
<1>2. /\ s = Contents(vec[h]) /\ Len(s) = vec[h].used /\ h \in Sequences!Live /\ vec[h].used \in Nat
      /\ s \in Seq(Val)
  BY <1>1, LiveSeen, LiveFine
<1>3. Sequences!RemoveLast(h) <=>
         IF s # <<>> THEN Sequences!Succeed(h, "remove_last", <<>>, seq)
                     ELSE Sequences!Keep(h, "remove_last", <<>>, "EDOM")
  BY DEF Sequences!RemoveLast, Seqs, Seen
<1> HIDE DEF s
<1>4. s # <<>> <=> vec[h].used > 0
  BY <1>2, EmptySeq
<1>5. CASE vec[h].used > 0
  <2>1. Effect("remove_last", h, <<>>, seq, {}, FALSE)
    <3>1. ~(vec[h].used = 0)
      BY <1>5
    <3> QED BY <1>2, <3>1, RemoveLastEffect
  <2> HIDE DEF seq
  <2>2. Sequences!Succeed(h, "remove_last", <<>>, seq)
    <3>1. Succeeded(h, "remove_last", <<>>, seq)
      BY <2>1, SucceedsSeen
    <3> QED BY <3>1 DEF Succeeded
  <2> QED BY <1>2, <1>3, <1>4, <1>5, <2>2, Zenon
<1>6. CASE ~(vec[h].used > 0)
  <2>1. Refused("remove_last", h, <<>>, "EDOM")
    BY <1>6, RemoveLastEffect
  <2>2. Sequences!Keep(h, "remove_last", <<>>, "EDOM")
    BY <2>1, RefusedSeen
  <2> QED BY <1>2, <1>3, <1>4, <1>6, <2>2, Zenon
<1> QED
  BY <1>5, <1>6

LEMMA DeleteSeen ==
    ASSUME IInv, NEW h \in Handles, CallDelete(h)
    PROVE  Sequences!Delete(h) /\ h \in Sequences!Live
<1>1. h \in Live /\ Refused("Delete", h, <<>>, "ok")
  BY DeleteEffect DEF CallDelete
<1>2. Sequences!Keep(h, "Delete", <<>>, "ok")
  BY <1>1, RefusedSeen
<1> QED
  BY <1>1, <1>2, LiveSeen DEF Sequences!Delete

\* The vectors implement sequences: as long as no memory outside a block is
\* touched, every function changes the sequence of its vector as its comment
\* says, whatever the block is, and one that fails changes nothing.
THEOREM Implementation == Spec => ImplementsSequences
<1>1. ASSUME Init PROVE Sequences!Init
  BY <1>1 DEF Init, Sequences!Init, Sequences!NoCall
<1>2. ASSUME IInv, Next, ~lost' PROVE Sequences!Next
  <2>1. PICK h \in Handles :
              \/ \E n \in Index : CallCreate(h, n)
              \/ \E xs \in Outside : CallCreateFrom(h, xs) \/ CallCopyFrom(h, xs)
              \/ \E g \in Handles : CallCopy(h, g) \/ CallConcatenate(h, g)
              \/ \E g \in Handles : \E start \in Index, len \in Lengths : CallSlice(h, g, start, len)
              \/ \E i \in Index, x \in Val : CallReplace(h, i, x) \/ CallInsert(h, i, x)
              \/ \E i \in Index : CallRemove(h, i) \/ CallClear(h, i)
              \/ CallRemoveLast(h)
              \/ \E x \in Val : CallAppend(h, x)
              \/ CallDelete(h)
    BY <1>2 DEF Next
  <2>2. /\ Sequences!Index = Index /\ Sequences!Outside = Outside /\ Sequences!Lengths = Lengths
    BY DEF Sequences!Index, Index, Sequences!Outside, Outside, Sequences!Lengths, Lengths
  <2>3. ASSUME NEW n \in Index, CallCreate(h, n) PROVE Sequences!Next
    <3>1. Sequences!Create(h, n)
      BY <1>2, <2>3, CreateSeen
    <3> QED BY <2>2, <3>1, Zenon DEF Sequences!Next
  <2>4. ASSUME NEW xs \in Outside, CallCreateFrom(h, xs) \/ CallCopyFrom(h, xs) PROVE Sequences!Next
    <3>1. Sequences!CopyFrom(h, xs)
      BY <1>2, <2>4, ArraySeen
    <3> QED BY <2>2, <3>1, Zenon DEF Sequences!Next
  <2>5. ASSUME NEW g \in Handles, CallCopy(h, g) PROVE Sequences!Next
    <3>1. Sequences!Copy(h, g)
      BY <1>2, <2>5, CopySeen
    <3> QED BY <3>1, Zenon DEF Sequences!Next
  <2>6. ASSUME NEW g \in Handles, CallConcatenate(h, g) PROVE Sequences!Next
    <3>1. Sequences!Concatenate(h, g) /\ h \in Sequences!Live /\ g \in Sequences!Live
      BY <1>2, <2>6, ConcatenateSeen
    <3> QED BY <3>1, Zenon DEF Sequences!Next
  <2>7. ASSUME NEW g \in Handles, NEW start \in Index, NEW len \in Lengths, CallSlice(h, g, start, len)
        PROVE  Sequences!Next
    <3>1. Sequences!Slice(h, g, start, len) /\ h \in Sequences!Live /\ g \in Sequences!Live
      BY <1>2, <2>7, SliceSeen
    <3> QED BY <2>2, <3>1, Zenon DEF Sequences!Next
  <2>8. ASSUME NEW i \in Index, NEW x \in Val, CallReplace(h, i, x) PROVE Sequences!Next
    <3>1. Sequences!Replace(h, i, x) /\ h \in Sequences!Live
      BY <1>2, <2>8, ReplaceSeen
    <3> QED BY <2>2, <3>1, Zenon DEF Sequences!Next
  <2>9. ASSUME NEW i \in Index, NEW x \in Val, CallInsert(h, i, x) PROVE Sequences!Next
    <3>1. Sequences!Insert(h, i, x) /\ h \in Sequences!Live
      BY <1>2, <2>9, InsertSeen
    <3> QED BY <2>2, <3>1, Zenon DEF Sequences!Next
  <2>10. ASSUME NEW i \in Index, CallRemove(h, i) PROVE Sequences!Next
    <3>1. Sequences!Remove(h, i) /\ h \in Sequences!Live
      BY <1>2, <2>10, RemoveSeen
    <3> QED BY <2>2, <3>1, Zenon DEF Sequences!Next
  <2>11. ASSUME NEW i \in Index, CallClear(h, i) PROVE Sequences!Next
    <3>1. Sequences!Clear(h, i) /\ h \in Sequences!Live
      BY <1>2, <2>11, ClearSeen
    <3> QED BY <2>2, <3>1, Zenon DEF Sequences!Next
  <2>12. CASE CallRemoveLast(h)
    <3>1. Sequences!RemoveLast(h) /\ h \in Sequences!Live
      BY <1>2, <2>12, RemoveLastSeen
    <3> QED BY <3>1, Zenon DEF Sequences!Next
  <2>13. ASSUME NEW x \in Val, CallAppend(h, x) PROVE Sequences!Next
    <3>1. Sequences!Append_(h, x) /\ h \in Sequences!Live
      BY <1>2, <2>13, AppendSeen
    <3> QED BY <3>1, Zenon DEF Sequences!Next
  <2>14. CASE CallDelete(h)
    <3>1. Sequences!Delete(h) /\ h \in Sequences!Live
      BY <1>2, <2>14, DeleteSeen
    <3> QED BY <3>1, Zenon DEF Sequences!Next
  <2> QED
    BY <2>1, <2>3, <2>4, <2>5, <2>6, <2>7, <2>8, <2>9, <2>10, <2>11, <2>12, <2>13, <2>14
<1>3. UNCHANGED vars => UNCHANGED Sequences!vars
  BY DEF vars, Sequences!vars
<1>4. IInv /\ [Next]_vars => [Sequences!Next \/ lost']_(Sequences!vars)
  BY <1>2, <1>3
<1> QED
  BY <1>1, <1>4, Invariance, PTL DEF Spec, ImplementsSequences

----------------------------------------------------------------------------
(* Blocks in bytes: the vectors of Growth, whose requests may come near to    *)
(* WordSize.                                                                  *)

\* More elements have no less bytes.
LEMMA MoreBytes == ASSUME NEW a \in Nat, NEW b \in Nat, a <= b
                   PROVE  a * EltSize <= b * EltSize
BY GrowthAssumption

\* There are no more elements than bytes.
LEMMA BytesCover == ASSUME NEW a \in Nat
                    PROVE  a <= a * EltSize /\ 2 * a <= a * EltSize /\ a * EltSize \in Nat
BY GrowthAssumption

\* The remainder by WordSize is a size.
LEMMA WrapIsSize == ASSUME NEW n \in Nat
                    PROVE  Wrap(n) \in Size
BY ModInRange, PolicySizeAssumption DEF Wrap, Size

\* A remainder is no more than the number.
LEMMA WrapIsLess == ASSUME NEW n \in Nat
                    PROVE  Wrap(n) <= n
<1>1. CASE n < WordSize
  BY <1>1, ModOfSmall, PolicySizeAssumption DEF Wrap
<1>2. CASE n >= WordSize
  BY <1>2, WrapIsSize, PolicySizeAssumption DEF Size
<1> QED
  BY <1>1, <1>2, PolicySizeAssumption

\* Rounding up adds less than a step.
LEMMA RoundUpIsNear == ASSUME NEW rq \in 0 .. SizeMax
                       PROVE  RoundUp(rq) \in Size /\ RoundUp(rq) + 1 <= rq + SizeStep
<1> DEFINE sum == rq + (SizeStep - 1)
<1>1. sum \in 0 .. WordSize - 1 /\ sum \in Nat /\ sum + 1 = rq + SizeStep
  BY PolicySizeAssumption
<1>2. RoundUp(rq) = sum - (sum % SizeStep)
  BY <1>1, ModOfSmall, PolicySizeAssumption DEF RoundUp
<1>3. RoundUp(rq) \in Nat
  BY RoundUpCovers
<1> HIDE DEF sum
<1>4. sum % SizeStep \in 0 .. SizeStep - 1
  BY <1>1, ModInRange, PolicySizeAssumption
<1>5. PICK m \in 0 .. SizeStep - 1 : m = sum % SizeStep
  BY <1>4
<1> QED
  BY <1>1, <1>2, <1>3, <1>5, PolicySizeAssumption DEF Size

\* The policy never leaves the word.
LEMMA PolicyIsSize == ASSUME NEW rq \in Size
                      PROVE  /\ POLICY_SIZE_STEP(rq) \in Size
                             /\ POLICY_SIZE_STEP(rq) <= rq + SizeStep \/ POLICY_SIZE_STEP(rq) = SizeMin
<1>1. SizeMin \in Size
  BY BytesCover, PolicySizeAssumption, GrowthAssumption DEF Size
<1>2. CASE rq <= SizeMin
  BY <1>1, <1>2, PolicySizeAssumption DEF POLICY_SIZE_STEP, Size
<1>3. CASE rq > SizeMin /\ rq <= SizeMax
  BY <1>3, RoundUpIsNear, PolicySizeAssumption DEF POLICY_SIZE_STEP, Size
<1>4. CASE rq > SizeMin /\ rq > SizeMax
  BY <1>4, PolicySizeAssumption DEF POLICY_SIZE_STEP, Size
<1> QED
  BY <1>2, <1>3, <1>4, PolicySizeAssumption DEF Size

\* What a request that fits is given has bytes that do not wrap.
LEMMA FitsGrows == ASSUME NEW rq \in Nat, Fits(rq)
                   PROVE  /\ Wrap(rq) = rq /\ rq \in Size
                          /\ POLICY_SIZE_STEP(rq) \in Size
                          /\ POLICY_SIZE_STEP(rq) >= rq
                          /\ Bytes(POLICY_SIZE_STEP(rq)) = POLICY_SIZE_STEP(rq) * EltSize
<1> DEFINE n == POLICY_SIZE_STEP(rq)
<1>1. rq + SizeStep \in Nat /\ rq + SizeStep <= WordSize /\ rq < WordSize
  BY BytesCover, PolicySizeAssumption DEF Fits
<1>2. rq \in Size /\ Wrap(rq) = rq
  BY <1>1, ModOfSmall, PolicySizeAssumption DEF Size, Wrap
<1>3. n \in Size /\ n >= rq
  BY <1>2, PolicyIsSize, PolicyCovers DEF Size
<1>4. n * EltSize < WordSize
  <2>1. CASE n = SizeMin
    BY <2>1, GrowthAssumption
  <2>2. CASE rq > SizeMin /\ rq <= SizeMax
    <3>1. n = RoundUp(rq)
      BY <2>2, PolicySizeAssumption DEF POLICY_SIZE_STEP
    <3>2. RoundUp(rq) + 1 <= rq + SizeStep
      BY <2>2, RoundUpIsNear, PolicySizeAssumption
    <3>3. n + 1 \in Nat /\ n + 1 <= rq + SizeStep
      BY <3>1, <3>2, <1>3 DEF Size
    <3>4. (n + 1) * EltSize <= WordSize
      BY <3>3, <1>1, MoreBytes, BytesCover, PolicySizeAssumption DEF Fits
    <3> QED
      BY <3>4, <1>3, PolicySizeAssumption, GrowthAssumption DEF Size
  <2>3. CASE rq > SizeMin /\ rq > SizeMax
    <3>1. n = rq /\ rq + 1 <= rq + SizeStep
      BY <2>3, PolicySizeAssumption DEF POLICY_SIZE_STEP
    <3>2. (rq + 1) * EltSize <= WordSize
      BY <3>1, <1>1, MoreBytes, BytesCover, PolicySizeAssumption DEF Fits
    <3> QED
      BY <3>1, <3>2, PolicySizeAssumption, GrowthAssumption
  <2>4. CASE rq <= SizeMin
    BY <2>1, <2>4, PolicySizeAssumption DEF POLICY_SIZE_STEP
  <2> QED
    BY <2>2, <2>3, <2>4, PolicySizeAssumption
<1>5. Bytes(n) = n * EltSize
  <2>1. n * EltSize \in 0 .. WordSize - 1
    BY <1>3, <1>4, BytesCover, PolicySizeAssumption DEF Size
  <2> QED
    BY <2>1, ModOfSmall, PolicySizeAssumption DEF Bytes, Wrap
<1> QED
  BY <1>2, <1>3, <1>5

-----------------------------------------------------------------------------

\* The inductive invariant.
BlockIInv == BlockTypeOK /\ SmallRequestsFit

\* What a block of so many elements holds.
LEMMA HoldsOwn == ASSUME NEW n \in Nat, NEW m \in Nat, m <= n,
                         NEW blk, blk = n * EltSize
                  PROVE  Holds(blk, m)
<1>1. m * EltSize <= n * EltSize
  BY MoreBytes
<1>2. n * EltSize # FREED
  BY BytesCover, GrowthAssumption
<1> QED
  BY <1>1, <1>2 DEF Holds

\* Growing leaves a size and a block, or none.
LEMMA GrownType == ASSUME BlockTypeOK, NEW rq \in Size, NEW o \in pointervec_grow(rq)
                   PROVE  o.size \in Size /\ o.block \in Size \cup {FREED} /\ o.size >= size
<1> DEFINE n == POLICY_SIZE_STEP(rq)
<1>1. n \in Size
  BY PolicyIsSize
<1>2. Bytes(n) \in Size
  BY <1>1, BytesCover, WrapIsSize DEF Bytes, Size
<1> HIDE DEF n
<1>3. o \in {Resized("ok", size, block), Resized("ENOMEM", size, FREED),
            Resized("ok", n, Bytes(n)), Resized("ENOMEM", size, block)}
  BY DEF pointervec_grow, n
<1>4. o = Resized("ok", n, Bytes(n)) => n >= size
  <2>1. CASE n <= size
    BY <2>1 DEF pointervec_grow, Resized, n
  <2>2. CASE ~(n <= size)
    BY <2>2, <1>1 DEF BlockTypeOK, Size
  <2> QED
    BY <2>1, <2>2
<1> QED
  BY <1>1, <1>2, <1>3, <1>4 DEF Resized, BlockTypeOK, Size

\* Growing by a request that fits leaves a block that has room for it.
LEMMA GrownFits == ASSUME BlockTypeOK, NEW rq \in Nat, Fits(rq),
                          block = size * EltSize, NEW o \in pointervec_grow(Wrap(rq))
                   PROVE  o.block = o.size * EltSize /\ (o.ret = "ok" => o.size >= rq)
<1> DEFINE n == POLICY_SIZE_STEP(rq)
<1>1. /\ Wrap(rq) = rq
      /\ n \in Size /\ n >= rq
      /\ Bytes(n) = n * EltSize
  BY FitsGrows
<1> HIDE DEF n
<1>2. CASE n <= size
  BY <1>1, <1>2 DEF pointervec_grow, Resized, BlockTypeOK, Size, n
<1>3. CASE ~(n <= size)
  <2>1. n >= 1
    BY <1>1, <1>3 DEF BlockTypeOK, Size
  <2>2. n <= Bytes(n)
    BY <1>1, BytesCover DEF Size
  <2>3. Bytes(n) # 0
    BY <2>1, <2>2, <1>1, BytesCover DEF Size
  <2>4. o \in {Resized("ok", n, Bytes(n)), Resized("ENOMEM", size, block)}
    BY <1>1, <1>3, <2>3 DEF pointervec_grow, n
  <2> QED
    BY <2>4, <1>1 DEF Resized
<1> QED
  BY <1>2, <1>3

\* Every function that asks for no less than it touches keeps the invariant.
LEMMA AttemptKeeps ==
    ASSUME BlockIInv, NEW must \in BOOLEAN, NEW request \in Nat,
           NEW touched \in Nat, NEW newused \in Nat,
           must => touched <= request /\ (newused <= request \/ newused = used),
           ~must /\ ~huge => touched <= size /\ newused <= size,
           Access(must, request, touched, newused)
    PROVE  BlockIInv' /\ size' >= size
<1> DEFINE outcomes == IF must THEN pointervec_grow(Wrap(request)) ELSE {Resized("ok", size, block)}
<1>1. PICK o \in outcomes :
         /\ size' = o.size /\ block' = o.block
         /\ used' = (IF o.ret = "ok" THEN newused ELSE used)
         /\ outside' = (o.ret = "ok" /\ ~Holds(o.block, touched))
  BY DEF Access
<1>2. huge' = (huge \/ (must /\ ~Fits(request)))
  BY DEF Access
<1>3. huge' \in BOOLEAN /\ outside' \in BOOLEAN
  BY <1>1, <1>2
<1>4. used' \in Nat
  BY <1>1 DEF BlockIInv, BlockTypeOK
<1>5. size' \in Size /\ block' \in Size \cup {FREED} /\ size' >= size
  <2>1. CASE must
    BY <2>1, <1>1, GrownType, WrapIsSize DEF BlockIInv
  <2>2. CASE ~must
    BY <2>2, <1>1 DEF Resized, BlockIInv, BlockTypeOK, Size
  <2> QED
    BY <2>1, <2>2
<1>6. BlockTypeOK'
  BY <1>3, <1>4, <1>5 DEF BlockTypeOK, Size
<1>7. ASSUME ~huge'
      PROVE  ~outside' /\ used' <= size' /\ block' = size' * EltSize
  <2>1. ~huge /\ used <= size /\ block = size * EltSize /\ BlockTypeOK
    BY <1>7, <1>2 DEF BlockIInv, SmallRequestsFit
  <2>2. /\ o.block = o.size * EltSize
        /\ o.ret = "ok" => touched <= o.size /\ newused <= o.size
    <3>1. CASE must
      <4>1. Fits(request)
        BY <1>7, <1>2, <3>1
      <4>2. o.block = o.size * EltSize /\ (o.ret = "ok" => o.size >= request)
        BY <4>1, <3>1, <1>1, <2>1, GrownFits
      <4> QED
        BY <4>2, <3>1, <2>1, <1>1, <1>5 DEF BlockTypeOK, Size
    <3>2. CASE ~must
      BY <3>2, <1>1, <2>1 DEF Resized
    <3> QED
      BY <3>1, <3>2
  <2>3. used' <= size'
    BY <2>1, <2>2, <1>1, <1>5 DEF BlockTypeOK, Size
  <2>4. o.ret = "ok" => Holds(o.block, touched)
    <3> SUFFICES ASSUME o.ret = "ok" PROVE Holds(o.block, touched)
      OBVIOUS
    <3> DEFINE n == o.size
    <3>1. n \in Nat /\ touched <= n /\ o.block = n * EltSize
      BY <2>2, <1>1, <1>5 DEF Size
    <3> HIDE DEF n
    <3> QED
      BY <3>1, HoldsOwn
  <2> QED
    BY <2>2, <2>3, <2>4, <1>1
<1> QED
  BY <1>5, <1>6, <1>7 DEF BlockIInv, SmallRequestsFit

\* The functions ask for what they touch, and used is never more.
LEMMA NextKeeps == ASSUME BlockIInv, BlockNext
                   PROVE  BlockIInv' /\ size' >= size
<1>1. ~huge => used <= size
  BY DEF BlockIInv, SmallRequestsFit
<1>2. used \in Nat /\ size \in Nat
  BY DEF BlockIInv, BlockTypeOK, Size
<1>3. CASE \E n \in Size : pointervec_Create(n)
  <2>1. PICK n \in Nat : pointervec_Create(n)
    BY <1>3 DEF Size
  <2>2. Access(TRUE, n, 0, used)
    BY <2>1 DEF pointervec_Create
  <2>3. TRUE => 0 <= n /\ (used <= n \/ used = used)
    BY <2>1
  <2>4. ~TRUE /\ ~huge => 0 <= size /\ used <= size
    OBVIOUS
  <2> QED
    BY <2>2, <2>3, <2>4, <1>2, AttemptKeeps, Zenon
<1>4. CASE \E i \in Size : pointervec_replace(i)
  <2>1. PICK i \in Nat : pointervec_replace(i)
    BY <1>4 DEF Size
  <2>2. i + 1 \in Nat /\ Wrap(i + 1) \in Nat /\ Wrap(i + 1) <= i + 1 /\ (i >= size) \in BOOLEAN
    BY <2>1, WrapIsSize, WrapIsLess DEF Size
  <2>3. CASE i >= used
    <3>1. Access(i >= size, i + 1, i + 1, Wrap(i + 1))
      BY <2>1, <2>3 DEF pointervec_replace
    <3>2. i >= size => i + 1 <= i + 1 /\ (Wrap(i + 1) <= i + 1 \/ Wrap(i + 1) = used)
      BY <2>2
    <3>3. ~(i >= size) /\ ~huge => i + 1 <= size /\ Wrap(i + 1) <= size
      BY <2>1, <2>2, <1>2
    <3> QED
      BY <3>1, <3>2, <3>3, <2>2, AttemptKeeps, Zenon
  <2>4. CASE ~(i >= used)
    <3>1. Access(i >= size, i + 1, i + 1, used)
      BY <2>1, <2>4 DEF pointervec_replace
    <3>2. i >= size => i + 1 <= i + 1 /\ (used <= i + 1 \/ used = used)
      BY <2>2
    <3>3. ~(i >= size) /\ ~huge => i + 1 <= size /\ used <= size
      BY <2>1, <1>1, <1>2
    <3> QED
      BY <3>1, <3>2, <3>3, <2>2, <1>2, AttemptKeeps, Zenon
  <2> QED
    BY <2>3, <2>4
<1>5. CASE \E n \in Size : n * EltSize < WordSize /\ pointervec_append_n(n)
  <2>1. PICK n \in Size : n * EltSize < WordSize /\ pointervec_append_n(n)
    BY <1>5
  <2>2. Access(Wrap(used + n) >= size, used + n, used + n, Wrap(used + n))
    BY <2>1 DEF pointervec_append_n
  <2>3. /\ used + n \in Nat /\ Wrap(used + n) \in Nat /\ Wrap(used + n) <= used + n
        /\ (Wrap(used + n) >= size) \in BOOLEAN
    BY <2>1, <1>2, WrapIsSize, WrapIsLess DEF Size
  <2>4. Wrap(used + n) >= size =>
           used + n <= used + n /\ (Wrap(used + n) <= used + n \/ Wrap(used + n) = used)
    BY <2>3
  <2>5. ~(Wrap(used + n) >= size) /\ ~huge => used + n <= size /\ Wrap(used + n) <= size
    <3> SUFFICES ASSUME ~huge, ~(Wrap(used + n) >= size)
                 PROVE  used + n <= size /\ Wrap(used + n) <= size
      OBVIOUS
    <3>1. n \in Nat /\ n * EltSize < WordSize
      BY <2>1 DEF Size
    <3>2. size * EltSize \in 0 .. WordSize - 1
      BY <1>2, BytesCover, GrowthAssumption DEF BlockIInv, BlockTypeOK, SmallRequestsFit, Size
    <3>3. 2 * used < WordSize
      BY <1>1, <1>2, <3>2, BytesCover, PolicySizeAssumption
    <3>4. 2 * n < WordSize
      BY <3>1, BytesCover, PolicySizeAssumption
    <3>5. used + n \in 0 .. WordSize - 1
      BY <3>1, <3>3, <3>4, <1>2, PolicySizeAssumption
    <3>6. Wrap(used + n) = used + n
      BY <3>5, ModOfSmall, PolicySizeAssumption DEF Wrap
    <3> QED
      BY <3>1, <3>6, <1>2
  <2> QED
    BY <2>2, <2>3, <2>4, <2>5, AttemptKeeps, Zenon
<1>6. CASE pointervec_append
  <2>1. Access(used >= size, used + 1, used + 1, used + 1)
    BY <1>6 DEF pointervec_append
  <2>2. used + 1 \in Nat /\ (used >= size) \in BOOLEAN
    BY <1>2
  <2>3. used >= size => used + 1 <= used + 1 /\ (used + 1 <= used + 1 \/ used + 1 = used)
    BY <1>2
  <2>4. ~(used >= size) /\ ~huge => used + 1 <= size /\ used + 1 <= size
    BY <1>2
  <2> QED
    BY <2>1, <2>2, <2>3, <2>4, AttemptKeeps, Zenon
<1>7. CASE strvec_argc_argv
  <2>1. /\ size' = size /\ used' = used /\ block' = block
        /\ outside' = (~Holds(Bytes(Wrap(used + 1)), used + 1) \/ ~Holds(block, used))
        /\ huge' = (huge \/ ~Fits(used + 1))
    BY <1>7 DEF strvec_argc_argv
  <2>2. BlockTypeOK'
    BY <2>1 DEF BlockIInv, BlockTypeOK, Size
  <2>3. ASSUME ~huge'
        PROVE  ~outside' /\ used <= size /\ block = size * EltSize
    <3>1. ~huge /\ Fits(used + 1) /\ block = size * EltSize
      BY <2>1, <2>3 DEF BlockIInv, SmallRequestsFit
    <3>2. Wrap(used + 1) = used + 1
      BY <3>1, <1>2, FitsGrows
    <3>3. Bytes(used + 1) = (used + 1) * EltSize
      <4>1. (used + 2) * EltSize <= WordSize
        <5>1. used + 2 \in Nat /\ used + 1 + SizeStep \in Nat /\ used + 2 <= used + 1 + SizeStep
          BY <1>2, PolicySizeAssumption
        <5>2. (used + 2) * EltSize <= (used + 1 + SizeStep) * EltSize
          BY <5>1, MoreBytes
        <5> QED
          BY <5>1, <5>2, <3>1, BytesCover, PolicySizeAssumption DEF Fits
      <4>2. (used + 1) * EltSize \in 0 .. WordSize - 1
        BY <4>1, <1>2, PolicySizeAssumption, GrowthAssumption
      <4> QED
        BY <4>2, ModOfSmall, PolicySizeAssumption DEF Bytes, Wrap
    <3>4. Holds(Bytes(Wrap(used + 1)), used + 1)
      <4> DEFINE n == used + 1
                 blk == Bytes(Wrap(n))
      <4>1. n \in Nat /\ n <= n /\ blk = n * EltSize
        BY <3>2, <3>3, <1>2
      <4> HIDE DEF n, blk
      <4>2. Holds(blk, n)
        BY <4>1, HoldsOwn
      <4> QED
        BY <4>2 DEF n, blk
    <3>5. Holds(block, used)
      BY <3>1, <1>1, <1>2, HoldsOwn
    <3> QED
      BY <2>1, <3>1, <3>4, <3>5, <1>1
  <2> QED
    BY <2>1, <2>2, <2>3, <1>2 DEF BlockIInv, SmallRequestsFit
<1> QED
  BY <1>3, <1>4, <1>5, <1>6, <1>7 DEF BlockNext

\* The invariant holds at first: there is no block.
LEMMA InitHolds == BlockInit => BlockIInv
<1>1. 0 * EltSize = 0 /\ 0 \in Size
  BY PolicySizeAssumption, GrowthAssumption DEF Size
<1>2. BlockInit => BlockTypeOK
  <2>1. BlockInit => size \in Size /\ used \in Nat /\ block \in Size
    BY <1>1 DEF BlockInit
  <2>2. BlockInit => huge \in BOOLEAN /\ outside \in BOOLEAN
    BY DEF BlockInit
  <2> QED
    BY <2>1, <2>2 DEF BlockTypeOK
<1>3. BlockInit => SmallRequestsFit
  BY <1>1 DEF BlockInit, SmallRequestsFit
<1> QED
  BY <1>2, <1>3 DEF BlockIInv

\* A step that changes nothing keeps it.
LEMMA StutterKeeps == BlockIInv /\ UNCHANGED blockVars => BlockIInv' /\ size' >= size
BY DEF blockVars, BlockIInv, BlockTypeOK, SmallRequestsFit, Size

\* In every reachable state, for all word sizes, policies and element sizes, the
\* block of a vector has room for exactly the elements that the vector believes
\* it has room for, and nothing outside it is accessed, until a request comes
\* within a step of the number of elements whose bytes wrap (pointervec_grow,
\* mem_reallocate_vec, mem_allocate_vec).
THEOREM BlocksFit == BlockSpec => []SmallRequestsFit
<1>1. BlockIInv /\ [BlockNext]_blockVars => BlockIInv'
  BY NextKeeps, StutterKeeps
<1>2. BlockIInv => SmallRequestsFit
  BY DEF BlockIInv
<1> QED
  BY <1>1, <1>2, InitHolds, PTL DEF BlockSpec

\* Sizes and bytes never leave the word, although their products would (grow,
\* mem_reallocate_vec).
THEOREM SizesAreWords == BlockSpec => []BlockTypeOK
<1>1. BlockIInv /\ [BlockNext]_blockVars => BlockIInv'
  BY NextKeeps, StutterKeeps
<1>2. BlockIInv => BlockTypeOK
  BY DEF BlockIInv
<1> QED
  BY <1>1, <1>2, InitHolds, PTL DEF BlockSpec
=============================================================================
