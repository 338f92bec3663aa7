----------------------------- MODULE VectorOps -----------------------------
(* The functions of charvec.c, and of pointervec.c, which is the same text    *)
(* for another element type but for the guards of two functions: a vector is  *)
(* one of characters or of pointers.                                          *)
(*                                                                            *)
(* A vector owns a block with room for size elements, which malloc may have   *)
(* rounded up by Slack more.  used counts the elements in use.  Memory        *)
(* outside the block is another's: a function that reads or writes there ends *)
(* in LOST, after which the program may do anything.                          *)
(*                                                                            *)
(* A function is the set of its outcomes [ret, vec]: what it returns and what *)
(* becomes of the vector, the one or the other depending on malloc.           *)
EXTENDS PolicySize, Sequences

CONSTANTS Val,                 \* elements
          Default,             \* default_value of the vectors
          Slack,               \* elements malloc adds to a block
          NULL,                \* no vector
          LOST                 \* the vector after an access outside its block

ASSUME VectorAssumption == Default \in Val /\ Slack \in Nat /\ NULL # LOST

----------------------------------------------------------------------------
(* Blocks *)

Usable(size) == IF size = 0 THEN 0 ELSE size + Slack

Type == {"char", "pointer"}

Empty(type) == [of |-> type, size |-> 0, used |-> 0, cells |-> <<>>]

\* The vectors with blocks of a size.
VectorsOf(size) == [of : Type, size : {size}, used : 0 .. Usable(size),
                    cells : [0 .. Usable(size) - 1 -> Val]]

IsVector(v) == v.size \in Nat /\ v \in VectorsOf(v.size)

Contents(v) == [k \in 1 .. v.used |-> v.cells[k - 1]]

NeedsMemory(v, must, request) == must /\ POLICY_SIZE_STEP(request) > v.size

\* Mutant of Grown: the size is set and the new block forgotten.
GrownSizeOnly(v, must, request) ==
    {IF NeedsMemory(v, must, request) THEN [v EXCEPT !.size = POLICY_SIZE_STEP(request)]
                                      ELSE v}

\* grow: a vector is made larger, never smaller.  realloc keeps its elements;
\* what is new is not cleared, as nothing defines HAVE_MALLOC_USABLE_SIZE.
Grown(v, must, request) ==
    IF NeedsMemory(v, must, request)
    THEN LET size == POLICY_SIZE_STEP(request) IN
         {[v EXCEPT !.size  = size,
                    !.cells = [k \in 0 .. Usable(size) - 1 |->
                                  IF k < Usable(v.size) THEN @[k] ELSE garbage]] :
             garbage \in Val}
    ELSE {v}

\* Write xs from position at on, and set used.
Store(v, at, xs, used) ==
    IF at + Len(xs) <= Usable(v.size)
    THEN [v EXCEPT !.used  = used,
                   !.cells = [k \in DOMAIN @ |-> IF k \in at .. at + Len(xs) - 1
                                                 THEN xs[k - at + 1] ELSE @[k]]]
    ELSE LOST

Fill(n) == [k \in 1 .. n |-> Default]

Outcome(ret, v) == [ret |-> ret, vec |-> v]

\* Outcomes of a function that grows v, if it must, and makes f of the result.
Attempt(v, must, request, f(_)) ==
    {Outcome("ok", f(w)) : w \in Grown(v, must, request)}
    \cup IF NeedsMemory(v, must, request) THEN {Outcome("ENOMEM", v)} ELSE {}

\* The same, for one that then reads elements of src where they lie: if src is
\* v itself and realloc moves its block, they have been freed.
Moved(v, same, must, request) ==
    IF same /\ NeedsMemory(v, must, request) THEN {Outcome("ok", LOST)} ELSE {}

----------------------------------------------------------------------------
(* Creating and copying *)

Create(type, n) ==
    {Outcome("ok", w) : w \in Grown(Empty(type), TRUE, n)} \cup {Outcome("ENOMEM", NULL)}

\* Create_from: the new vector is large enough for what is copied into it.
CreateFrom(type, xs) ==
    {Outcome("ok", Store(w, 0, xs, Len(xs))) : w \in Grown(Empty(type), TRUE, Len(xs))}
    \cup {Outcome("ENOMEM", NULL)}

\* Mutant of CopyFrom: the block is not made larger.
CopyFromUngrown(v, xs) == {Outcome("ok", Store(v, 0, xs, Len(xs)))}

CopyFrom(v, xs) == Attempt(v, Len(xs) > v.size, Len(xs), LAMBDA w : Store(w, 0, xs, Len(xs)))

\* Copy creates the vector if there is none.
Copy(v, src) == IF v = NULL THEN CreateFrom(src.of, Contents(src)) ELSE CopyFrom(v, Contents(src))

Slice(v, src, start, len, same) ==
    LET stop == IF start + len > src.used THEN src.used ELSE start + len
        xs   == SubSeq(Contents(src), start + 1, stop)
    IN  IF start < src.used THEN CopyFrom(v, xs) \cup Moved(v, same, Len(xs) > v.size, Len(xs))
                            ELSE {Outcome("ERANGE", v)}

----------------------------------------------------------------------------
(* Changing elements *)

\* Mutant of Put: what lies between the old end and i is left as it was.
PutUnfilled(v, i, x) == Store(v, i, <<x>>, IF i >= v.used THEN i + 1 ELSE v.used)

Put(v, i, x) == IF i >= v.used THEN Store(v, v.used, Fill(i - v.used) \o <<x>>, i + 1)
                ELSE Store(v, i, <<x>>, v.used)

Replace(v, i, x) == Attempt(v, i >= v.size, i + 1, LAMBDA w : Put(w, i, x))

\* j is unsigned: moving the elements from 0 on never comes to an end.
ShiftedIn(v, i, x) ==
    IF i = 0 THEN LOST
    ELSE Store(v, i, <<x>> \o SubSeq(Contents(v), i + 1, v.used), v.used + 1)

Insert(v, i, x) ==
    LET must    == i >= v.size \/ (i < v.used /\ v.used = v.size)
        request == IF i >= v.size THEN i + 1 ELSE v.size + 1
    IN  Attempt(v, must, request,
                LAMBDA w : IF i >= v.used THEN Put(w, i, x) ELSE ShiftedIn(w, i, x))

Remove(v, i) ==
    IF i < v.used
    THEN {Outcome("ok", Store(v, i, Append(SubSeq(Contents(v), i + 2, v.used), Default),
                              v.used - 1))}
    ELSE {Outcome("EDOM", v)}

Clear(v, i) == IF i < v.used THEN {Outcome("ok", Store(v, i, <<Default>>, v.used))}
                             ELSE {Outcome("EDOM", v)}

RemoveLast(v) ==
    IF v.used > 0 THEN {Outcome("ok", Store(v, v.used - 1, <<Default>>, v.used - 1))}
                  ELSE {Outcome("EDOM", v)}

Appended(v, xs) == Store(v, v.used, xs, v.used + Len(xs))

\* Mutant of AppendOne: it grows one element too late.
AppendOneLate(v, x) == Attempt(v, v.used > v.size, v.used + 1, LAMBDA w : Appended(w, <<x>>))

AppendGrows(v) == IF v.of = "char" THEN v.used = v.size ELSE v.used >= v.size

AppendOne(v, x) ==
    Attempt(v, AppendGrows(v), v.used + 1, LAMBDA w : Appended(w, <<x>>))

\* Of characters, when there is room already.
AppendNGrows(v, n) == IF v.of = "char" THEN v.used + n < v.size ELSE v.used + n >= v.size

\* append_n of the elements of src.
Concatenate(v, src, same) ==
    LET total == v.used + src.used
        must  == AppendNGrows(v, src.used)
    IN  Attempt(v, must, total, LAMBDA w : Appended(w, Contents(src)))
        \cup Moved(v, same, must, total)
=============================================================================
