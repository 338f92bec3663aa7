----------------------------- MODULE VectorADT -----------------------------
(* What a vector is to its callers: a sequence of values, which operations    *)
(* with an index (from 0) change as the comment above append_n in charvec.c   *)
(* says, and which an operation that fails leaves as it was.                  *)
EXTENDS Integers, Sequences

CONSTANTS Handles,  \* the vectors of the program
          Val,      \* elements
          Default,  \* the element that fills gaps
          MaxUsed,  \* bound on the length of a vector
          NULL      \* no vector

VARIABLES seqs,     \* handle -> its sequence, NULL before it is created
          call      \* the call just made and its result

vars == <<seqs, call>>

Live     == {h \in Handles : seqs[h] # NULL}
Index    == 0 .. MaxUsed - 1
Lengths  == {1, MaxUsed}                   \* of slices
Outside  == UNION {[1 .. n -> Val] : n \in 0 .. 2} \* arrays of the caller
Fill(n)  == [k \in 1 .. n |-> Default]

NoCall == [fn |-> "none", on |-> NULL, args |-> <<>>, ret |-> "ok"]

Init == /\ seqs = [h \in Handles |-> NULL]
        /\ call = NoCall

Returns(h, fn, args, ret) == call' = [fn |-> fn, on |-> h, args |-> args, ret |-> ret]

Succeed(h, fn, args, seq) == /\ Returns(h, fn, args, "ok")
                             /\ Len(seq) <= MaxUsed
                             /\ seqs' = [seqs EXCEPT ![h] = seq]

Keep(h, fn, args, ret) == Returns(h, fn, args, ret) /\ UNCHANGED seqs

\* Operations that may need memory.
Grows(h, fn, args, seq) == Succeed(h, fn, args, seq) \/ Keep(h, fn, args, "ENOMEM")

Create(h, n) == Grows(h, "Create", <<n>>, <<>>) /\ seqs[h] = NULL

Copy(h, g) == Grows(h, "copy", <<g>>, seqs[g]) /\ seqs[g] # NULL

CopyFrom(h, xs) == Grows(h, "copy_from", <<xs>>, xs)

Replace(h, i, x) ==
    LET s == seqs[h] IN
    Grows(h, "replace", <<i, x>>,
          IF i < Len(s) THEN [s EXCEPT ![i + 1] = x]
          ELSE s \o Fill(i - Len(s)) \o <<x>>)

Insert(h, i, x) ==
    LET s == seqs[h] IN
    Grows(h, "insert", <<i, x>>,
          IF i < Len(s) THEN SubSeq(s, 1, i) \o <<x>> \o SubSeq(s, i + 1, Len(s))
          ELSE s \o Fill(i - Len(s)) \o <<x>>)

Append_(h, x) == Grows(h, "append", <<x>>, Append(seqs[h], x))

Concatenate(h, g) == Grows(h, "concatenate", <<g>>, seqs[h] \o seqs[g])

Remove(h, i) ==
    LET s == seqs[h] IN
    IF i < Len(s)
    THEN Succeed(h, "remove", <<i>>, SubSeq(s, 1, i) \o SubSeq(s, i + 2, Len(s)))
    ELSE Keep(h, "remove", <<i>>, "EDOM")

Clear(h, i) ==
    LET s == seqs[h] IN
    IF i < Len(s) THEN Succeed(h, "clear", <<i>>, [s EXCEPT ![i + 1] = Default])
                  ELSE Keep(h, "clear", <<i>>, "EDOM")

RemoveLast(h) ==
    LET s == seqs[h] IN
    IF s # <<>> THEN Succeed(h, "remove_last", <<>>, SubSeq(s, 1, Len(s) - 1))
                ELSE Keep(h, "remove_last", <<>>, "EDOM")

Slice(h, g, start, len) ==
    LET s    == seqs[g]
        stop == IF start + len > Len(s) THEN Len(s) ELSE start + len
    IN  IF start < Len(s)
        THEN Grows(h, "slice", <<g, start, len>>, SubSeq(s, start + 1, stop))
        ELSE Keep(h, "slice", <<g, start, len>>, "ERANGE")

\* The contents of a vector that has been deleted are of no interest.
Delete(h) == Keep(h, "Delete", <<>>, "ok")

Next == \/ \E h \in Handles :
              \/ \E n \in Index : Create(h, n)
              \/ \E g \in Handles : Copy(h, g)
              \/ \E xs \in Outside : CopyFrom(h, xs)
        \/ \E h \in Live :
              \/ \E i \in Index, x \in Val : Replace(h, i, x) \/ Insert(h, i, x)
              \/ \E x \in Val : Append_(h, x)
              \/ \E i \in Index : Remove(h, i) \/ Clear(h, i)
              \/ RemoveLast(h)
              \/ Delete(h)
              \/ \E g \in Live : Concatenate(h, g)
              \/ \E g \in Live : \E start \in Index, len \in Lengths : Slice(h, g, start, len)

Spec == Init /\ [][Next]_vars
=============================================================================
