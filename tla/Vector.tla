------------------------------- MODULE Vector -------------------------------
(* A program that calls the functions of VectorOps on its vectors in any      *)
(* order, with any arguments.                                                 *)
EXTENDS VectorOps

CONSTANTS Handles, \* the vectors of the program
          MaxUsed  \* bound on the length of a vector

VARIABLES type, \* what the elements are
          vec,  \* handle -> vector, or NULL
          lost, \* memory outside a block has been accessed
          call  \* the call just made and its result

vars == <<type, vec, lost, call>>

\* The sizes that vectors of such lengths have.
Sizes == {0} \cup {POLICY_SIZE_STEP(n) : n \in 0 .. MaxUsed}

\* The arrays of the program, below, are no longer than MaxUsed, and lengths are
\* of size_t; NULL and LOST are neither vectors nor sequences of elements.
ASSUME MaxUsedAssumption == /\ MaxUsed \in 2 .. WordSize - 1
                            /\ \A size \in Sizes : VectorsOf(size) \cap {NULL, LOST} = {}
                            /\ NULL \notin Seq(Val)

Init == /\ type \in Type
        /\ vec = [h \in Handles |-> NULL]
        /\ lost = FALSE
        /\ call = [fn |-> "none", on |-> NULL, args |-> <<>>, ret |-> "ok"]

Live == {h \in Handles : vec[h] # NULL}

\* The function fn has been called on h and has had one of its outcomes.
Returns(fn, h, args, outcomes) ==
    \E o \in outcomes :
       /\ call' = [fn |-> fn, on |-> h, args |-> args, ret |-> o.ret]
       /\ \/ o.vec = LOST /\ lost' = TRUE /\ UNCHANGED vec
          \/ o.vec # LOST /\ vec' = [vec EXCEPT ![h] = o.vec] /\ UNCHANGED lost
       /\ UNCHANGED type

Index   == 0 .. MaxUsed - 1
Lengths == {1, MaxUsed}                   \* of slices
Outside == UNION {[1 .. n -> Val] : n \in 0 .. 2} \* arrays of the caller

CallCreate(h, n)    == vec[h] = NULL /\ Returns("Create", h, <<n>>, Create(type, n))
CallCreateFrom(h, xs) ==
    vec[h] = NULL /\ Returns("copy_from", h, <<xs>>, CreateFrom(type, xs))
CallCopyFrom(h, xs) == h \in Live /\ Returns("copy_from", h, <<xs>>, CopyFrom(vec[h], xs))
CallCopy(h, g)      == g \in Live /\ Returns("copy", h, <<g>>, Copy(vec[h], vec[g]))

CallSlice(h, g, start, len) ==
    {h, g} \subseteq Live
    /\ Returns("slice", h, <<g, start, len>>, Slice(vec[h], vec[g], start, len, h = g))

CallReplace(h, i, x) == h \in Live /\ Returns("replace", h, <<i, x>>, Replace(vec[h], i, x))

CallInsert(h, i, x) == /\ h \in Live
                       /\ vec[h].used < MaxUsed
                       /\ Returns("insert", h, <<i, x>>, Insert(vec[h], i, x))

CallRemove(h, i)  == h \in Live /\ Returns("remove", h, <<i>>, Remove(vec[h], i))
CallClear(h, i)   == h \in Live /\ Returns("clear", h, <<i>>, Clear(vec[h], i))
CallRemoveLast(h) == h \in Live /\ Returns("remove_last", h, <<>>, RemoveLast(vec[h]))

CallAppend(h, x) == /\ h \in Live
                    /\ vec[h].used < MaxUsed
                    /\ Returns("append", h, <<x>>, AppendOne(vec[h], x))

CallConcatenate(h, g) ==
    /\ {h, g} \subseteq Live
    /\ vec[h].used + vec[g].used <= MaxUsed
    /\ Returns("concatenate", h, <<g>>, Concatenate(vec[h], vec[g], h = g))

\* _Delete frees nothing: it looks at a fresh pointer, not at the vector's.
CallDelete(h) == h \in Live /\ Returns("Delete", h, <<>>, {Outcome("ok", vec[h])})

Next == /\ ~lost
        /\ \E h \in Handles :
              \/ \E n \in Index : CallCreate(h, n)
              \/ \E xs \in Outside : CallCreateFrom(h, xs) \/ CallCopyFrom(h, xs)
              \/ \E g \in Handles : CallCopy(h, g) \/ CallConcatenate(h, g)
              \/ \E g \in Handles : \E start \in Index, len \in Lengths : CallSlice(h, g, start, len)
              \/ \E i \in Index, x \in Val : CallReplace(h, i, x) \/ CallInsert(h, i, x)
              \/ \E i \in Index : CallRemove(h, i) \/ CallClear(h, i)
              \/ CallRemoveLast(h)
              \/ \E x \in Val : CallAppend(h, x)
              \/ CallDelete(h)

Spec == Init /\ [][Next]_vars

----------------------------------------------------------------------------
(* Correctness *)

\* Every vector has a block of the size it believes to have, with room for
\* all that it has in use.
TypeOK == /\ lost \in BOOLEAN
          /\ \A h \in Live : IsVector(vec[h]) /\ vec[h].of = type

\* The used pointers of a vector lie within the size it asked malloc for, not
\* merely within what malloc happened to add (append_n's guard).
UsedWithinSize == type = "pointer" => \A h \in Live : vec[h].used <= vec[h].size

Sequences == INSTANCE VectorADT
             WITH seqs <- [h \in Handles |-> IF vec[h] = NULL THEN NULL
                                               ELSE Contents(vec[h])]

\* As long as no memory outside a block is touched, every function changes the
\* sequence of elements as its comment says, no other vector is affected, and
\* one that fails, for want of memory or for its index, changes nothing.
ImplementsSequences == Sequences!Init /\ [][Sequences!Next \/ lost']_Sequences!vars

\* Memory outside a block is only touched by an insert at the front, by adding
\* a vector to itself, where the guard of append or append_n does not grow a
\* block that is too small, and by functions of a vector that, for that reason,
\* has more in use than its size.
Overfull(v) == v.used > v.size

LostOnly ==
    [][lost' /\ ~lost =>
          LET v == vec[call'.on] IN
          CASE call'.fn = "insert"      -> call'.args[1] = 0 \/ Overfull(v)
            [] call'.fn = "slice"       -> call'.on = call'.args[1] /\ Overfull(v)
            [] call'.fn = "append"      -> v.used >= v.size /\ ~AppendGrows(v)
            [] call'.fn = "concatenate" ->
                  LET n == vec[call'.args[1]].used
                  IN  \/ call'.on = call'.args[1]
                      \/ v.used + n > v.size /\ ~AppendNGrows(v, n)
            [] OTHER                    -> FALSE]_vars
=============================================================================
