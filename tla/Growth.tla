------------------------------- MODULE Growth -------------------------------
(* The sizes of a vector of pointers and of its block in bytes, for requests  *)
(* of any size: numbers of elements and of bytes are computed modulo          *)
(* WordSize, and so is their product.  What the elements are is left to       *)
(* Vector, which keeps away from these limits.                                *)
EXTENDS PolicySize

CONSTANTS EltSize, \* bytes of an element: more than one
          FREED    \* the block after realloc (m, 0)

ASSUME GrowthAssumption ==
    /\ EltSize \in Nat \ {0, 1}
    /\ SizeMin * EltSize < WordSize
    /\ FREED \notin Nat

VARIABLES size, used, \* of the vector
          block,      \* bytes of its block, 0 if there is none
          huge,       \* a request has been made that does not fit the word
          outside     \* memory outside a block has been accessed

blockVars == <<size, used, block, huge, outside>>

Size == 0 .. WordSize - 1

BlockInit == /\ size = 0 /\ used = 0 /\ block = 0
             /\ huge = FALSE /\ outside = FALSE

\* So many elements, rounded up, have less bytes than there are addresses.
Fits(request) == (request + SizeStep) * EltSize <= WordSize

Wrap(n) == n % WordSize

\* Mutant of Bytes: the product does not wrap.
BytesUnwrapped(n) == n * EltSize

\* nelem * eltsize
Bytes(n) == Wrap(n * EltSize)

Resized(ret, sz, blk) == [ret |-> ret, size |-> sz, block |-> blk]

\* realloc of no bytes frees the block and returns null, which is an
\* error; the vector keeps the pointer.
pointervec_grow(request) ==
    LET n == POLICY_SIZE_STEP(request)
    IN  IF n <= size THEN {Resized("ok", size, block)}
        ELSE IF Bytes(n) = 0 /\ block # 0 THEN {Resized("ENOMEM", size, FREED)}
        ELSE {Resized("ok", n, Bytes(n)), Resized("ENOMEM", size, block)}

\* n elements lie within a block.
Holds(blk, n) == n = 0 \/ (blk # FREED /\ n * EltSize <= blk)

\* A function that grows the vector if it must, accesses its first touched
\* elements and sets used.
Access(must, request, touched, newused) ==
    /\ ~outside
    /\ \E o \in IF must THEN pointervec_grow(Wrap(request)) ELSE {Resized("ok", size, block)} :
          /\ size' = o.size
          /\ block' = o.block
          /\ used' = IF o.ret = "ok" THEN newused ELSE used
          /\ outside' = (o.ret = "ok" /\ ~Holds(o.block, touched))
    /\ huge' = (huge \/ (must /\ ~Fits(request)))

----------------------------------------------------------------------------
(* Functions *)

\* Create and grow.
pointervec_Create(n) == Access(TRUE, n, 0, used)

\* The elements between the last in use and i are filled.
pointervec_replace(i) ==
    IF i >= used THEN Access(i >= size, i + 1, i + 1, Wrap(i + 1))
                 ELSE Access(i >= size, i + 1, i + 1, used)

pointervec_append == Access(used >= size, used + 1, used + 1, used + 1)

\* Mutant of pointervec_append_n: the guard of charvec.c.
append_n_inverted(n) == Access(used + n < size, used + n, used + n, Wrap(used + n))

\* The n elements lie in memory.
pointervec_append_n(n) == Access(Wrap(used + n) >= size, used + n, used + n, Wrap(used + n))

\* Room for the strings and a null, that is always asked for.
strvec_argc_argv ==
    /\ ~outside
    /\ outside' = (~Holds(Bytes(Wrap(used + 1)), used + 1) \/ ~Holds(block, used))
    /\ huge' = (huge \/ ~Fits(used + 1))
    /\ UNCHANGED <<size, used, block>>

BlockNext == \/ \E n \in Size : pointervec_Create(n) \/ pointervec_replace(n)
             \/ \E n \in Size : n * EltSize < WordSize /\ pointervec_append_n(n)
             \/ pointervec_append
             \/ strvec_argc_argv

BlockSpec == BlockInit /\ [][BlockNext]_blockVars

----------------------------------------------------------------------------
(* Correctness *)

\* The type of every variable.
BlockTypeOK ==
    /\ size \in Size
    /\ used \in Nat
    /\ block \in Size \cup {FREED}
    /\ huge \in BOOLEAN
    /\ outside \in BOOLEAN

\* As long as no request has come near to the number of elements whose bytes
\* wrap, the block has room for exactly as many as the vector believes, no more
\* than those are in use, and no function leaves it (grow,
\* mem_reallocate_vec, mem_allocate_vec).
SmallRequestsFit ==
    ~huge => /\ ~outside
             /\ used <= size
             /\ block = size * EltSize
=============================================================================
