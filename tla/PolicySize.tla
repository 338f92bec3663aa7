----------------------------- MODULE PolicySize -----------------------------
(* The size policy of the vectors (policy_size.h): how many elements a vector *)
(* allocates when it is asked for a number of them.  size_t arithmetic is     *)
(* modulo WordSize.                                                           *)
EXTENDS Integers

CONSTANTS WordSize, \* 2^64
          SizeMin,  \* the least size
          SizeMax,  \* requests up to it are rounded up to a multiple of SizeStep
          SizeStep

ASSUME PolicySizeAssumption ==
    /\ {WordSize, SizeMin, SizeMax, SizeStep} \subseteq Nat \ {0}
    /\ SizeMax + SizeStep <= WordSize

\* (rq + ~step_mask) & step_mask
RoundUp(rq) == LET sum == (rq + (SizeStep - 1)) % WordSize
               IN  sum - (sum % SizeStep)

POLICY_SIZE_STEP(rq) == IF rq <= SizeMin THEN SizeMin
                        ELSE IF rq <= SizeMax THEN RoundUp(rq)
                        ELSE rq
=============================================================================
