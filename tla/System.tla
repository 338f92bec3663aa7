------------------------------- MODULE System -------------------------------
(* A function of src/lib/system that the program has called.                  *)
EXTENDS Results

CONSTANTS NULL,
          EINVAL, ENOMEM \* of errno.h

VARIABLES fn,    \* the function called
          pc,    \* what it does next
          result \* its result
=============================================================================
