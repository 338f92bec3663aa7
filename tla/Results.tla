------------------------------ MODULE Results ------------------------------
(* The results of errors.h: a word in which an error flag, a severity, a      *)
(* reserved field, a facility and an errno lie side by side.                  *)
(*                                                                            *)
(* A result is the natural number that has its bits (the code reads the same  *)
(* bits as a signed int64_t); widths are constants, 1, 3, 28, 16 and 16 in    *)
(* the code.                                                                  *)
EXTENDS Integers

CONSTANTS bits_errno, bits_facility, bits_reserved, bits_severity, bits_err

ASSUME ResultsAssumption ==
    /\ {bits_errno, bits_facility, bits_reserved, bits_severity} \subseteq Nat \ {0}
    /\ bits_err = 1 \* the sign of the code's int64_t

off_errno    == 0
off_facility == off_errno + bits_errno
off_reserved == off_facility + bits_facility
off_severity == off_reserved + bits_reserved
off_err      == off_severity + bits_severity

Words == 2 ^ (off_err + bits_err)

ok == 0
err == Words - 1 \* -1

\* x & MASK_BITS (n)
Low(x, n) == x % 2 ^ n

\* Mutant of ERRORS_STD_ERRNO: the bits above errno are not set.
ERRORS_BARE_ERRNO(erno) == Low(erno, bits_errno)

\* MASK_CLRBITS (bits_errno) | (erno & MASK_BITS (bits_errno))
ERRORS_STD_ERRNO(erno) == Words - 2 ^ bits_errno + Low(erno, bits_errno)

----------------------------------------------------------------------------
(* Fields *)

error_field_get(r, width, offset) == Low(r \div 2 ^ offset, width)

\* Mutant of error_field_set: the field is not cleared.
error_field_add(r, x, width, offset) == r + Low(x, width) * 2 ^ offset

\* BITS_CLRFLD (r, width, offset) | BITS_SETFLD (x, width, offset)
error_field_set(r, x, width, offset) ==
    r + (Low(x, width) - error_field_get(r, width, offset)) * 2 ^ offset

error_errno_set(r, x)    == error_field_set(r, x, bits_errno, off_errno)
error_facility_set(r, x) == error_field_set(r, x, bits_facility, off_facility)
error_reserved_set(r, x) == error_field_set(r, x, bits_reserved, off_reserved)
error_severity_set(r, x) == error_field_set(r, x, bits_severity, off_severity)
error_err_set(r, x)      == error_field_set(r, x, bits_err, off_err)

error_errno(r)    == error_field_get(r, bits_errno, off_errno)
error_facility(r) == error_field_get(r, bits_facility, off_facility)
error_severity(r) == error_field_get(r, bits_severity, off_severity)

\* Mutant of error_encode: the reserved bits stay 0.
error_encode_unreserved(severity, facility, errno) ==
    error_err_set(0, 1) + error_severity_set(0, severity)
    + error_facility_set(0, facility) + error_errno_set(0, errno)

\* The fields do not overlap: or is plus.
error_encode(severity, facility, errno) ==
    error_err_set(0, 1) + error_severity_set(0, severity) + error_reserved_set(0, -1)
    + error_facility_set(0, facility) + error_errno_set(0, errno)

ERROR_STD_SEVERITY == -1
ERROR_STD_FACILITY == -1

error_std_errno(errno) == error_encode(ERROR_STD_SEVERITY, ERROR_STD_FACILITY, errno)

\* The setters, by field, and what the fields hold.
Set(field, r, x) == CASE field = "errno"    -> error_errno_set(r, x)
                      [] field = "facility" -> error_facility_set(r, x)
                      [] field = "reserved" -> error_reserved_set(r, x)
                      [] field = "severity" -> error_severity_set(r, x)
                      [] field = "err"      -> error_err_set(r, x)

Width == [errno    |-> bits_errno,    facility |-> bits_facility, reserved |-> bits_reserved,
          severity |-> bits_severity, err      |-> bits_err]

Held(r) == [errno    |-> error_errno(r),    facility |-> error_facility(r),
            severity |-> error_severity(r),
            reserved |-> error_field_get(r, bits_reserved, off_reserved),
            err      |-> error_field_get(r, bits_err, off_err)]
=============================================================================
