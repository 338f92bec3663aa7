------------------------------- MODULE Passwd -------------------------------
(* passwd.c: accounts copied out of libc's buffer into records of strings, by *)
(* calls that come in any order and may run out of memory at every string.    *)
EXTENDS System, Sequences

CONSTANTS Accounts, \* the accounts there are: field -> value
          Keys,     \* key -> the account that a login or a uid names, or NULL
          Address,  \* where records may lie: there is no memory for more
          Errnos    \* what errno may hold when getpwnam or getpwuid finds none

StringFields == <<"pw_name", "pw_passwd", "pw_gecos", "pw_dir", "pw_shell">>
Fields       == {StringFields[i] : i \in DOMAIN StringFields} \cup {"pw_uid", "pw_gid"}

ASSUME PasswdAssumption ==
    /\ \A account \in Accounts : DOMAIN account = Fields
    /\ \A key \in DOMAIN Keys : Keys[key] \in Accounts \cup {NULL}
    /\ NULL \notin Accounts /\ NULL \notin Address \cup DOMAIN Keys
    /\ {ENOMEM, EINVAL} \subseteq 1 .. 2 ^ bits_errno - 1
    /\ Errnos \subseteq 0 .. 2 ^ bits_errno - 1

VARIABLES heap,   \* address -> record, of the records that are allocated
          handle, \* the caller's str_passwd_t*
          own,    \* the caller's str_passwd_t
          key,    \* what the function is to look up or copy
          pw,     \* its pointer to the record it is to fill
          made,   \* strings that it has made and not freed
          before  \* heap, handle and own before the call

callers == <<heap, handle, own>>
vars    == <<callers, fn, key, pc, pw, made, result, before>>

Zeroed == [f \in Fields |-> NULL]

Init == /\ heap = <<>>
        /\ handle = NULL
        /\ own = Zeroed
        /\ fn = "none" /\ key = NULL
        /\ pc = "returned"
        /\ pw = NULL
        /\ made = 0
        /\ result = ok
        /\ before = callers

Known == key # NULL /\ Keys[key] # NULL

Allocates == fn \in {"str_passwd_Create", "str_getpwnam_r", "str_getpwuid_r"}

\* The record that the function is to fill, filled with rec.
Record     == IF Allocates THEN heap[pw] ELSE own
Filled(rec) == IF Allocates THEN heap' = [heap EXCEPT ![pw] = rec] /\ UNCHANGED own
                            ELSE own' = rec /\ UNCHANGED heap

Continue(next) == pc' = next /\ UNCHANGED <<fn, key, result, before>>

Return(res) == pc' = "returned" /\ result' = res /\ UNCHANGED <<fn, key, before>>

----------------------------------------------------------------------------
(* Calls *)

Call(f, k, next) == /\ pc = "returned"
                    /\ fn' = f /\ key' = k /\ pc' = next
                    /\ pw' = NULL /\ made' = 0
                    /\ before' = callers
                    /\ UNCHANGED <<callers, result>>

\* Create copies an account that the caller has, or none.
CallCreate  == \E k \in {NULL} \cup {name \in DOMAIN Keys : Keys[name] # NULL} :
                  Call("str_passwd_Create", k, "allocate")
CallDelete  == Call("str_passwd_Delete", NULL, "delete")
CallLookup  == \E k \in DOMAIN Keys : \/ Call("str_getpwnam", k, "lookup")
                                      \/ Call("str_getpwuid", k, "lookup")
CallLookupR == \E k \in DOMAIN Keys : \/ Call("str_getpwnam_r", k, "allocate")
                                      \/ Call("str_getpwuid_r", k, "allocate")

\* A null user, and a null pointer to a record or to the handle.
CallNull == \/ Call("str_getpwnam", NULL, "lookup")
            \/ Call("str_getpwnam_r", NULL, "allocate")
            \/ Call("str_getpwuid", NULL, "null")
            \/ Call("str_passwd_Delete", NULL, "null")

----------------------------------------------------------------------------
(* The functions *)

\* str_Delete of n strings: charvec_Delete looks at a fresh null pointer
\* instead of its argument, and frees nothing.
Kept(n) == n

\* Mutant of Unwind: the record is not freed.
UnwindKeeping(res) == /\ made' = Kept(made)
                      /\ UNCHANGED <<callers, pw>>
                      /\ Return(res)

\* The function fails: it frees the record that it allocated, if any.
Unwind(res) ==
    /\ heap' = [a \in DOMAIN heap \ {pw} |-> heap[a]]
    /\ pw' = NULL
    /\ made' = Kept(made)
    /\ UNCHANGED <<handle, own>>
    /\ Return(res)

\* mem_allocate, cleared.  Create without an account has no more to do.
Allocate ==
    /\ pc = "allocate"
    /\ \/ \E a \in Address \ DOMAIN heap :
             /\ heap' = [b \in DOMAIN heap \cup {a} |-> IF b = a THEN Zeroed ELSE heap[b]]
             /\ pw' = a
             /\ UNCHANGED <<own, made>>
             /\ \/ fn = "str_passwd_Create" /\ key = NULL /\ handle' = a /\ Return(ok)
                \/ fn = "str_passwd_Create" /\ key # NULL /\ Continue("make") /\ UNCHANGED handle
                \/ fn # "str_passwd_Create" /\ Continue("lookup") /\ UNCHANGED handle
       \/ Return(ERRORS_STD_ERRNO(ENOMEM)) /\ UNCHANGED <<callers, pw, made>>

\* getpwnam and getpwuid may fail on an account there is, and leave errno
\* alone, which may be 0, if there is none.
Lookup ==
    /\ pc = "lookup"
    /\ \/ Known /\ Continue("make") /\ UNCHANGED <<callers, pw, made>>
       \/ key # NULL /\ \E errno \in Errnos : Unwind(ERRORS_STD_ERRNO(errno))
       \/ key = NULL /\ Unwind(ERRORS_STD_ERRNO(EINVAL))

\* Mutant of MakeString: the string is put where it belongs at once.
MakeStringInPlace ==
    /\ pc = "make" /\ made < Len(StringFields)
    /\ \/ /\ made' = made + 1
          /\ Continue("make")
          /\ Filled([Record EXCEPT ![StringFields[made + 1]] = Keys[key][StringFields[made + 1]]])
          /\ UNCHANGED <<handle, pw>>
       \/ Unwind(ERRORS_STD_ERRNO(ENOMEM))

\* str_Create_cstring of the next field, for a variable of the function.
MakeString ==
    /\ pc = "make" /\ made < Len(StringFields)
    /\ \/ made' = made + 1 /\ Continue("make") /\ UNCHANGED <<callers, pw>>
       \/ Unwind(ERRORS_STD_ERRNO(ENOMEM))

\* The record is filled when there are all of them, and given to the caller.
Make == /\ pc = "make" /\ made = Len(StringFields)
        /\ Filled(Keys[key])
        /\ handle' = IF Allocates THEN pw ELSE handle
        /\ Return(ok)
        /\ UNCHANGED <<pw, made>>

\* The test of the pointer that str_passwd_Delete, str_getpwnam and
\* str_getpwuid are given.
NullArgument == /\ pc = "null"
                /\ Return(ERRORS_STD_ERRNO(EINVAL))
                /\ UNCHANGED <<callers, pw, made>>

\* Mutant of Delete: the caller's pointer is left as it was.
DeleteDangling == /\ pc = "delete"
                  /\ heap' = [a \in DOMAIN heap \ {handle} |-> heap[a]]
                  /\ Return(ok)
                  /\ UNCHANGED <<handle, own, pw, made>>

\* The record is freed, its strings are not.
Delete == /\ pc = "delete"
          /\ heap' = [a \in DOMAIN heap \ {handle} |-> heap[a]]
          /\ handle' = NULL
          /\ Return(ok)
          /\ UNCHANGED <<own, pw, made>>

Next == \/ CallCreate \/ CallDelete \/ CallLookup \/ CallLookupR \/ CallNull
        \/ Allocate \/ Lookup \/ MakeString \/ Make \/ Delete \/ NullArgument

Spec == Init /\ [][Next]_vars

----------------------------------------------------------------------------
(* Correctness *)

\* No record mixes two accounts or lacks a string, the caller's own included,
\* which is filled a second time, after and during any failure
\* (str_passwd_make).
RecordsAreAccounts ==
    /\ own \in Accounts \cup {Zeroed}
    /\ \A a \in DOMAIN heap : heap[a] \in Accounts \cup {Zeroed}

\* ok means that the record is that of the user asked for, and so there is one:
\* an errno of 0 does not turn an unknown user into success.
OkMeansFound ==
    pc = "returned" /\ result = ok =>
        /\ fn \in {"str_getpwnam", "str_getpwuid"} => Known /\ own = Keys[key]
        /\ fn \in {"str_getpwnam_r", "str_getpwuid_r"} => Known /\ heap[handle] = Keys[key]

\* A call that fails has changed nothing of the caller's and leaves no record
\* allocated, wherever it failed.
FailureChangesNothing == pc = "returned" /\ result # ok => callers = before

\* The caller's pointer never points to a record that has been freed.
HandleIsLive == handle # NULL => handle \in DOMAIN heap

\* A call that fails gives its caller the errno, one that there was or that the
\* function chose, in the form in which error_encode would have put it.
FailureCarriesErrno ==
    result # ok => /\ result = error_std_errno(error_errno(result))
                   /\ error_errno(result) \in Errnos \cup {ENOMEM, EINVAL}
                   /\ error_severity(result) = Low(ERROR_STD_SEVERITY, bits_severity)
                   /\ error_facility(result) = Low(ERROR_STD_FACILITY, bits_facility)

\* Setting a field of a result, ok or not, to any number, negative or too large,
\* stores as many of its bits as the field has and disturbs no other field.
FieldsAreApart ==
    \A field \in DOMAIN Width, x \in -2 ^ off_reserved .. 2 ^ off_reserved :
       Held(Set(field, result, x)) = [Held(result) EXCEPT ![field] = Low(x, Width[field])]
=============================================================================
