------------------------------ MODULE Readlink ------------------------------
(* Reading symbolic links: str_readlink, str_realpath, and str_getexe_pid,    *)
(* which reads the link /proc/<pid>/exe.                                      *)
(*                                                                            *)
(* The file that a path names belongs to others: between two system calls of  *)
(* a function it may be removed, replaced by a link to elsewhere or by what   *)
(* is no link, or become unreadable.  That is what happens to /proc/<pid>/exe *)
(* when the process exits and its pid is given to another.                    *)
EXTENDS System

CONSTANTS Text,       \* what a link may point to
          Length,     \* text -> its number of characters
          FirstSize,  \* what is read at first of a link whose st_size is 0
          ENOENT, EACCES

ASSUME ReadlinkAssumption ==
    /\ \A t \in Text : Length[t] \in Nat \ {0}
    /\ \E longest \in Text : \A t \in Text : Length[t] <= Length[longest] \* PATH_MAX
    /\ FirstSize \in Nat \ {0}
    /\ {ENOENT, EINVAL, EACCES, ENOMEM} \subseteq 1 .. 2 ^ bits_errno - 1

VARIABLES file,   \* what the path names
          size,   \* st_size, and then what the buffer has room for
          target, \* the caller's string
          seen,   \* the links the file has been during the call
          failed  \* kinds of calls of the function that have failed

progVars == <<fn, pc, size, result, target, failed>>
linkVars == <<file, seen, progVars>>

----------------------------------------------------------------------------
(* The file *)

Gone == [kind |-> "none"]
Dir  == [kind |-> "dir"]

Link(text, stated, readable) ==
    [kind |-> "link", text |-> text, st_size |-> stated, readable |-> readable]

\* /proc gives a link the size 0, other file systems its length.
Files == {Gone, Dir} \cup UNION {{Link(t, n, readable) : n \in {0, Length[t]}} :
                                     t \in Text, readable \in BOOLEAN}

TextOf(f) == IF f.kind = "link" THEN {f.text} ELSE {}

Change == /\ file' \in Files
          /\ seen' = seen \cup TextOf(file')
          /\ UNCHANGED progVars

----------------------------------------------------------------------------
(* The functions *)

\* The first n characters of a text, and what was in target before the call.
Part(text, n) == [text |-> text, chars |-> n]
Old           == [text |-> NULL, chars |-> 0]

\* pc is the system call or the allocation that the function makes next.
LinkInit == /\ file \in Files
            /\ seen = TextOf(file)
            /\ fn \in {"str_readlink", "str_realpath", "str_getexe_pid"}
            /\ pc = fn
            /\ size = 0
            /\ result = ok
            /\ target = Old
            /\ failed = {}

Goto(next) == pc' = next /\ UNCHANGED <<file, seen, fn>>

Done(res, tgt, failure) == /\ Goto("done")
                           /\ result' = res
                           /\ target' = tgt
                           /\ failed' = failed \cup failure
                           /\ UNCHANGED size

Fails(call, errno) == Done(ERRORS_STD_ERRNO(errno), target, {call})

\* str_copy_cstring (target, tgt)
Copy(text, n) == Done(ok, Part(text, n), {}) \/ Fails("nomem", ENOMEM)

\* str_realpath: libc does the reading and allocates what it returns.
Realpath == /\ pc = "str_realpath"
            /\ \/ \E t \in Text : Copy(t, Length[t])
               \/ \E errno \in {ENOENT, EACCES, ENOMEM} : Fails("realpath", errno)

\* str_getexe_pid: Create (&exefile, 0)
Getexe == /\ pc = "str_getexe_pid"
          /\ \/ Goto("path") /\ UNCHANGED <<size, result, target, failed>>
             \/ Fails("nomem", ENOMEM)

\* str_getprocfs_pid: /proc/<pid>/ and "exe" fit the first block of the path.
\* If "exe" cannot be allocated the path stays empty; the result of all this is
\* overwritten by that of str_readlink.
GetexePath ==
    /\ pc = "path"
    /\ \/ Goto("str_readlink") /\ UNCHANGED <<size, result, target, failed>>
       \/ Goto("empty") /\ result' = ERRORS_STD_ERRNO(ENOMEM) /\ failed' = {"nomem"}
          /\ UNCHANGED <<size, target>>

\* str_readlink of an empty path.
LstatEmpty == pc = "empty" /\ Fails("lstat", ENOENT)

\* str_lstat.  S_ISLNK: a size of 0 is taken for that of a link in /proc.
Lstat ==
    /\ pc = "str_readlink"
    /\ \/ /\ file.kind = "link"
          /\ size' = IF file.st_size = 0 THEN FirstSize ELSE file.st_size
          /\ Goto("reallocate")
          /\ UNCHANGED <<result, target, failed>>
       \/ file.kind = "dir" /\ Fails("lstat", EINVAL)
       \/ file.kind = "none" /\ Fails("lstat", ENOENT)

\* mem_reallocate (&tgt, size+1)
Reallocate == /\ pc = "reallocate"
              /\ \/ /\ result' = ok
                    /\ Goto("readlink")
                    /\ UNCHANGED <<size, target, failed>>
                 \/ Fails("nomem", ENOMEM)

Min2(a, b) == IF a < b THEN a ELSE b

\* Mutants of Enlarge: the buffer stays as it is; it grows in larger steps; the
\* loop ends.
EnlargeNot      == Goto("reallocate") /\ UNCHANGED <<size, result, target, failed>>
EnlargeFourfold == /\ Goto("reallocate")
                   /\ size' = 4 * size
                   /\ UNCHANGED <<result, target, failed>>
EnlargeOnce     == Done(result, target, {})

\* Mutant of WholeRead: a buffer that is full is taken for the whole link.
WholeReadFull(nr) == nr <= size + 1

\* There was room for one more: this is all there is.
WholeRead(nr) == nr < size + 1

Enlarge == Goto("reallocate") /\ size' = 2 * size /\ UNCHANGED <<result, target, failed>>

\* nr < 0: the loop ends with the result of mem_reallocate.
ReadlinkFails == Done(result, target, {"readlink"})

\* readlink (cpath, tgt, size+1)
ReadlinkCall ==
    /\ pc = "readlink"
    /\ \/ /\ file.kind = "link" /\ file.readable
          /\ LET nr == Min2(Length[file.text], size + 1) IN
             \/ WholeRead(nr) /\ Copy(file.text, nr)
             \/ ~WholeRead(nr) /\ Enlarge
       \/ ~(file.kind = "link" /\ file.readable) /\ ReadlinkFails

Step == \/ Realpath \/ Getexe \/ GetexePath \/ LstatEmpty
        \/ Lstat \/ Reallocate \/ ReadlinkCall

LinkNext == Step \/ Change

\* The program's one thread runs on; nobody must change the file, or leave it.
LinkSpec == LinkInit /\ [][LinkNext]_linkVars /\ WF_linkVars(Step)

----------------------------------------------------------------------------
(* Correctness *)

PCs == {"str_readlink", "str_realpath", "str_getexe_pid", "path", "empty", "reallocate",
        "readlink", "done"}

LongestText == CHOOSE t \in Text : \A u \in Text : Length[u] <= Length[t]

\* The type of every variable.  The buffer is never more than twice as large as
\* the longest link, unless it is that of the first read.
LinkTypeOK ==
    /\ file \in Files
    /\ pc \in PCs
    /\ size \in {FirstSize} \cup 0 .. 2 * Length[LongestText]
    /\ result \in 0 .. Words - 1
    /\ target \in {Old} \cup [text : Text, chars : Nat]
    /\ seen \subseteq Text
    /\ failed \subseteq {"nomem", "lstat", "realpath", "readlink"}

\* What a caller of str_readlink gets is untouched or the whole of what the file
\* pointed to at some time during the call, never the beginning of it, or of one
\* link with the length of another, however it changed meanwhile (nr < size+1).
TargetWholeOrUntouched ==
    target # Old =>
        /\ target.chars = Length[target.text]
        /\ fn # "str_realpath" => target.text \in seen

\* The target is written just if nothing failed, and the result tells whether
\* it was, but for one failure: that of readlink itself, which is returned as
\* ok, although str_readlink reads "until (size < request)".
OnlyReadlinkFailsUnnoticed ==
    pc = "done" => /\ target # Old <=> failed = {}
                   /\ result = ok <=> failed \subseteq {"readlink"}

\* The function returns, although others may lengthen the link while it reads.
Returns == <>(pc = "done")
=============================================================================
