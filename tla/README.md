# Verification of borg-rsh-local

`borg-rsh-local` stands in for `ssh` when a borg client (root) and the borg
repository (owned by `dumpuser`) are on the same machine.  borg starts it as

    borg-rsh-local [-r /path] user@localhost borg serve [--umask=077]

and it becomes that user, builds a forced command and a restricted environment,
finds the borg script on its parent's command line and replaces itself with it.
This directory has TLA+ models of that program and of the small library it is
built on, TLC configurations, and proofs checked by TLAPS.

Paths below are those of the repository (`src/...` is its source directory).

## 1. Inventory

| component | state | operations | talks to |
|---|---|---|---|
| launcher, `src/borg-rsh-local.c` | `remote_t`; the credentials of the process | `main`: getopt, verify, parse, become user, environment, argv, parent's script, execve | everything below, kernel |
| process table (kernel) | processes, their pids, zombies | exit, wait, fork; `getppid`, `/proc` | launcher, concurrently |
| `lib/system/procfs_pid.c` | none | read another process's `cmdline`, `exe` | kernel, str, strvec |
| `lib/system/process.c` | none | `execve` with an argument vector and an environment | kernel, strvec |
| `lib/system/passwd.c` | copies of account records | look a user up | the passwd database, str |
| `lib/system/readlink.c, stat.c, realpath.c` | none | read a link into a growing buffer | kernel, str |
| `lib/vector/charvec.c, pointervec.c` | block, size, used, default | create, copy, slice, replace, insert, remove, clear, append, compare, find | memory, size policy |
| `lib/string/str.c` | a charvec with a NUL at its end | create, copy, append, substring, compare, find | charvec |
| `lib/string/strvec.c` | a pointervec of strings | wrappers; an argv for execve | pointervec, str |
| `lib/memory/memory.c` | the heap | allocate, reallocate, free | malloc |
| `lib/policy_size/policy_size.h` | none | how much to allocate for a request | vectors |
| `lib/errors/errors.h` | none | results of 64 bits: errno, facility, severity | everything |
| `original/borg-rsh-local.c` | as the launcher, self-contained | as the launcher | kernel |
| `lib/container/*.h`, `lib/libc/fileutil.c` | - | flags; a file that no Makefile builds | - |

All components run in one thread of one process.  What is concurrent is the
rest of the system: the client may exit at any time, be reaped, and its pid be
given to another process, while the program looks it up by pid; a link may be
removed, replaced or lengthened while it is read.

What is hard here, and hard to test:

* **partial failure**: every append may run out of memory, `setgid`,
  `initgroups` and `setuid` may fail one without the other, results are
  sometimes not looked at;
* **the parent's pid**: fetched once, used later, in two steps (open, read);
* **a link's length**: asked for once, used later for a buffer, in a loop;
* **arithmetic at the edges of blocks**: guards that decide whether a block is
  grown, unsigned loop counters, lengths and byte counts that wrap, differences
  of pointers that do not fit an int, fields of bits side by side;
* **state left behind**: elements behind those in use, a NUL that was taken off
  and not put back, elements read where they lay before a `realloc`.

What makes each component correct:

* launcher: the backend runs as the requested user, in its groups, never as
  root; with the whole forced command and environment or not at all; it is the
  client's script; a request that should be served is refused only for a
  reason; the program always ends one way or the other;
* vectors: they are sequences, whatever fails; nothing outside a block is
  touched; what is in use fits the size;
* strings: what C reads after a call is what the call's name says; the NUL is kept;
* search and comparison: they agree with their C counterparts whatever lies
  behind the elements in use;
* size policy and memory: what is allocated is never less than what was
  requested, in elements and in bytes;
* lists of strings: a program is run with whole lists, and no null string is used;
* account records: no record mixes two accounts; a failed call leaves nothing
  half made and says why; ok means found;
* links: what the caller gets is a whole link or nothing, and the loop ends;
* results: fields do not disturb each other; a failure carries its errno;
* original program: as the launcher, as far as its lists allow.

## 2. Modules

    RemoteShell          what the program promises (abstract)
    ProcTable            processes and pids (external, from its use)
    BorgRsh              the launcher, EXTENDS ProcTable, implements RemoteShell
    MCBorgRsh            instance: 16 command lines, 3 callers, 3 processes
    BorgRsh_proofs       theorems about BorgRsh, the refinement too
    PolicySize           POLICY_SIZE_STEP
    VectorOps            the functions of charvec and pointervec, EXTENDS PolicySize
    VectorOps_proofs     theorem about PolicySize; lemmas: what each function does to
                         the vector and to the sequence of its elements
    VectorADT            sequences (abstract)
    Vector               calls of these functions in any order, implements VectorADT
    MCVector             instance: vectors of characters or of pointers
    Vector_proofs        theorems about Vector and about Growth, EXTENDS VectorOps_proofs
    Str, MCStr           the functions of str.c, composed of those of VectorOps
    Str_proofs           theorems about Str, EXTENDS VectorOps_proofs
    Strvec, MCStrvec     the functions of strvec.c, also of those of VectorOps,
                         and execve with two lists
    Strvec_proofs        theorems about Strvec, EXTENDS VectorOps_proofs
    Search, MCSearch     comparing and finding, of charvec.c, str.c and strvec.c
    Search_proofs        theorems about Search
    Growth, MCGrowth     sizes of vectors up to the limits of the word, and
                         bytes of their blocks, EXTENDS PolicySize
    Results              the fields of a result (errors.h)
    System               what a program in a function of lib/system has, EXTENDS Results
    Readlink, MCReadlink str_readlink, str_realpath, str_getexe_pid against a
                         file that others change, EXTENDS System
    Passwd, MCPasswd     copying account records, EXTENDS System
    Passwd_proofs        theorems about Results, Passwd and Readlink
    Original, MCOriginal the original program, implements RemoteShell too
    Original_proofs      theorems about it, the refinement too

### BorgRsh

Variables: `pc` (the call of `main` being made), `cmd` (options and words of the
command line), `caller` and `cred` (credentials at the start and now), `r` (the
`remote_t`), `loc` (the locals of the function being run), `faults` (kinds of
calls that the environment made fail, a history variable that no action reads),
and `life`, `pid` of ProcTable.

There is one action per kernel call, per check, and per element appended to a
list.  `Refuse` and `Fail` are the `Fail_`/`False_` macros: the program ends.
`Build` is the pattern of `process_argv`, `make_ssh_original_command`,
`setup_environ` and `setup_nargv`: append, and give up the list when memory runs
out.  `Setgid`, `Initgroups` continue whether or not they succeed, as the code
does.  `Fopen` opens whatever process has the remembered pid at that time.
`NextArg`, `SpoiltArg`, `EndOfArgs` are the loop in `str_getargv_pid` with its
two results that are not looked at: an argument may become a null element or,
once the list has to grow, be dropped.

Abstractions: a string put together from words (`SSH_ORIGINAL_COMMAND`, an
environment entry) is the sequence of the words.  A word is a value; `Fields`
gives its parts between `@`s.  Words fit the first block of their charvec (128
characters) - what happens if they do not is the subject of Vector and Str.
The program is not set-uid; the process that inherits orphans never exits; the
client's command line does not change.

### Vectors

A vector is `[size, used, cells]`: `cells` is the block, with room for `size`
elements and for `Slack` more that malloc added in rounding up.  Elements that
`realloc` adds hold anything (`HAVE_MALLOC_USABLE_SIZE`, with which they would be
cleared, is defined in no Makefile); one value for all of them is chosen.  Each
function of the library is an operator whose value is the set of its outcomes
`[ret, vec]`, one more when memory runs out.  An access outside the block, or to
elements that have been freed, gives `LOST`: it is undefined what happens
then, and `Vector` and `Str` stop there.

charvec.c and pointervec.c are the same text for two element types, but for two
guards: a vector has the type of its elements (`of`), on which `AppendGrows` and
`AppendNGrows` depend.  `map` in PROJECT.json gives the operators in VectorOps the
lines of charvec.c and the calls in Vector those of pointervec.c.

Three operators take an operator and stand for a pattern of the code rather than
a function of it: `Attempt` (grow, and if that is ok do the rest), `Then` in Str
(the next call if the last one returned ok) and `FirstOf` in Search (a loop that
stops at the first position with a property).

Not in it: sizes near 2^64, which are the subject of Growth; `storeflag`/`objflag`,
always zero.  `_Delete` frees nothing (it looks at a fresh pointer), so it is a
call that changes nothing.

### Str and Search

`Str` composes the outcomes (`Then` is `if (result == ok) result = ...`).
`Search` is about pure functions: a behaviour picks two vectors of one type and
makes one call.  A comparison that reads behind the block has a set of results.
Elements are integers: characters have a sign, as C's `char` has here, so that
`str_compare` orders them as `strncmp` would if its characters had one; zero and not
zero, which is all that the program looks at, are the same for both.
`Minus` cuts the difference of two pointers down to an int, as pointervec.c does.

### Growth

Only the numbers: `size`, `used`, and `block`, the bytes of the block.  Numbers
wrap at `WordSize`; so does the product in `mem_reallocate_vec`.  `realloc` to 0
bytes frees the block and is an error, and the vector keeps its pointer (`FREED`).
`huge` records that a request has come within one step of the limit.

### Strvec

Two lists, `args` and `env`, and a string `x` that the program holds.  An element
is a string, named by its text, or null, which is the lists' default value.
`str_execve` and `str_execv` make a C argument vector of each list and either
replace the program (`ran`) or return.  `holes` is a history variable: the program
itself has put a null into a list.  The path they are given may be null too.

### Original

As BorgRsh: one action per call, check or append; but its lists (`strvec_t`) are
modelled with their cells, because `strvec_append` keeps no room for the null and
returns ok even if it appended nothing.  `Seen` is what execve reads of a list.

### Results, Readlink, Passwd

A result is the natural number that has its bits; the widths of the fields are
constants.  `Readlink` has one action per system call and allocation; `Change` is
anybody who replaces the file.  What is read is `[text, chars]`, so many characters
of a link's text.  `failed` records which kinds of calls have failed.  `Passwd` has
one action per string that is made; records have addresses (`heap`), so that a
pointer to a freed one can be told; `NullArgument` is a call with a null pointer to a record
or to the handle.  `Kept` is what `str_Delete` frees: nothing.

## 3. Runs

| run | configuration | checks | distinct states |
|---|---|---|---|
| launcher | BorgRsh.cfg | types; who the backend runs as; groups; script; refusals; refinement of RemoteShell; termination | 180 180 |
| vectors | Vectors.cfg | types; in use fits size (pointers); refinement of VectorADT; only known accesses outside blocks | about 67 000 |
| str | Str.cfg | when a NUL is lost; C reads the right strings | about 33 000 |
| strvec | Strvec.cfg | where nulls come from; programs get whole lists; failures keep lists | 62 040 |
| search | Search.cfg | str_compare = strncmp, str_findstr = strstr, find_vec_n finds the first; when vectors compare as equal | 1 979 858 |
| growth | Growth.cfg | sizes are words; blocks fit until a request is huge | 12 013 |
| readlink | Readlink.cfg | buffer bounded; whole links or nothing; which failure is not noticed; termination | 13 108 |
| passwd | Passwd.cfg | records are accounts; ok means found; failures change nothing and carry their errno; no dangling pointer; fields of results | 35 878 |
| original | Original.cfg | as launcher, with what lost appends can do; lists end | 12 292 |

These runs find what they are meant to find violated (section 5):
rootbecomesuser, borgpathisparents, allocateslengthplusone.

Bounds, and why they are enough:

* *launcher*: three good command lines (no `-r`, one, two; with and without
  `--umask`; each local host), one per check that can refuse, and the README's;
  callers root, the user and another user.  `VecMin = 2` makes the list of the
  parent's arguments grow within the words of a command line.  Client, reaper
  and one more process with three pids: enough for the client's pid to be reused
  between any two steps; a second newcomer could only do what the first does.
* *vectors*: blocks of 2, 4 and 6 elements, one element of slack, two values
  (the code's least size is 128 and its step 256, which only moves the edges);
  up to 4 elements: to be longer than the
  size, the vector must be filled past block and slack, and past the first
  growth.  Two vectors, since no function has more than two.  Slices are tried
  with lengths 1 and `MaxUsed`, which cuts one short or not.  `Default` differs
  from one of the values that fresh memory may hold.
* *str*: the same blocks, NUL and one other character, up to 5 elements.
* *search*: all pairs of vectors with up to 4 elements of three values, a NUL, one
  below it and one above; what is not in use is one value throughout.  An int has two values (`IntRange = 2`), so
  that pointers 2 apart stand for pointers 4 GiB apart.
* *strvec*: blocks of 2 and 4 elements, lists of up to 3: an argument vector has
  one element more than its list, and a list grows once within the bound.
* *growth*: words of 7 bits, elements of 4 bytes: a product wraps from 32 elements
  on, which is within the 128 sizes that a request can have; all are tried, in any
  order.  The theorems are about all widths.
* *readlink*: links that are shorter than the first buffer, fill it exactly, and
  need it doubled once and twice; with or without an `st_size`.
* *passwd*: two accounts without a field in common, one unknown name, memory for
  two records: a third would never be reached by the one pointer that the program has.
  Fields of one or two bits, given every number from -8 to 8, which is more than any holds.
* *original*: borg's lines and those each check refuses, one with a path called
  `serve`, a line of other words,
  one of a word too many and one of fifteen words, which fills a list of 16.

`SYMMETRY` permutes the two vectors: they are treated alike, and no liveness
is checked in those runs.  `VIEW` leaves out `call`, which no action reads;
properties that speak of `call'` are action properties, evaluated at every
step, and the runs that have invariants about `call` use no view.

`CHECK_DEADLOCK FALSE`: the launcher ends in execve or exit; a vector program
ends when it has touched foreign memory; a search makes one call; a list of strings
is done with when a program has been run.  `readlink` and `passwd` check for it.

Fairness: `WF_vars(Step)` in BorgRsh: the program is one thread that the kernel
runs, and each of its steps is a call that returns.  Nothing is assumed of other
processes, of malloc or of the kernel's answers.  The loop over the parent's
arguments ends because a command line is finite.  `WF_vars(Step)` in Readlink, for
the same reason; nothing is assumed of `Change`, which may come between any two
steps or never.  The loop ends because no link is longer than the longest.

## 4. Proofs

Checked by tlapm, for all values of the constants that the named assumptions admit.
Every assumption is evaluated by TLC in the runs.

| module | theorem | property | argument |
|---|---|---|---|
| BorgRsh_proofs | TypeCorrect | TypeOK | Invariance |
| | RunsAsRequestedUser | BackendRunsAsRequestedUser | Invariance |
| | DropsGroups | GroupsDropped | OutcomeInvariance |
| | RunsClientsScript | BackendIsClientsScript | OutcomeInvariance |
| | RefusesForReason | NoSpuriousRefusal | OutcomeInvariance |
| | Implementation | ImplementsRemoteShell | step simulation |
| Original_proofs | TypeCorrect | TypeOK | Invariance |
| | RunsAsRequestedUser | BackendRunsAsRequestedUser | Invariance |
| | DropsGroups, RefusesForReason | GroupsDropped, NoSpuriousRefusal | Invariance |
| | ListsEnd, Restricts | ListsTerminated, ServesRestricted | Invariance |
| | Implementation | ImplementsRemoteShell | step simulation |
| VectorOps_proofs | PolicyCovers | (`POLICY_SIZE_STEP(rq) >= rq`) | arithmetic |
| Vector_proofs | TypeCorrect, PointersWithinSize | TypeOK, UsedWithinSize | Invariance |
| | OverrunsOnly | LostOnly | each step |
| | Implementation | ImplementsSequences | step simulation |
| | BlocksFit, SizesAreWords | SmallRequestsFit, BlockTypeOK | both together |
| Str_proofs | KeepsNul, JoinsStrings | NulIsKept, StringsAreJoined | Invariance, each step |
| Search_proofs | StrCompareCorrect, FindstrCorrect | StrCompareIsStrncmp, FindstrIsStrstr | first differences |
| | FindVecCorrect, CompareCorrect | FindVecFindsFirst, OnlyEqualCompareEqual | first differences |
| Strvec_proofs | NoNullOfItsOwn, RunsWhole | NullsComeFromHoles, RunsWithWholeLists | Invariance |
| | KeepsLists | FailureKeepsLists | each step |
| Passwd_proofs | SettersStayApart, MacroIsEncode, ErrnoComesBack | (fields of results) | arithmetic |
| | NoMixedRecord, NoDanglingHandle | RecordsAreAccounts, HandleIsLive | Invariance |
| | NothingOnFailure, FoundWhenOk | FailureChangesNothing, OkMeansFound | Invariance |
| | ErrnoIsCarried, ResultFieldsApart | FailureCarriesErrno, FieldsAreApart | the fields |
| | TypeCorrect, WholeTarget | LinkTypeOK, TargetWholeOrUntouched | LinkInvariance |
| | FailuresTold | OnlyReadlinkFailsUnnoticed | LinkInvariance |

Growth is proved about together with Vector, whose size policy it has, and Readlink
with Passwd, whose results it has; hence the specifications of the two are called
`BlockSpec` and `LinkSpec`.

### The inductive invariants

Each specification has its own (`IInv`, theorem `Invariance`, where no other name is
given), which TLC has also found true on the run's instance.  But for Search, whose
programs make one call, none of the properties that speak of the last state only
is inductive: what makes them true was checked long before.

*BorgRsh*.  `IInv` says what is known at each `pc`: `TypeOK`; `OptionsGood`, the options
consumed so far had no bad one; `ArgvWhole`, `r.argv` is the program's name and the
words of the command line, and the part that has been built is a prefix of it;
`RequestParsed`, once past `verify_argv`, `remote_parse` and `host_is_local`, those
conditions hold of the words; `AccountHeld`, from `lookup_user` on `r.pw` is the user's
account, and from `become_user` on the uid is its uid, which is not root's;
`FileOpen`, while reading there is a process that is read from.  `Outcome` adds
`Credentials` (what the calls that have not failed have set, and that those that have
failed have left everything as it was), `BackendBuilt` (each list
is as long as it was to be, or a prefix of it while it is being built), `ScriptRead`
(as long as the client runs, the pid that was remembered is its own, what is open is
its command line, and what has been read is the beginning of it, or null where memory
ran out) and the reasons for refusing.  One lemma per action; a step of the process table changes none of it.

*Original*.  The same, but lists may have lost elements without anyone noticing.
`ListsBuilt` says what can be lost: a list holds the *last* `count` words of those that
were to be appended, all of them if no memory call has failed, because an append fails
only while the list has no block yet: the first block has 16 cells, and no list but
`argv` gets more elements.  `ArgvBuilt` says the same of `argv` as long as it is shorter
than 16 (`EndedIfShort`), and one that passes the count has five words: they are the last
five, so that the user is named by the fourth word from the end.  The conclusions about
the backend follow from that.

*Vector*, *Strvec*.  The step lemmas are about functions, not programs, and are in
VectorOps_proofs: `ReplaceDoes`, `InsertDoes`, `SliceDoes` and so on say of every outcome
that the function fails and the vector is as it was, or the vector becomes one with
the sequence of elements that its name says and a size that the policy gives, or - in
the cases named - memory outside the block is accessed.  They are proved from a lemma
about each of the few things the functions are built of: growing keeps the elements
(`GrownLarger`), a write within the block writes to the sequence (`StoreHolds`), and
one lemma per kind of write about sequences alone (`InsertedWritten`, ...).  `IInv`
then says that every vector is one (`Fine`): within the policy's sizes, and, if of
pointers, no longer than its size, which is what makes append and append_n grow in
time.  The mapping of the refinement is `Contents`; each call is a step of VectorADT,
succeeding or failing, unless `lost`.  In Strvec `IInv` adds that no list has a null
unless `holes`, and `ReadWhole` is why execve then reads all of it.

*Str*.  That strings are joined as C reads them is not inductive: a NUL in the middle
of what is stored would hide from C what is copied after it.  `IInv` says that there is
none but at the end (`Clean`), and that what is stored fits the block, of a size that
the policy gives.  Each function keeps it although the functions of charvec it is made
of do not keep the string terminated in between: `RemoveLastUnends`, `ConcatenateStores`,
`NulStored` and `SlicedString` say what is stored at each stage.  str_append never
leaves a string without its NUL for want of memory: charvec_append_n has its guard the
wrong way round (section 5) and grows only a block with room for all, for which the
policy asks no more than there is (`PolicySteps`, `ConcatenateIsOk`).  That needs the policy to be monotone, which it is if `SizeMax` is a multiple of `SizeStep`.

*Search*.  A comparison is decided at the first difference (`DifferenceDecides`); where
it lies is a minimum of a set of positions, and the loops that stop at the first position with a
property (`FirstOf`) return the least one, for vectors of every length: no induction is
needed, because the loops are stated by what lies before the position they stop at.
The invariant (`Picked`) is only that the two vectors are two of `Vectors`, of one type;
the work is in what each function answers about any two (`CompareNAnswers`,
`StrCompareAnswers`, `FindVecAnswers`, ...).  What lies behind the elements in use may
make a comparison come out different, never alike; and in a string the NUL comes before.

*Growth* (`BlockIInv`).  `BlockTypeOK` and `SmallRequestsFit` together; the step needs
that a request that fits is rounded up to less than a step more (`FitsGrows`).

*Passwd*.  Within a call, the heap is that from before it but for the record allocated
(`Inside`), and the caller's handle and record are as before; this is what makes the
`unwind` of every path restore them.  That ok is never returned without a record
rests on `NeverOk`: the bits above errno make any result of an errno different from
ok, 0 included.

*Readlink* (`LinkIInv`).  Until a function returns, nothing has failed and the caller's
string is as it was, except for the path left empty in `str_getexe_pid`; `seen` grows
with each `Change` of the file, and the buffer is at most twice the longest link.

### Arithmetic of results

The prover knows neither powers of two nor that a division is unique for divisors
that are not literals.  Passwd_proofs proves what is needed: `2^n` counts the subsets
of `1 .. n` (so that it is positive, and doubles with n), `2^(m+n) = 2^m * 2^n` by
induction written as a fact about sets (`SetInduction`), then that fields of a word
that do not overlap do not disturb each other (`FieldAbove`, `FieldBelow`), for all
widths.  Of the results of Readlink it is enough that none of a failure is ok (`NeverOk`).

### Assumptions

Those that are more than the types of the constants:

* Results: `bits_err = 1`, the sign of the code's `int64_t`; a field of errno holds the
  errnos that the system has.
* Readlink: some link is the longest, as there is a PATH_MAX.
* NULL is none of the things a pointer can point to (words, accounts, addresses,
  vectors, sequences), nor is LOST a vector: they are model values.
* Search: elements are integers, and lengths are of size_t, so that SIZE_MAX, for which
  `compare` asks, is no less than any.
* Str: `SizeMax` is a multiple of `SizeStep` (both are powers of two in the code);
  `MaxUsed`, the bound, is less than 2^64 and at least 4, the longest C string that the
  program passes with its NUL.
* Vector, Strvec: `MaxUsed`, the bound on lengths, is less than 2^64 (lengths are of
  size_t), in Vector at least 2, since its arrays have up to two elements.
* Strvec: `environ` has no null before its end.
* BorgRsh: a list has room for two elements at first (128 in the code).
* Original: the literal names of the local host fit the field for the host.

That a memory block is found at all, that calls succeed, what other processes do:
nothing is assumed of these.

### What is model-checked only

Liveness: `Decides` of the launcher and `Returns` of Readlink.  Fairness and ENABLED are
beyond the prover.  Every other property of the passing runs is a theorem.

## 5. What the code does differently from what it says

Each is known from a run: one that finds the comment violated, or one that
shows that it goes wrong in just this way.

1. **Groups** (`borg-rsh-local.c:208-209`; rootbecomesuser): the results of `setgid`
   and `initgroups` are ignored; if one fails the backend keeps root's group or groups.
   `GroupsDropped` says exactly which: what the call that failed would have replaced, and
   nothing of what the other one has.  It is the code's behaviour and not what one would
   wish; that root's groups are kept at all is what rootbecomesuser finds.  The original
   has the same lines (`original/borg-rsh-local.c:280-281`) and the same `GroupsDropped`.
2. **Parent** (`borg-rsh-local.c:319`; borgpathisparents): with the client gone,
   another process's second word is taken for the script.  `BackendIsClientsScript`
   shows that it cannot happen while the client runs.
3. **charvec.c:176** (allocateslengthplusone): `append_n` has its guard the wrong way
   round and does not grow a block that is too small (pointervec.c:176 is right;
   `UsedWithinSize`).
4. **charvec.c:233**, pointervec.c:233: an insert at the front runs away, `j >= 0`
   being true of any unsigned j (`LostOnly`).
5. **str.c:80-88**: a string is left without NUL when memory runs out (`NulIsKept`).
6. **README:42** has `dumpuser@repohost`, which `host_is_local` refuses
   (`borg-rsh-local.c:145`), and README:12 has `--umask 077` in two words, which
   `verify_argv` refuses (`borg-rsh-local.c:288`).  Neither is a line of the form that
   `NoSpuriousRefusal` is about, which has one of three names for the host and
   `--umask=xxx` in one word; the property says so and does not claim that the program
   serves whatever borg sends.  A line with `dumpuser@repohost` is among the inputs of the
   launcher's and the original's runs, and is refused.
7. **charvec.c:342**: compare looks one element behind those both vectors have, so
   that vectors with the same elements may compare as different.
8. **pointervec.c:317, 342**: pointers whose difference is a multiple of 2^32 compare
   as equal (`OnlyEqualCompareEqual`).
9. **readlink.c:36**: if readlink fails, the loop ends with the result of
   `mem_reallocate`, ok, and the target as it was (`OnlyReadlinkFailsUnnoticed`).
10. **original/borg-rsh-local.c:124**: `strvec_append` returns ok, not its result; an
    argument that could not be appended is left out.  The ones that go first are
    `borg`, `serve`: a backend that is told to serve is told where (`ServesRestricted`),
    unless the path is called `serve` and is all that is left.
11. **original/borg-rsh-local.c:120**: no room is kept for the null (comment in line
    101); none of the lists that execve reads becomes so long: they have at most 6 of 16 cells
    in use (`ListsTerminated`).
12. **original/borg-rsh-local.c:356** counts words and does not look at them; with
    argv[0] lost, the user of a line one word too long is that of its second word.
    `BackendRunsAsRequestedUser` says for lines of every length whose user it is: the one
    that the fourth word from the end names, on a longer line only if memory ran out.
13. **passwd.c:42-46**: the strings of a record that cannot be completed are not freed,
    since `_Delete` (charvec.c:151) looks at a fresh pointer.

## 6. Plan

Done: the inventory; every component that is built; the theorems of section 4.

What could still be added:

1. That a failing call of Strvec or Vector leaves not only the elements but the block
   as it was, for the functions that grow.
2. A refinement of Str to an abstract module of strings, as Vector has one; the
   functions of str.c that run out of memory in between are no step of such a module.
3. Variants that decrease for the two loops whose end only TLC shows.

## 7. Not modelled

* `fileutil.c`: in no Makefile, and it does not compile.
* The container headers: type declarations and flags.
* `POLICY_SIZE_DOUBLE`, `POLICY_SIZE_NULL`: used by nothing.
* `str_stat`: it only asks the kernel and changes nothing.
* The text of messages and diagnostics; `error_messages_register` and its companions,
  which are declared and nowhere defined.
