----------------------------- MODULE ProcTable -----------------------------
(* The kernel's process table as getppid(2) and /proc show it to the program: *)
(* processes exit, linger as zombies until they are reaped, and their pids    *)
(* are then given to new processes.                                           *)
EXTENDS Naturals

CONSTANTS Procs,  \* the processes that may exist during a run
          Client, \* the borg process that started the program
          Reaper, \* the process that inherits orphans
          Pids    \* the process ids in circulation

ASSUME ProcTableAssumption == /\ {Client, Reaper} \subseteq Procs /\ Client # Reaper
                              /\ Pids \subseteq Nat \ {0}

VARIABLES life, \* process -> unborn | running | zombie | gone
          pid   \* process -> the pid it has or had, 0 before it is born

procVars == <<life, pid>>

Lives   == {"unborn", "running", "zombie", "gone"}
Holding == {p \in Procs : life[p] \in {"running", "zombie"}}

ProcTypeOK == life \in [Procs -> Lives] /\ pid \in [Procs -> Pids \cup {0}]

\* No two processes that hold a pid hold the same one.
PidsUnique == \A p, q \in Holding : pid[p] = pid[q] => p = q

ProcInit == /\ life = [p \in Procs |-> IF p \in {Client, Reaper} THEN "running" ELSE "unborn"]
            /\ \E c, i \in Pids :
                  /\ c # i
                  /\ pid = [p \in Procs |-> CASE p = Client -> c
                                           [] p = Reaper -> i
                                           [] OTHER      -> 0]

Exits(p) == /\ p # Reaper
            /\ life[p] = "running"
            /\ life' = [life EXCEPT ![p] = "zombie"]
            /\ UNCHANGED pid

Reap(p) == /\ life[p] = "zombie"
           /\ life' = [life EXCEPT ![p] = "gone"]
           /\ UNCHANGED pid

Spawn(p) == /\ life[p] = "unborn"
            /\ \E free \in Pids \ {pid[q] : q \in Holding} :
                   pid' = [pid EXCEPT ![p] = free]
            /\ life' = [life EXCEPT ![p] = "running"]

ProcNext == \E p \in Procs : Exits(p) \/ Reap(p) \/ Spawn(p)

\* A child whose parent has exited belongs to the reaper from then on.
Parent == IF life[Client] = "running" THEN Client ELSE Reaper
=============================================================================
