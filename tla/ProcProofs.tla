----------------------------- MODULE ProcProofs ------------------------------
(***************************************************************************)
(* Proofs about the process table: for every number of entries and of CPUs *)
(* a kernel stack is used by one CPU at a time and sched() never panics,   *)
(* and no wakeup of a parent in wait() is lost.                            *)
(***************************************************************************)
EXTENDS Proc, TLAPS

-----------------------------------------------------------------------------
(* The inductive invariant.                                                *)

\* The locations of a thread that has no lock, has wait_lock, or has its own
\* p->lock.
Unlocked == {"user", "fork_parent", "fork_runnable", "wait_again"}
UnderWaitLock == {"reparent", "wakeup", "zombie", "scan", "sleep"}
Switching == {"resume", "sched"}

\* scheduler() and sched(): c->proc is the process whose stack CPU c is on and
\* belongs to no other CPU; a thread that no CPU executes is inside swtch().
Stacks ==
  /\ \A c \in CPUs : run[c] # NoProc => proc[c] = run[c]
  /\ \A c, d \in CPUs : proc[c] # NoProc /\ proc[d] = proc[c] => d = c
  /\ \A p \in Procs : (\A c \in CPUs : run[c] # p) => pc[p] = "resume" /\ state[p] # "RUNNING"
  /\ \A c \in CPUs, p \in Procs : run[c] = p =>
       IF pc[p] = "sched" THEN state[p] \in {"RUNNABLE", "SLEEPING", "ZOMBIE"}
                          ELSE state[p] = "RUNNING"

\* Who holds which lock, read off the locations.
Locks ==
  /\ \A c \in CPUs : wait_lock = c <=> run[c] # NoProc /\ pc[run[c]] \in UnderWaitLock
  /\ \A c \in CPUs, p \in Procs : plock[p] = c <=> proc[c] = p /\ pc[p] \in Switching

\* The local variables of exit(), wait() and wakeup() at each location, and
\* the channel of a sleeper.
Locals ==
  \A p \in Procs :
    /\ pc[p] \in Switching => ret[p] \in Unlocked
    /\ pc[p] = "wakeup" => ret[p] \in {"reparent", "zombie"}
    /\ pc[p] \notin Switching \union {"wakeup"} => ret[p] = "user"
    /\ pc[p] # "wakeup" => wp[p] = 1
    /\ pc[p] \in {"reparent", "scan"} \/ (pc[p] = "wakeup" /\ ret[p] = "reparent") \/ pp[p] = 1
    /\ state[p] \in {"UNUSED", "USED", "ZOMBIE"} => ret[p] = "user"
    /\ state[p] = "SLEEPING" => chan[p] = p

\* fork(): the child that p is making is p's alone until it is RUNNABLE, and
\* nobody's child before np->parent is set.
Place(p) == IF pc[p] \in Switching THEN ret[p] ELSE pc[p]
Forking(p) == Place(p) \in {"fork_parent", "fork_runnable"}

Forks ==
  /\ \A p \in Procs : Forking(p) => np[p] \in Procs /\ state[np[p]] = "USED"
  /\ \A p \in Procs : Place(p) = "fork_parent" => parent[np[p]] = NoProc
  /\ \A p, q \in Procs : Forking(p) /\ Forking(q) /\ np[p] = np[q] => p = q

\* init never exits, and a parent is a process that has not.
Alive == {"RUNNABLE", "RUNNING", "SLEEPING"}

Parents ==
  /\ state[initproc] \in Alive
  /\ pc[initproc] \notin {"reparent", "wakeup", "zombie"}
  /\ \A p \in Procs : parent[p] # NoProc => state[parent[p]] \in Alive
  /\ \A p \in Procs : state[p] = "UNUSED" => parent[p] = NoProc

\* exit(), part way: the entries that reparent() has passed are no children of
\* p, and those that wakeup(p->parent) has passed do not include a sleeping
\* parent.
Exiting ==
  \A p \in Procs :
    /\ pc[p] = "reparent" \/ (pc[p] = "wakeup" /\ ret[p] = "reparent") =>
         \A q \in Procs : parent[q] = p => q >= pp[p]
    /\ pc[p] = "zombie" \/ (pc[p] = "wakeup" /\ ret[p] = "zombie") =>
         \A q \in Procs : parent[q] # p
    /\ pc[p] = "zombie" /\ parent[p] # NoProc => state[parent[p]] # "SLEEPING"
    /\ pc[p] = "wakeup" /\ ret[p] = "zombie" /\ parent[p] # NoProc /\ parent[p] < wp[p] =>
         state[parent[p]] # "SLEEPING"

\* wait(), part way: no entry that the scan has passed is an exited child, and
\* havekids is right.
HasChild(p) == \E q \in Procs : parent[q] = p
NoZombieChild(p) == \A q \in Procs : parent[q] = p => state[q] # "ZOMBIE"

Scanning ==
  \A p \in Procs :
    /\ pc[p] = "scan" => /\ havekids[p] => HasChild(p)
                         /\ \A q \in Procs : parent[q] = p /\ q < pp[p] => state[q] # "ZOMBIE"
    /\ pc[p] = "sleep" => HasChild(p) /\ NoZombieChild(p)

\* A sleeper in wait() has children and none has exited; only init may have just
\* inherited an exited one, and then the wakeup(initproc) is under way.
Sleeping ==
  \A p \in Procs : state[p] = "SLEEPING" =>
    /\ HasChild(p)
    /\ \/ NoZombieChild(p)
       \/ p = initproc /\ \E r \in Procs : pc[r] = "wakeup" /\ ret[r] = "reparent" /\ wp[r] = 1

ProcInv ==
  TypeOK /\ Stacks /\ Locks /\ Locals /\ Forks /\ Parents /\ Exiting /\ Scanning /\ Sleeping

-----------------------------------------------------------------------------
(* Facts about table entries and locks.                                    *)

\* init has an entry; NoProc and NoCpu name nobody.
LEMMA Names ==
  /\ initproc \in Procs
  /\ NoProc \notin Procs
  /\ NoCpu \notin CPUs
BY ProcConstants DEF Procs, initproc, NoProc

\* The loops over the table run from its first entry to one past its last.
LEMMA Indices ==
  /\ NPROC \in Int /\ Procs \subseteq Int /\ 1..NPROC + 1 \subseteq Int
  /\ 1 \in 1..NPROC + 1
  /\ \A q \in Procs : q >= 1 /\ q <= NPROC
  /\ \A i \in 1..NPROC + 1 : /\ i <= NPROC => i \in Procs /\ i + 1 \in 1..NPROC + 1
                             /\ i > NPROC => i \notin Procs
  /\ \A q \in Procs : q # NPROC => q + 1 \in Procs
BY ProcConstants DEF Procs

\* The loop variable of reparent() and wait() is an entry until the loop ends.
LEMMA Entry ==
  ASSUME ProcInv, NEW p \in Procs
  PROVE  pp[p] <= NPROC <=> pp[p] \in Procs
<1> PICK i \in 1..NPROC + 1 : i = pp[p]  BY DEF ProcInv, TypeOK
<1> i <= NPROC <=> i \in Procs  BY ProcConstants DEF Procs
<1> QED  OBVIOUS

\* A parent is an entry of the table.
LEMMA ParentEntry ==
  ASSUME ProcInv, NEW p \in Procs, parent[p] # NoProc
  PROVE  parent[p] \in Procs /\ ~(parent[p] < 1)
<1> PICK q \in Procs : q = parent[p]  BY DEF ProcInv, TypeOK
<1> QED  BY ProcConstants DEF Procs

\* wait_lock excludes: one thread at a time is in exit()'s or wait()'s critical
\* section.
LEMMA Exclusive ==
  ASSUME TypeOK, Stacks, Locks
  PROVE  /\ \A p, q \in Procs : pc[p] \in UnderWaitLock /\ pc[q] \in UnderWaitLock => p = q
         /\ \A p \in Procs : pc[p] \in UnderWaitLock => wait_lock # NoCpu
BY Names DEF TypeOK, Stacks, Locks, UnderWaitLock

-----------------------------------------------------------------------------
(* What a step has to leave alone for a conjunct of the invariant to stay. *)

\* No CPU switches; threads move only on a CPU, and not into or out of sched().
KeepsStacks ==
  /\ UNCHANGED <<state, proc, run>>
  /\ \A r \in Procs : pc'[r] = pc[r] \/ /\ "sched" \notin {pc[r], pc'[r]}
                                        /\ \E c \in CPUs : run[c] = r

\* Such a step keeps Stacks.
LEMMA StacksKept ==
  ASSUME Stacks, KeepsStacks
  PROVE  Stacks'
<1>1. \A r \in Procs : (\A c \in CPUs : run[c] # r) => pc'[r] = pc[r]
  BY Zenon DEF KeepsStacks
<1>2. \A r \in Procs : pc'[r] = "sched" <=> pc[r] = "sched"
  BY DEF KeepsStacks
<1> QED  BY <1>1, <1>2 DEF KeepsStacks, Stacks

\* No lock changes hands, and no thread moves into or out of a critical section.
KeepsLocks ==
  /\ UNCHANGED <<wait_lock, plock, proc, run>>
  /\ \A r \in Procs : /\ pc'[r] \in UnderWaitLock <=> pc[r] \in UnderWaitLock
                      /\ pc'[r] \in Switching <=> pc[r] \in Switching

\* Such a step keeps Locks.
LEMMA LocksKept ==
  ASSUME TypeOK, Locks, KeepsLocks
  PROVE  Locks'
<1>1. \A d \in CPUs : run[d] # NoProc => run[d] \in Procs
  BY DEF TypeOK
<1> QED  BY <1>1 DEF KeepsLocks, Locks

\* Nobody moves but outside context switches, wakeup() and the ends of loops, and
\* nobody is freed, exits or goes to sleep.
KeepsLocals ==
  /\ UNCHANGED <<ret, pp, wp>>
  /\ \A r \in Procs :
       /\ state'[r] \in {"UNUSED", "USED", "ZOMBIE", "SLEEPING"} => state'[r] = state[r]
       /\ state'[r] = "SLEEPING" => chan'[r] = chan[r]
       /\ \/ pc'[r] = pc[r]
          \/ /\ {pc[r], pc'[r]} \intersect (Switching \union {"wakeup"}) = {}
             /\ pc[r] \notin {"reparent", "scan"}

\* Such a step keeps Locals.
LEMMA LocalsKept ==
  ASSUME Locals, KeepsLocals
  PROVE  Locals'
<1> SUFFICES ASSUME NEW r \in Procs
             PROVE  /\ pc'[r] \in Switching => ret[r] \in Unlocked
                    /\ pc'[r] = "wakeup" => ret[r] \in {"reparent", "zombie"}
                    /\ pc'[r] \notin Switching \union {"wakeup"} => ret[r] = "user"
                    /\ pc'[r] # "wakeup" => wp[r] = 1
                    /\ pc'[r] \in {"reparent", "scan"} \/ (pc'[r] = "wakeup" /\ ret[r] = "reparent") \/ pp[r] = 1
                    /\ state'[r] \in {"UNUSED", "USED", "ZOMBIE"} => ret[r] = "user"
                    /\ state'[r] = "SLEEPING" => chan'[r] = r
  BY DEF Locals, KeepsLocals
<1>1. /\ state[r] \in {"UNUSED", "USED", "ZOMBIE"} => ret[r] = "user"
      /\ state[r] = "SLEEPING" => chan[r] = r
  BY DEF Locals
<1>2. /\ state'[r] \in {"UNUSED", "USED", "ZOMBIE"} => ret[r] = "user"
      /\ state'[r] = "SLEEPING" => chan'[r] = r
  BY <1>1 DEF KeepsLocals
<1>3. CASE pc'[r] = pc[r]
  BY <1>2, <1>3 DEF Locals
<1>4. CASE /\ {pc[r], pc'[r]} \intersect (Switching \union {"wakeup"}) = {}
           /\ pc[r] \notin {"reparent", "scan"}
  BY <1>2, <1>4 DEF Locals
<1> QED  BY <1>3, <1>4 DEF KeepsLocals

\* Nobody moves into or inside fork(), and no child of a fork() is touched.
KeepsForks ==
  /\ UNCHANGED <<parent, np>>
  /\ \A r \in Procs : /\ Forking(r)' => Place(r)' = Place(r)
                      /\ state[r] = "USED" => state'[r] = "USED"

\* Such a step keeps Forks.
LEMMA ForksKept ==
  ASSUME Forks, KeepsForks
  PROVE  Forks'
<1>1. \A r \in Procs : Forking(r)' => Forking(r)
  BY DEF KeepsForks, Forking
<1>2. \A r \in Procs : Place(r)' = "fork_parent" => Place(r) = "fork_parent"
  BY DEF KeepsForks, Forking
<1> QED  BY <1>1, <1>2 DEF KeepsForks, Forks

\* Nobody gets another parent, is freed or exits.
KeepsParents ==
  /\ parent' = parent
  /\ \A r \in Procs : /\ state[r] \in Alive => state'[r] \in Alive
                      /\ state'[r] = "UNUSED" => state[r] = "UNUSED"
  /\ pc'[initproc] \notin {"reparent", "wakeup", "zombie"}

\* Such a step keeps Parents.
LEMMA ParentsKept ==
  ASSUME TypeOK, Parents, KeepsParents
  PROVE  Parents'
<1>1. \A r \in Procs : parent[r] # NoProc => parent[r] \in Procs
  BY DEF TypeOK
<1> QED  BY <1>1, Names DEF KeepsParents, Parents

\* Nobody gets another parent or goes to sleep, and nobody moves inside exit().
KeepsExiting ==
  /\ parent' = parent
  /\ \A r \in Procs :
       /\ state'[r] = "SLEEPING" => state[r] = "SLEEPING"
       /\ pc'[r] \in {"reparent", "wakeup", "zombie"} =>
            pc'[r] = pc[r] /\ ret'[r] = ret[r] /\ pp'[r] = pp[r] /\ wp'[r] = wp[r]

\* Such a step keeps Exiting.
LEMMA ExitingKept ==
  ASSUME TypeOK, Exiting, KeepsExiting
  PROVE  Exiting'
<1>1. \A r \in Procs : parent[r] # NoProc => parent[r] \in Procs
  BY DEF TypeOK
<1> QED  BY <1>1 DEF KeepsExiting, Exiting

\* Nobody gets another parent or exits, and nobody moves inside wait().
KeepsScanning ==
  /\ parent' = parent
  /\ \A r \in Procs :
       /\ state'[r] = "ZOMBIE" => state[r] = "ZOMBIE"
       /\ pc'[r] \in {"scan", "sleep"} =>
            pc'[r] = pc[r] /\ pp'[r] = pp[r] /\ havekids'[r] = havekids[r]

\* Such a step keeps Scanning.
LEMMA ScanningKept ==
  ASSUME Scanning, KeepsScanning
  PROVE  Scanning'
BY DEF KeepsScanning, Scanning, HasChild, NoZombieChild

\* Nobody gets another parent, goes to sleep or exits, and no wakeup() ends.
KeepsSleeping ==
  /\ parent' = parent
  /\ \A r \in Procs :
       /\ state'[r] \in {"SLEEPING", "ZOMBIE"} => state[r] = state'[r]
       /\ pc[r] = "wakeup" => pc'[r] = "wakeup" /\ ret'[r] = ret[r] /\ wp'[r] = wp[r]

\* Such a step keeps Sleeping.
LEMMA SleepingKept ==
  ASSUME Sleeping, KeepsSleeping
  PROVE  Sleeping'
BY DEF KeepsSleeping, Sleeping, HasChild, NoZombieChild

-----------------------------------------------------------------------------
(* Each step keeps the invariant.                                          *)

\* scheduler(): the RUNNABLE process it picks is on no CPU.
LEMMA SchedulerKeeps ==
  ASSUME ProcInv, NEW c \in CPUs, NEW p \in Procs, scheduler(c, p)
  PROVE  ProcInv'
<1>0. TypeOK /\ Stacks /\ Locks /\ Locals /\ Forks /\ Parents /\ Exiting /\ Scanning /\ Sleeping
  BY Zenon DEF ProcInv
<1>1. TypeOK'
  BY Zenon, <1>0 DEF scheduler, locals, TypeOK, States
<1>2. Stacks'
  BY <1>0, Names DEF scheduler, free, Stacks, Locks, Switching, TypeOK
<1>3. Locks'
  BY <1>0, Names DEF scheduler, free, Locks, Stacks, UnderWaitLock, Switching, TypeOK
<1>4. Locals'
  <2>1. KeepsLocals
    BY <1>0 DEF scheduler, locals, TypeOK, KeepsLocals, Switching
  <2> QED  BY <1>0, <2>1, LocalsKept
<1>5. Forks'
  <2>1. KeepsForks
    BY <1>0 DEF scheduler, locals, Forking, Place, TypeOK, KeepsForks, Switching
  <2> QED  BY <1>0, <2>1, ForksKept
<1>6. Parents'
  <2>1. KeepsParents
    BY <1>0, Names DEF scheduler, Alive, TypeOK, KeepsParents, Parents
  <2> QED  BY <1>0, <2>1, ParentsKept
<1>7. Exiting'
  <2>1. KeepsExiting
    BY <1>0 DEF scheduler, locals, TypeOK, KeepsExiting
  <2> QED  BY <1>0, <2>1, ExitingKept
<1>8. Scanning'
  <2>1. KeepsScanning
    BY <1>0 DEF scheduler, locals, TypeOK, KeepsScanning
  <2> QED  BY <1>0, <2>1, ScanningKept
<1>9. Sleeping'
  <2>1. KeepsSleeping
    BY <1>0 DEF scheduler, locals, TypeOK, KeepsSleeping
  <2> QED  BY <1>0, <2>1, SleepingKept
<1> QED  BY <1>1, <1>2, <1>3, <1>4, <1>5, <1>6, <1>7, <1>8, <1>9 DEF ProcInv

\* The switched-to thread releases p->lock: it is RUNNING and goes on unlocked.
LEMMA ResumeKeeps ==
  ASSUME ProcInv, NEW c \in CPUs, NEW p \in Procs, resume(c, p)
  PROVE  ProcInv'
<1>0. TypeOK /\ Stacks /\ Locks /\ Locals /\ Forks /\ Parents /\ Exiting /\ Scanning /\ Sleeping
  BY Zenon DEF ProcInv
<1>1. TypeOK'
  BY Zenon, <1>0 DEF resume, goto, TypeOK, Locations
<1>2. Stacks'
  BY <1>0 DEF resume, at, goto, Stacks, Locals, Unlocked
<1>3. Locks'
  BY SMTT(30), <1>0 DEF resume, at, goto, Locks, Locals, Unlocked, UnderWaitLock, Switching, TypeOK
<1>4. Locals'
  BY <1>0 DEF resume, at, goto, Locals, Stacks, Unlocked, TypeOK
<1>5. Forks'
  <2>1. KeepsForks
    BY <1>0 DEF resume, at, goto, Forking, Place, Switching, TypeOK, KeepsForks
  <2> QED  BY <1>0, <2>1, ForksKept
<1>6. Parents'
  <2>1. KeepsParents
    BY <1>0, Names DEF resume, goto, Locals, Unlocked, TypeOK, KeepsParents, Parents, Alive
  <2> QED  BY <1>0, <2>1, ParentsKept
<1>7. Exiting'
  <2>1. KeepsExiting
    BY <1>0 DEF resume, at, goto, Locals, Unlocked, TypeOK, KeepsExiting
  <2> QED  BY <1>0, <2>1, ExitingKept
<1>8. Scanning'
  <2>1. KeepsScanning
    BY <1>0 DEF resume, goto, Locals, Unlocked, TypeOK, KeepsScanning
  <2> QED  BY <1>0, <2>1, ScanningKept
<1>9. Sleeping'
  <2>1. KeepsSleeping
    BY <1>0 DEF resume, at, goto, TypeOK, KeepsSleeping
  <2> QED  BY <1>0, <2>1, SleepingKept
<1> QED  BY <1>1, <1>2, <1>3, <1>4, <1>5, <1>6, <1>7, <1>8, <1>9 DEF ProcInv

\* sched(): swtch() leaves the stack, p->lock stays with the CPU.
LEMMA SchedKeeps ==
  ASSUME ProcInv, NEW c \in CPUs, NEW p \in Procs, sched(c, p)
  PROVE  ProcInv'
<1>0. TypeOK /\ Stacks /\ Locks /\ Locals /\ Forks /\ Parents /\ Exiting /\ Scanning /\ Sleeping
  BY Zenon DEF ProcInv
<1>1. TypeOK'
  BY Zenon, <1>0 DEF sched, goto, table, locals, TypeOK, Locations
<1>2. Stacks'
  BY <1>0, Names DEF sched, at, goto, table, Stacks, TypeOK
<1>3. Locks'
  BY <1>0 DEF sched, at, goto, Locks, UnderWaitLock, Switching
<1>4. Locals'
  BY <1>0 DEF sched, at, goto, table, locals, Locals, Switching
<1>5. Forks'
  <2>1. KeepsForks
    BY <1>0 DEF sched, at, goto, table, locals, Forking, Place, Switching, TypeOK, KeepsForks
  <2> QED  BY <1>0, <2>1, ForksKept
<1>6. Parents'
  <2>1. KeepsParents
    BY <1>0, Names DEF sched, goto, table, TypeOK, KeepsParents, Parents, Alive
  <2> QED  BY <1>0, <2>1, ParentsKept
<1>7. Exiting'
  <2>1. KeepsExiting
    BY <1>0 DEF sched, goto, table, locals, TypeOK, KeepsExiting
  <2> QED  BY <1>0, <2>1, ExitingKept
<1>8. Scanning'
  <2>1. KeepsScanning
    BY <1>0 DEF sched, goto, table, locals, TypeOK, KeepsScanning
  <2> QED  BY <1>0, <2>1, ScanningKept
<1>9. Sleeping'
  <2>1. KeepsSleeping
    BY <1>0 DEF sched, at, goto, table, locals, TypeOK, KeepsSleeping
  <2> QED  BY <1>0, <2>1, SleepingKept
<1> QED  BY <1>1, <1>2, <1>3, <1>4, <1>5, <1>6, <1>7, <1>8, <1>9 DEF ProcInv

\* scheduler() releases the lock of the process it switched away from.
LEMMA SchedulerReleaseKeeps ==
  ASSUME ProcInv, NEW c \in CPUs, scheduler_release(c)
  PROVE  ProcInv'
<1>0. TypeOK /\ Stacks /\ Locks /\ Locals /\ Forks /\ Parents /\ Exiting /\ Scanning /\ Sleeping
  BY Zenon DEF ProcInv
<1>1. TypeOK'
  BY Zenon, <1>0 DEF scheduler_release, table, locals, TypeOK
<1>2. Stacks'
  BY <1>0 DEF scheduler_release, table, Stacks
<1>3. Locks'
  BY <1>0, Names DEF scheduler_release, Locks, TypeOK
<1>4. Locals'
  <2>1. KeepsLocals
    BY <1>0 DEF scheduler_release, table, locals, TypeOK, KeepsLocals, Switching
  <2> QED  BY <1>0, <2>1, LocalsKept
<1>5. Forks'
  <2>1. KeepsForks
    BY <1>0 DEF scheduler_release, table, locals, Forking, Place, TypeOK, KeepsForks, Switching
  <2> QED  BY <1>0, <2>1, ForksKept
<1>6. Parents'
  BY Zenon, <1>0 DEF scheduler_release, table, Parents
<1>7. Exiting'
  BY Zenon, <1>0 DEF scheduler_release, table, locals, Exiting
<1>8. Scanning'
  BY Zenon, <1>0 DEF scheduler_release, table, locals, Scanning, HasChild, NoZombieChild
<1>9. Sleeping'
  BY Zenon, <1>0 DEF scheduler_release, table, locals, Sleeping, HasChild, NoZombieChild
<1> QED  BY <1>1, <1>2, <1>3, <1>4, <1>5, <1>6, <1>7, <1>8, <1>9 DEF ProcInv

\* yield(): only a thread without locks is interrupted.
LEMMA YieldKeeps ==
  ASSUME ProcInv, NEW c \in CPUs, NEW p \in Procs, yield(c, p)
  PROVE  ProcInv'
<1>0. TypeOK /\ Stacks /\ Locks /\ Locals /\ Forks /\ Parents /\ Exiting /\ Scanning /\ Sleeping
  BY Zenon DEF ProcInv
<1>1. TypeOK'
  BY Zenon, <1>0 DEF yield, goto, TypeOK, States, Locations
<1>2. Stacks'
  BY <1>0 DEF yield, goto, Stacks, TypeOK
<1>3. Locks'
  BY <1>0, Names DEF yield, goto, Locks, Stacks, UnderWaitLock, Switching, TypeOK
<1>4. Locals'
  BY ZenonT(30), <1>0 DEF yield, goto, Locals, Unlocked, Switching, TypeOK
<1>5. Forks'
  <2>1. KeepsForks
    BY <1>0 DEF yield, goto, Stacks, Forking, Place, Switching, TypeOK, KeepsForks
  <2> QED  BY <1>0, <2>1, ForksKept
<1>6. Parents'
  <2>1. KeepsParents
    BY <1>0, Names DEF yield, goto, Alive, TypeOK, KeepsParents, Parents
  <2> QED  BY <1>0, <2>1, ParentsKept
<1>7. Exiting'
  <2>1. KeepsExiting
    BY <1>0 DEF yield, goto, TypeOK, KeepsExiting
  <2> QED  BY <1>0, <2>1, ExitingKept
<1>8. Scanning'
  <2>1. KeepsScanning
    BY <1>0 DEF yield, goto, TypeOK, KeepsScanning
  <2> QED  BY <1>0, <2>1, ScanningKept
<1>9. Sleeping'
  <2>1. KeepsSleeping
    BY <1>0 DEF yield, goto, TypeOK, KeepsSleeping
  <2> QED  BY <1>0, <2>1, SleepingKept
<1> QED  BY <1>1, <1>2, <1>3, <1>4, <1>5, <1>6, <1>7, <1>8, <1>9 DEF ProcInv

\* fork(): the entry that allocproc() takes is nobody's and has no parent.
LEMMA ForkKeeps ==
  ASSUME ProcInv, NEW c \in CPUs, NEW p \in Procs, NEW n \in Procs, fork(c, p, n)
  PROVE  ProcInv'
<1>0. TypeOK /\ Stacks /\ Locks /\ Locals /\ Forks /\ Parents /\ Exiting /\ Scanning /\ Sleeping
  BY Zenon DEF ProcInv
<1>1. TypeOK'
  BY Zenon, <1>0 DEF fork, TypeOK, States, Locations
<1>2. Stacks'
  BY <1>0 DEF fork, at, Stacks, TypeOK
<1>3. Locks'
  BY SMTT(30), <1>0 DEF fork, at, Locks, Stacks, UnderWaitLock, Switching, TypeOK
<1>4. Locals'
  BY <1>0 DEF fork, at, Locals, Stacks, Switching, TypeOK
<1>5. Forks'
  <2>1. state[p] = "RUNNING" /\ p # n /\ parent[n] = NoProc
    BY Zenon, <1>0 DEF fork, at, Stacks, Parents
  <2>2. \A q \in Procs \ {p, n} : Place(q)' = Place(q) /\ Forking(q)' = Forking(q) /\ np'[q] = np[q] /\ (Forking(q) => np[q] # n)
    BY ZenonT(30), <1>0 DEF fork, Place, Forking, TypeOK, Forks
  <2>3. Place(p)' = "fork_parent" /\ np'[p] = n /\ Place(n)' = "user"
    BY Zenon, <1>0, <2>1 DEF fork, Place, TypeOK, Switching
  <2> QED BY <1>0, <2>1, <2>2, <2>3 DEF fork, Forking, TypeOK, Forks
<1>6. Parents'
  BY Zenon, <1>0, Names DEF fork, Parents, Alive, TypeOK
<1>7. Exiting'
  BY ZenonT(30), <1>0 DEF fork, Exiting, TypeOK
<1>8. Scanning'
  <2>1. KeepsScanning
    BY <1>0 DEF fork, TypeOK, KeepsScanning
  <2> QED  BY <1>0, <2>1, ScanningKept
<1>9. Sleeping'
  <2>1. KeepsSleeping
    BY <1>0 DEF fork, at, Stacks, TypeOK, KeepsSleeping
  <2> QED  BY <1>0, <2>1, SleepingKept
<1> QED  BY <1>1, <1>2, <1>3, <1>4, <1>5, <1>6, <1>7, <1>8, <1>9 DEF ProcInv

\* fork() that fails: freeproc() of an unused entry changes neither state nor parent.
LEMMA ForkFailsKeeps ==
  ASSUME ProcInv, NEW c \in CPUs, NEW p \in Procs, NEW n \in Procs, fork_fails(c, p, n)
  PROVE  ProcInv'
<1>0. TypeOK /\ Stacks /\ Locks /\ Locals /\ Forks /\ Parents /\ Exiting /\ Scanning /\ Sleeping
  BY Zenon DEF ProcInv
<1>a. state' = state /\ parent' = parent /\ state[n] = "UNUSED"
  BY Zenon, <1>0 DEF fork_fails, freeproc, Parents, TypeOK
<1>1. TypeOK'
  BY Zenon, <1>0 DEF fork_fails, freeproc, locals, TypeOK
<1>2. Stacks'
  <2>1. KeepsStacks
    BY Zenon, <1>a DEF fork_fails, KeepsStacks
  <2> QED  BY <1>0, <2>1, StacksKept
<1>3. Locks'
  BY Zenon, <1>0 DEF fork_fails, Locks
<1>4. Locals'
  <2>1. KeepsLocals
    BY Zenon, <1>0, <1>a DEF fork_fails, freeproc, locals, TypeOK, KeepsLocals
  <2> QED  BY <1>0, <2>1, LocalsKept
<1>5. Forks'
  <2>1. KeepsForks
    BY Zenon, <1>a DEF fork_fails, locals, Forking, Place, KeepsForks
  <2> QED  BY <1>0, <2>1, ForksKept
<1>6. Parents'
  BY Zenon, <1>0, <1>a DEF fork_fails, Parents
<1>7. Exiting'
  <2>1. KeepsExiting
    BY Zenon, <1>a DEF fork_fails, locals, KeepsExiting
  <2> QED  BY <1>0, <2>1, ExitingKept
<1>8. Scanning'
  <2>1. KeepsScanning
    BY Zenon, <1>a DEF fork_fails, locals, KeepsScanning
  <2> QED  BY <1>0, <2>1, ScanningKept
<1>9. Sleeping'
  <2>1. KeepsSleeping
    BY Zenon, <1>a DEF fork_fails, locals, KeepsSleeping
  <2> QED  BY <1>0, <2>1, SleepingKept
<1> QED  BY <1>1, <1>2, <1>3, <1>4, <1>5, <1>6, <1>7, <1>8, <1>9 DEF ProcInv

\* fork(): the new child is not ZOMBIE and its parent is running.
LEMMA ForkParentKeeps ==
  ASSUME ProcInv, NEW c \in CPUs, NEW p \in Procs, fork_parent(c, p)
  PROVE  ProcInv'
<1>0. TypeOK /\ Stacks /\ Locks /\ Locals /\ Forks /\ Parents /\ Exiting /\ Scanning /\ Sleeping
  BY Zenon DEF ProcInv
<1>1. TypeOK'
  BY Zenon, <1>0 DEF fork_parent, at, goto, locals, TypeOK, Forks, Locations, Forking, Place, Switching
<1>2. Stacks'
  <2>1. KeepsStacks
    BY <1>0 DEF fork_parent, at, goto, TypeOK, KeepsStacks
  <2> QED  BY <1>0, <2>1, StacksKept
<1>3. Locks'
  <2>1. KeepsLocks
    BY <1>0 DEF fork_parent, at, goto, UnderWaitLock, Switching, TypeOK, KeepsLocks
  <2> QED  BY <1>0, <2>1, LocksKept
<1>4. Locals'
  <2>1. KeepsLocals
    BY <1>0 DEF fork_parent, at, goto, locals, Switching, TypeOK, KeepsLocals
  <2> QED  BY <1>0, <2>1, LocalsKept
<1>5. Forks'
  BY <1>0 DEF fork_parent, at, goto, locals, Forks, Forking, Place, Switching, TypeOK
<1>6. Parents'
  <2> PICK n \in Procs : n = np[p] /\ state[n] = "USED"
    BY <1>0 DEF fork_parent, at, Forks, Forking, Place, Switching
  <2>1. parent' = [parent EXCEPT ![n] = p] /\ state' = state
    BY DEF fork_parent
  <2>2. state[p] = "RUNNING"
    BY <1>0 DEF fork_parent, at, Stacks
  <2>3. pc'[initproc] \notin {"reparent", "wakeup", "zombie"}
    BY <1>0, Names DEF fork_parent, goto, Parents, TypeOK
  <2> QED  BY SMTT(30), <1>0, <2>1, <2>2, <2>3 DEF Parents, Alive, TypeOK
<1>7. Exiting'
  BY SMTT(30), <1>0 DEF fork_parent, at, goto, locals, Exiting, Stacks
<1>8. Scanning'
  BY <1>0, Exclusive DEF fork_parent, goto, Scanning, Stacks, UnderWaitLock
<1>9. Sleeping'
  <2> PICK n \in Procs : n = np[p] /\ state[n] = "USED"
    BY Zenon, <1>0 DEF fork_parent, at, Forks, Forking, Place, Switching
  <2>0. parent[n] = NoProc
    BY Zenon, <1>0 DEF fork_parent, at, Forks, Place, Switching
  <2>1. state[p] = "RUNNING"
    BY Zenon, <1>0 DEF fork_parent, at, Stacks
  <2>2. \A q \in Procs : pc[q] # "wakeup"
    BY Zenon, <1>0, Exclusive DEF fork_parent, UnderWaitLock
  <2>3. \A q, r \in Procs : parent'[r] = q /\ q # p => parent[r] = q
    BY Zenon, <1>0 DEF fork_parent, TypeOK
  <2>4. ASSUME NEW q \in Procs, state[q] = "SLEEPING"
        PROVE  HasChild(q)' /\ NoZombieChild(q)'
    <3>1. NoZombieChild(q)'
      BY Zenon, <1>0, <2>1, <2>2, <2>3, <2>4 DEF fork_parent, Sleeping, NoZombieChild
    <3>2. PICK r \in Procs : parent[r] = q
      BY Zenon, <1>0, <2>4 DEF Sleeping, HasChild
    <3>3. r # n
      BY Zenon, <2>0, <3>2, Names
    <3> QED BY <1>0, <3>1, <3>2, <3>3 DEF fork_parent, TypeOK, HasChild
  <2> QED BY <2>4 DEF fork_parent, Sleeping, HasChild, NoZombieChild
<1> QED  BY <1>1, <1>2, <1>3, <1>4, <1>5, <1>6, <1>7, <1>8, <1>9 DEF ProcInv

\* fork(): the child becomes RUNNABLE, its thread still inside swtch().
LEMMA ForkRunnableKeeps ==
  ASSUME ProcInv, NEW c \in CPUs, NEW p \in Procs, fork_runnable(c, p)
  PROVE  ProcInv'
<1>0. TypeOK /\ Stacks /\ Locks /\ Locals /\ Forks /\ Parents /\ Exiting /\ Scanning /\ Sleeping
  BY Zenon DEF ProcInv
<1>1. TypeOK'
  BY ZenonT(30), <1>0 DEF fork_runnable, at, free, goto, TypeOK, Forks, States, Locations, Forking, Place, Switching
<1>2. Stacks'
  BY <1>0 DEF fork_runnable, at, goto, Stacks, Forks, Switching, Forking, Place
<1>3. Locks'
  <2>1. KeepsLocks
    BY <1>0 DEF fork_runnable, at, goto, UnderWaitLock, Switching, TypeOK, KeepsLocks
  <2> QED  BY <1>0, <2>1, LocksKept
<1>4. Locals'
  <2>1. KeepsLocals
    BY <1>0 DEF fork_runnable, at, goto, Switching, TypeOK, KeepsLocals
  <2> QED  BY <1>0, <2>1, LocalsKept
<1>5. Forks'
  BY <1>0 DEF fork_runnable, at, goto, Forks, Forking, Place, Switching, TypeOK
<1>6. Parents'
  <2>1. KeepsParents
    BY <1>0, Names DEF fork_runnable, goto, Alive, TypeOK, KeepsParents, Parents
  <2> QED  BY <1>0, <2>1, ParentsKept
<1>7. Exiting'
  <2>1. KeepsExiting
    BY <1>0 DEF fork_runnable, goto, TypeOK, KeepsExiting
  <2> QED  BY <1>0, <2>1, ExitingKept
<1>8. Scanning'
  <2>1. KeepsScanning
    BY <1>0 DEF fork_runnable, goto, TypeOK, KeepsScanning
  <2> QED  BY <1>0, <2>1, ScanningKept
<1>9. Sleeping'
  <2>1. KeepsSleeping
    BY <1>0 DEF fork_runnable, at, goto, TypeOK, KeepsSleeping
  <2> QED  BY <1>0, <2>1, SleepingKept
<1> QED  BY <1>1, <1>2, <1>3, <1>4, <1>5, <1>6, <1>7, <1>8, <1>9 DEF ProcInv

\* exit(): takes wait_lock; reparent() has passed no entry yet.
LEMMA ExitKeeps ==
  ASSUME ProcInv, NEW c \in CPUs, NEW p \in Procs, exit(c, p)
  PROVE  ProcInv'
<1>0. TypeOK /\ Stacks /\ Locks /\ Locals /\ Forks /\ Parents /\ Exiting /\ Scanning /\ Sleeping
  BY Zenon DEF ProcInv
<1>1. TypeOK'
  BY Zenon, <1>0 DEF exit, goto, table, locals, TypeOK, Locations
<1>2. Stacks'
  <2>1. KeepsStacks
    BY <1>0 DEF exit, at, goto, table, TypeOK, KeepsStacks
  <2> QED  BY <1>0, <2>1, StacksKept
<1>3. Locks'
  BY <1>0, Names DEF exit, at, goto, Locks, Stacks, UnderWaitLock, Switching, TypeOK
<1>4. Locals'
  <2>1. KeepsLocals
    BY <1>0 DEF exit, at, goto, table, locals, Switching, TypeOK, KeepsLocals
  <2> QED  BY <1>0, <2>1, LocalsKept
<1>5. Forks'
  <2>1. KeepsForks
    BY <1>0 DEF exit, goto, table, locals, Forking, Place, Switching, TypeOK, KeepsForks
  <2> QED  BY <1>0, <2>1, ForksKept
<1>6. Parents'
  <2>1. KeepsParents
    BY <1>0, Names DEF exit, goto, table, TypeOK, KeepsParents, Parents, Alive
  <2> QED  BY <1>0, <2>1, ParentsKept
<1>7. Exiting'
  BY <1>0, Indices DEF exit, at, goto, table, locals, Exiting, Locals
<1>8. Scanning'
  <2>1. KeepsScanning
    BY <1>0 DEF exit, goto, table, locals, TypeOK, KeepsScanning
  <2> QED  BY <1>0, <2>1, ScanningKept
<1>9. Sleeping'
  <2>1. KeepsSleeping
    BY <1>0 DEF exit, at, goto, table, locals, TypeOK, KeepsSleeping
  <2> QED  BY <1>0, <2>1, SleepingKept
<1> QED  BY <1>1, <1>2, <1>3, <1>4, <1>5, <1>6, <1>7, <1>8, <1>9 DEF ProcInv

\* reparent(): one entry at a time; init, which inherits, is about to be woken.
LEMMA ReparentKeeps ==
  ASSUME ProcInv, NEW c \in CPUs, NEW p \in Procs, reparent(c, p)
  PROVE  ProcInv'
<1>0. TypeOK /\ Stacks /\ Locks /\ Locals /\ Forks /\ Parents /\ Exiting /\ Scanning /\ Sleeping
  BY Zenon DEF ProcInv
<1>1. TypeOK'
  BY <1>0, Names, Indices DEF reparent, goto, call_wakeup, TypeOK, Locations
<1>2. Stacks'
  <2>1. KeepsStacks
    BY <1>0 DEF reparent, at, goto, call_wakeup, TypeOK, KeepsStacks
  <2> QED  BY <1>0, <2>1, StacksKept
<1>3. Locks'
  <2>1. KeepsLocks
    BY SMTT(30), <1>0 DEF reparent, at, goto, call_wakeup, UnderWaitLock, Switching, TypeOK, KeepsLocks
  <2> QED  BY <1>0, <2>1, LocksKept
<1>4. Locals'
  BY <1>0 DEF reparent, at, goto, call_wakeup, Locals, Stacks, Switching, TypeOK
<1>5. Forks'
  <2>1. ~Forking(p)' /\ ~Forking(p)
    BY ZenonT(30), <1>0, Names DEF reparent, at, call_wakeup, goto, Forking, Place, Switching, TypeOK
  <2>2. \A q \in Procs \ {p} : Place(q)' = Place(q) /\ Forking(q)' = Forking(q)
    BY <1>0 DEF reparent, at, call_wakeup, goto, Place, Forking, TypeOK, Forks
  <2>3. \A q \in Procs : parent[q] = NoProc => parent'[q] = NoProc
    BY Zenon, <1>0, Names, Entry DEF reparent, TypeOK
  <2> QED BY <1>0, <2>1, <2>2, <2>3 DEF reparent, Forking, Forks
<1>6. Parents'
  BY <1>0, Names DEF reparent, at, goto, call_wakeup, Parents, TypeOK
<1>7. Exiting'
  <2>3. \A r \in Procs : r # p => pc[r] \notin {"reparent", "wakeup", "zombie"}
    BY Zenon, <1>0, Exclusive DEF reparent, at, UnderWaitLock
  <2>0. p # initproc /\ pc[p] = "reparent" /\ ret[p] = "user" /\ wp[p] = 1 /\ p # NoProc
    BY Zenon, <1>0, Names DEF reparent, at, Parents, Locals, Switching
  <2>1. CASE pp[p] > NPROC
    <3> \A k \in Procs : parent[k] # p
      BY <1>0, <2>1, <2>0, Indices DEF TypeOK, Exiting
    <3> parent[p] # NoProc => parent[p] \in Procs
      BY Zenon, <1>0 DEF TypeOK
    <3> parent[p] # NoProc => ~(parent[p] < 1)
      BY Zenon, ParentEntry
    <3> QED
      BY ZenonT(30), <1>0, <2>0, <2>1, <2>3 DEF reparent, call_wakeup, goto, TypeOK, Exiting
  <2>2. CASE ~(pp[p] > NPROC)
    <3> pp[p] \in Procs  BY <1>0, <2>2, Entry, Indices DEF TypeOK
    <3> PICK q \in Procs : q = pp[p]  OBVIOUS
    <3>1. \A k \in Procs : parent[k] = p => k >= q
      BY Zenon, <1>0, <2>0 DEF Exiting
    <3>2. \A k \in Procs : parent'[k] = p => k >= q + 1
      BY <1>0, <2>0, <2>2, <3>1, Indices DEF reparent, TypeOK
    <3> QED
      BY <1>0, <2>0, <2>2, <2>3, <3>2 DEF reparent, call_wakeup, goto, TypeOK, Exiting
  <2> QED BY <1>0, <2>1, <2>2, Indices DEF TypeOK
<1>8. Scanning'
  BY <1>0, Exclusive DEF reparent, at, goto, call_wakeup, Scanning, Stacks, UnderWaitLock, TypeOK
<1>9. Sleeping'
  <2>1. pc[p] = "reparent" /\ wp[p] = 1 /\ state' = state /\ wp' = wp /\ state[p] = "RUNNING"
    BY <1>0 DEF reparent, at, Locals, Stacks
  <2>2. \A r \in Procs : pc[r] # "wakeup"
    BY Zenon, <1>0, <2>1, Exclusive DEF UnderWaitLock
  <2>3. CASE parent' = parent
    BY <1>0, <2>1, <2>2, <2>3, SleepingKept DEF KeepsSleeping
  <2>4. CASE parent' # parent
    <3>1. PICK k \in Procs : parent[k] = p /\ parent' = [parent EXCEPT ![k] = initproc]
      <4>1. ~(pp[p] > NPROC) /\ parent[pp[p]] = p /\ parent' = [parent EXCEPT ![pp[p]] = initproc]
        BY <2>4 DEF reparent
      <4>2. PICK k \in 1..NPROC + 1 : k = pp[p]
        BY <1>0 DEF TypeOK
      <4>3. k \in Procs
        BY <4>1, <4>2, Indices
      <4> QED  BY Zenon, <4>1, <4>2, <4>3
    <3>2. pc'[p] = "wakeup" /\ ret'[p] = "reparent" /\ wp'[p] = 1
      BY <1>0, <2>1, <2>4 DEF reparent, call_wakeup, goto, TypeOK
    <3>3. ASSUME NEW r \in Procs, state[r] = "SLEEPING"
          PROVE  /\ \E q \in Procs : parent'[q] = r
                 /\ r = initproc \/ \A q \in Procs : parent'[q] = r => state[q] # "ZOMBIE"
      <4>1. HasChild(r) /\ NoZombieChild(r) /\ r # p
        BY <1>0, <2>1, <2>2, <3>3 DEF Sleeping
      <4>2. \A q \in Procs : q # k => parent'[q] = parent[q]
        BY <1>0, <3>1 DEF TypeOK
      <4>3. parent'[k] = initproc
        BY <1>0, <3>1 DEF TypeOK
      <4> QED  BY SMTT(30), <3>1, <4>1, <4>2, <4>3 DEF HasChild, NoZombieChild
    <3> QED  BY <2>1, <3>2, <3>3 DEF Sleeping, HasChild, NoZombieChild
  <2> QED  BY SMTT(30), <2>3, <2>4
<1> QED  BY <1>1, <1>2, <1>3, <1>4, <1>5, <1>6, <1>7, <1>8, <1>9 DEF ProcInv

\* wakeup(): a sleeper on the channel does not stay asleep behind the loop.
LEMMA WakeupKeeps ==
  ASSUME ProcInv, NEW c \in CPUs, NEW p \in Procs, wakeup(c, p)
  PROVE  ProcInv'
<1>0. TypeOK /\ Stacks /\ Locks /\ Locals /\ Forks /\ Parents /\ Exiting /\ Scanning /\ Sleeping
  BY Zenon DEF ProcInv
<1> PICK q \in Procs : q = wp[p]  BY <1>0 DEF TypeOK
<1> PICK i \in Procs : wp' = [wp EXCEPT ![p] = i] /\ i = IF q = NPROC THEN 1 ELSE q + 1
  BY Zenon, Indices, Names DEF wakeup, initproc
<1> (IF q = NPROC THEN ret[p] ELSE "wakeup") \in Locations
  BY Zenon, <1>0 DEF TypeOK, Locations
<1> PICK l \in Locations : pc' = [pc EXCEPT ![p] = l] /\ l = IF q = NPROC THEN ret[p] ELSE "wakeup"
  BY Zenon, <1>0 DEF wakeup, goto, TypeOK, Locations
<1> (IF q = NPROC THEN "user" ELSE ret[p]) \in Locations
  BY Zenon, <1>0 DEF TypeOK, Locations
<1> PICK m \in Locations : ret' = [ret EXCEPT ![p] = m] /\ m = IF q = NPROC THEN "user" ELSE ret[p]
  BY Zenon, <1>0 DEF wakeup, TypeOK, Locations
<1>a. state' \in [Procs -> States]
  BY ZenonT(30), <1>0 DEF wakeup, TypeOK, States
<1>1. TypeOK'
  BY <1>0, <1>a DEF wakeup, TypeOK
<1>c. \A r \in Procs : r # p => pc[r] \notin {"reparent", "wakeup", "zombie"}
  BY Zenon, <1>0, Exclusive DEF wakeup, at, UnderWaitLock
<1>d. \A r \in Procs : state'[r] = "SLEEPING" => state[r] = "SLEEPING" /\ (r = q => r = p \/ chan[r] # WakeupChan(p))
  BY ZenonT(30), <1>0 DEF wakeup, TypeOK
<1>e. pc[p] = "wakeup" /\ state[p] = "RUNNING" /\ ret[p] \in {"reparent", "zombie"}
  BY Zenon, <1>0 DEF wakeup, at, Stacks, Locals
<1>f. ASSUME ret[p] = "zombie", parent[p] # NoProc, parent[p] <= q
      PROVE  state'[parent[p]] # "SLEEPING"
  <2> parent[p] \in Procs BY <1>0, <1>f DEF TypeOK
  <2>1. CASE parent[p] = q
    BY Zenon, <1>0, <2>1, <1>f, <1>d, <1>e DEF WakeupChan, Locals
  <2>2. CASE parent[p] < q
    BY Zenon, <1>0, <2>2, <1>f, <1>d, <1>e DEF Exiting
  <2> QED BY <2>1, <2>2, <1>f, Indices
<1>7. Exiting'
  <2> SUFFICES ASSUME NEW r \in Procs
               PROVE  /\ pc'[r] = "reparent" \/ (pc'[r] = "wakeup" /\ ret'[r] = "reparent") =>
                           \A k \in Procs : parent[k] = r => k >= pp[r]
                      /\ pc'[r] = "zombie" \/ (pc'[r] = "wakeup" /\ ret'[r] = "zombie") =>
                           \A k \in Procs : parent[k] # r
                      /\ pc'[r] = "zombie" /\ parent[r] # NoProc => state'[parent[r]] # "SLEEPING"
                      /\ pc'[r] = "wakeup" /\ ret'[r] = "zombie" /\ parent[r] # NoProc /\ parent[r] < wp'[r] =>
                            state'[parent[r]] # "SLEEPING"
    BY ZenonT(30) DEF wakeup, Exiting
  <2>1. CASE r # p
    BY Zenon, <1>0, <2>1, <1>c DEF TypeOK
  <2>2. CASE r = p /\ q = NPROC
    <3> parent[p] # NoProc => parent[p] \in Procs
      BY Zenon, <1>0 DEF TypeOK
    <3> parent[p] # NoProc => parent[p] <= q
      BY Zenon, <2>2, Indices
    <3> pc'[p] = ret[p]
      BY ZenonT(30), <1>0, <2>2 DEF TypeOK
    <3> QED BY <1>0, <2>2, <1>e, <1>f DEF Exiting
  <2>3. CASE r = p /\ q # NPROC
    <3> wp'[p] = q + 1 /\ pc'[p] = "wakeup" /\ ret'[p] = ret[p]
      BY Zenon, <1>0, <2>3 DEF TypeOK
    <3> parent[p] # NoProc /\ parent[p] < q + 1 => parent[p] <= q
      <4> parent[p] # NoProc => parent[p] \in Procs
        BY ZenonT(30), <1>0 DEF TypeOK
      <4> QED BY Indices
    <3> QED BY <1>0, <2>3, <1>e, <1>f DEF Exiting
  <2> QED BY <2>1, <2>2, <2>3
<1>2. Stacks'
  BY <1>0 DEF wakeup, at, goto, Stacks, Locals
<1>3. Locks'
  <2>1. KeepsLocks
    BY SMTT(30), <1>0 DEF wakeup, at, goto, Locals, UnderWaitLock, Switching, TypeOK, KeepsLocks
  <2> QED  BY SMTT(30), <1>0, <2>1, LocksKept
<1>4. Locals'
  BY <1>0 DEF wakeup, at, goto, Locals, Unlocked, TypeOK
<1>5. Forks'
  <2>1. KeepsForks
    BY <1>0 DEF wakeup, goto, Locals, Forking, Place, Switching, Unlocked, TypeOK, KeepsForks
  <2> QED  BY SMTT(30), <1>0, <2>1, ForksKept
<1>6. Parents'
  BY <1>0 DEF wakeup, at, goto, Parents, Alive
<1>8. Scanning'
  <2>1. KeepsScanning
    BY <1>0 DEF wakeup, goto, Locals, Unlocked, TypeOK, KeepsScanning
  <2> QED  BY SMTT(30), <1>0, <2>1, ScanningKept
<1>9. Sleeping'
  <2>1. parent' = parent /\ \A r \in Procs : state'[r] = "ZOMBIE" => state[r] = "ZOMBIE"
    BY <1>0 DEF wakeup, TypeOK
  <2>2. ASSUME NEW r \in Procs, state'[r] = "SLEEPING" PROVE HasChild(r) /\ NoZombieChild(r)
    <3>1. state[r] = "SLEEPING" /\ chan[r] = r
      BY <1>0, <1>d, <2>2 DEF Locals
    <3>2. SUFFICES ASSUME r = initproc, ret[p] = "reparent", wp[p] = 1 PROVE FALSE
      BY <1>0, <1>c, <3>1 DEF Sleeping
    <3>3. q = initproc /\ chan[r] = WakeupChan(p)
      BY <3>1, <3>2 DEF initproc, WakeupChan
    <3>4. r # p
      BY <1>e, <3>1
    <3> QED  BY <1>d, <2>2, <3>2, <3>3, <3>4
  <2> QED  BY <2>1, <2>2 DEF Sleeping, HasChild, NoZombieChild
<1> QED  BY <1>1, <1>2, <1>3, <1>4, <1>5, <1>6, <1>7, <1>8, <1>9 DEF ProcInv

\* exit(): p has no children left, and its parent is awake.
LEMMA ZombieKeeps ==
  ASSUME ProcInv, NEW c \in CPUs, NEW p \in Procs, zombie(c, p)
  PROVE  ProcInv'
<1>0. TypeOK /\ Stacks /\ Locks /\ Locals /\ Forks /\ Parents /\ Exiting /\ Scanning /\ Sleeping
  BY Zenon DEF ProcInv
<1>1. TypeOK'
  BY Zenon, <1>0 DEF zombie, goto, locals, TypeOK, States, Locations
<1>2. Stacks'
  BY <1>0 DEF zombie, at, goto, Stacks, TypeOK
<1>3. Locks'
  BY <1>0, Names DEF zombie, at, goto, Locks, Stacks, UnderWaitLock, Switching, TypeOK
<1>4. Locals'
  <2>1. pc[p] = "zombie" /\ ret[p] = "user" /\ wp[p] = 1 /\ pp[p] = 1
    BY Zenon, <1>0 DEF zombie, at, Locals, Switching
  <2>2. /\ pc'[p] = "sched" /\ state'[p] = "ZOMBIE"
        /\ \A r \in Procs \ {p} : pc'[r] = pc[r] /\ state'[r] = state[r]
        /\ UNCHANGED <<ret, pp, wp, chan>>
    BY <1>0 DEF zombie, goto, locals, TypeOK
  <2> QED  BY ZenonT(30), <1>0, <2>1, <2>2 DEF Locals, Switching, Unlocked
<1>5. Forks'
  <2>1. KeepsForks
    BY <1>0 DEF zombie, at, goto, locals, Stacks, Locals, Forking, Place, TypeOK, KeepsForks, Switching
  <2> QED  BY <1>0, <2>1, ForksKept
<1>6. Parents'
  BY <1>0 DEF zombie, at, goto, Parents, Exiting
<1>7. Exiting'
  <2>1. KeepsExiting
    BY <1>0 DEF zombie, goto, locals, TypeOK, KeepsExiting
  <2> QED  BY <1>0, <2>1, ExitingKept
<1>8. Scanning'
  <2>1. \A r \in Procs : pc'[r] \notin {"scan", "sleep"}
    BY <1>0, Exclusive DEF zombie, at, goto, UnderWaitLock, TypeOK
  <2> QED  BY <2>1 DEF Scanning
<1>9. Sleeping'
  <2>1. /\ parent' = parent /\ pc[p] = "zombie" /\ state'[p] = "ZOMBIE"
        /\ \A r \in Procs : r # p => state'[r] = state[r]
    BY <1>0 DEF zombie, at, TypeOK
  <2>2. \A r \in Procs : pc[r] # "wakeup"
    BY Zenon, <1>0, <2>1, Exclusive DEF UnderWaitLock
  <2>3. parent[p] # NoProc => state[parent[p]] # "SLEEPING"
    BY SMTT(30), <1>0, <2>1 DEF Exiting
  <2>4. ASSUME NEW r \in Procs, state'[r] = "SLEEPING"
        PROVE  HasChild(r) /\ \A k \in Procs : parent[k] = r => state'[k] # "ZOMBIE"
    <3>1. state[r] = "SLEEPING"
      BY ZenonT(30), <2>1, <2>4
    <3>2. HasChild(r) /\ NoZombieChild(r)
      BY SMTT(30), <1>0, <2>2, <3>1 DEF Sleeping
    <3>3. parent[p] # r
      BY <2>3, <3>1, Names
    <3> QED  BY <2>1, <3>2, <3>3 DEF NoZombieChild
  <2> QED  BY Zenon, <2>1, <2>4 DEF Sleeping, HasChild, NoZombieChild
<1> QED  BY <1>1, <1>2, <1>3, <1>4, <1>5, <1>6, <1>7, <1>8, <1>9 DEF ProcInv

\* wait(): takes wait_lock; the scan has passed no entry yet.
LEMMA WaitKeeps ==
  ASSUME ProcInv, NEW c \in CPUs, NEW p \in Procs, wait(c, p)
  PROVE  ProcInv'
<1>0. TypeOK /\ Stacks /\ Locks /\ Locals /\ Forks /\ Parents /\ Exiting /\ Scanning /\ Sleeping
  BY Zenon DEF ProcInv
<1>1. TypeOK'
  BY Zenon, <1>0 DEF wait, goto, table, TypeOK, Locations
<1>2. Stacks'
  <2>1. KeepsStacks
    BY SMTT(30), <1>0 DEF wait, goto, table, TypeOK, KeepsStacks
  <2> QED  BY <1>0, <2>1, StacksKept
<1>3. Locks'
  BY <1>0, Names DEF wait, goto, Locks, Stacks, UnderWaitLock, Switching, TypeOK
<1>4. Locals'
  <2>1. KeepsLocals
    BY <1>0 DEF wait, goto, table, Switching, TypeOK, KeepsLocals
  <2> QED  BY <1>0, <2>1, LocalsKept
<1>5. Forks'
  <2>1. KeepsForks
    BY <1>0 DEF wait, goto, table, Forking, Place, Switching, TypeOK, KeepsForks
  <2> QED  BY <1>0, <2>1, ForksKept
<1>6. Parents'
  <2>1. KeepsParents
    BY <1>0, Names DEF wait, goto, table, TypeOK, KeepsParents, Parents, Alive
  <2> QED  BY <1>0, <2>1, ParentsKept
<1>7. Exiting'
  <2>1. KeepsExiting
    BY SMTT(30), <1>0 DEF wait, goto, table, TypeOK, KeepsExiting
  <2> QED  BY <1>0, <2>1, ExitingKept
<1>8. Scanning'
  BY <1>0, Indices DEF wait, goto, table, Scanning, Locals, HasChild, NoZombieChild, TypeOK
<1>9. Sleeping'
  <2>1. KeepsSleeping
    BY <1>0 DEF wait, goto, table, TypeOK, KeepsSleeping
  <2> QED  BY <1>0, <2>1, SleepingKept
<1> QED  BY <1>1, <1>2, <1>3, <1>4, <1>5, <1>6, <1>7, <1>8, <1>9 DEF ProcInv

\* wait(): an entry that is no exited child is passed.
LEMMA ScanKeeps ==
  ASSUME ProcInv, NEW c \in CPUs, NEW p \in Procs, scan(c, p)
  PROVE  ProcInv'
<1>0. TypeOK /\ Stacks /\ Locks /\ Locals /\ Forks /\ Parents /\ Exiting /\ Scanning /\ Sleeping
  BY Zenon DEF ProcInv
<1>1. TypeOK'
  BY Zenon, <1>0, Indices DEF scan, table, TypeOK
<1>2. Stacks'
  <2>1. KeepsStacks
    BY Zenon, <1>0 DEF scan, table, TypeOK, KeepsStacks
  <2> QED  BY <1>0, <2>1, StacksKept
<1>3. Locks'
  BY Zenon, <1>0 DEF scan, Locks
<1>4. Locals'
  BY <1>0 DEF scan, at, table, Locals
<1>5. Forks'
  BY ZenonT(30), <1>0 DEF scan, table, Forks, Forking, Place
<1>6. Parents'
  BY Zenon, <1>0 DEF scan, table, Parents
<1>7. Exiting'
  <2>1. KeepsExiting
    BY <1>0 DEF scan, at, table, TypeOK, KeepsExiting
  <2> QED  BY <1>0, <2>1, ExitingKept
<1>8. Scanning'
  <2> pp[p] \in Procs  BY Entry DEF scan
  <2> PICK q \in Procs : q = pp[p]  OBVIOUS
  <2>1. \A r \in Procs : r # p => pc[r] # "scan"
    BY Zenon, <1>0, Exclusive DEF scan, at, UnderWaitLock
  <2>2. HasChild(p)' = HasChild(p) /\ NoZombieChild(p)' = NoZombieChild(p)
    BY Zenon DEF scan, HasChild, NoZombieChild, table
  <2>3. havekids'[p] => HasChild(p)
    BY Zenon, <1>0 DEF scan, at, HasChild, TypeOK, Scanning
  <2>4. \A r \in Procs : parent'[r] = p /\ r < pp'[p] => state'[r] # "ZOMBIE"
    <3> SUFFICES ASSUME NEW r \in Procs, parent[r] = p, r < q + 1 PROVE state[r] # "ZOMBIE"
      BY Zenon, <1>0 DEF scan, table, TypeOK
    <3> r < q \/ r = q BY Indices
    <3> QED BY <1>0 DEF scan, at, Scanning
  <2> QED BY <1>0, <2>1, <2>2, <2>3, <2>4 DEF scan, at, table, TypeOK, Scanning, HasChild, NoZombieChild
<1>9. Sleeping'
  BY Zenon, <1>0 DEF scan, table, Sleeping, HasChild, NoZombieChild
<1> QED  BY <1>1, <1>2, <1>3, <1>4, <1>5, <1>6, <1>7, <1>8, <1>9 DEF ProcInv

\* wait(): freeproc() of an exited child, which is nobody's parent.
LEMMA ReapKeeps ==
  ASSUME ProcInv, NEW c \in CPUs, NEW p \in Procs, reap(c, p)
  PROVE  ProcInv'
<1>0. TypeOK /\ Stacks /\ Locks /\ Locals /\ Forks /\ Parents /\ Exiting /\ Scanning /\ Sleeping
  BY Zenon DEF ProcInv
<1> pp[p] \in Procs  BY Entry DEF reap
<1> PICK q \in Procs : q = pp[p]  OBVIOUS
<1>1. TypeOK'
  <2>1. CASE freeproc(q)
    BY Zenon, <1>0, <2>1, Names, Indices DEF reap, freeproc, wait_returns, goto, TypeOK, States, Locations
  <2>2. CASE UNCHANGED table
    BY ZenonT(30), <1>0, <2>2, Names, Indices DEF reap, table, wait_returns, goto, TypeOK, States, Locations
  <2> QED  BY <2>1, <2>2 DEF reap
<1>2. Stacks'
  BY <1>0, Names DEF reap, at, free, freeproc, wait_returns, goto, table, Stacks, Locks, Switching, TypeOK
<1>3. Locks'
  BY <1>0, Names DEF reap, at, wait_returns, goto, Locks, UnderWaitLock, Switching, TypeOK
<1>4. Locals'
  BY SMTT(30), <1>0 DEF reap, at, freeproc, wait_returns, goto, table, Locals, Switching, TypeOK
<1>5. Forks'
  BY SMTT(30), <1>0 DEF reap, freeproc, wait_returns, goto, table, Forks, Forking, Place, Switching, TypeOK
<1>6. Parents'
  <2>1. CASE freeproc(q)
    BY <1>0, <2>1, Names DEF reap, freeproc, at, wait_returns, goto, TypeOK, Stacks, Parents, Alive
  <2>2. CASE UNCHANGED table
    BY ZenonT(30), <1>0, <2>2, Names DEF reap, table, at, wait_returns, goto, TypeOK, Stacks, Parents, Alive
  <2> QED  BY <2>1, <2>2 DEF reap
<1>7. Exiting'
  BY <1>0, Names DEF reap, freeproc, wait_returns, goto, table, Exiting, TypeOK
<1>8. Scanning'
  BY SMTT(30), <1>0 DEF reap, freeproc, wait_returns, goto, table, Scanning, HasChild, NoZombieChild, TypeOK
<1>9. Sleeping'
  BY <1>0 DEF reap, at, freeproc, wait_returns, goto, table, Sleeping, Stacks, HasChild, NoZombieChild, TypeOK
<1> QED  BY <1>1, <1>2, <1>3, <1>4, <1>5, <1>6, <1>7, <1>8, <1>9 DEF ProcInv

\* wait(): returns -1.
LEMMA WaitFailsKeeps ==
  ASSUME ProcInv, NEW c \in CPUs, NEW p \in Procs, wait_fails(c, p)
  PROVE  ProcInv'
<1>0. TypeOK /\ Stacks /\ Locks /\ Locals /\ Forks /\ Parents /\ Exiting /\ Scanning /\ Sleeping
  BY Zenon DEF ProcInv
<1>1. TypeOK'
  BY Zenon, <1>0, Indices DEF wait_fails, wait_returns, goto, table, TypeOK, Locations
<1>2. Stacks'
  <2>1. KeepsStacks
    BY <1>0 DEF wait_fails, at, wait_returns, goto, table, TypeOK, KeepsStacks
  <2> QED  BY <1>0, <2>1, StacksKept
<1>3. Locks'
  BY <1>0, Names DEF wait_fails, at, wait_returns, goto, Locks, UnderWaitLock, Switching, TypeOK
<1>4. Locals'
  BY ZenonT(30), <1>0 DEF wait_fails, at, wait_returns, goto, table, Locals, Switching, TypeOK
<1>5. Forks'
  <2>1. KeepsForks
    BY <1>0 DEF wait_fails, wait_returns, goto, table, Forking, Place, Switching, TypeOK, KeepsForks
  <2> QED  BY <1>0, <2>1, ForksKept
<1>6. Parents'
  <2>1. KeepsParents
    BY <1>0, Names DEF wait_fails, wait_returns, goto, table, TypeOK, KeepsParents, Parents, Alive
  <2> QED  BY <1>0, <2>1, ParentsKept
<1>7. Exiting'
  BY Zenon, <1>0 DEF wait_fails, wait_returns, goto, table, Exiting, TypeOK
<1>8. Scanning'
  BY ZenonT(30), <1>0 DEF wait_fails, wait_returns, goto, table, Scanning, HasChild, NoZombieChild, TypeOK
<1>9. Sleeping'
  <2>1. KeepsSleeping
    BY <1>0 DEF wait_fails, at, wait_returns, goto, table, TypeOK, KeepsSleeping
  <2> QED  BY <1>0, <2>1, SleepingKept
<1> QED  BY <1>1, <1>2, <1>3, <1>4, <1>5, <1>6, <1>7, <1>8, <1>9 DEF ProcInv

\* wait(): after the scan there is a child and none has exited.
LEMMA WaitSleepsKeeps ==
  ASSUME ProcInv, NEW c \in CPUs, NEW p \in Procs, wait_sleeps(c, p)
  PROVE  ProcInv'
<1>0. TypeOK /\ Stacks /\ Locks /\ Locals /\ Forks /\ Parents /\ Exiting /\ Scanning /\ Sleeping
  BY Zenon DEF ProcInv
<1>1. TypeOK'
  BY Zenon, <1>0, Indices DEF wait_sleeps, goto, table, TypeOK, Locations
<1>2. Stacks'
  <2>1. KeepsStacks
    BY <1>0 DEF wait_sleeps, at, goto, table, TypeOK, KeepsStacks
  <2> QED  BY <1>0, <2>1, StacksKept
<1>3. Locks'
  <2>1. KeepsLocks
    BY <1>0 DEF wait_sleeps, at, goto, UnderWaitLock, Switching, TypeOK, KeepsLocks
  <2> QED  BY <1>0, <2>1, LocksKept
<1>4. Locals'
  BY ZenonT(30), <1>0 DEF wait_sleeps, at, goto, table, Locals, Switching, TypeOK
<1>5. Forks'
  <2>1. KeepsForks
    BY <1>0 DEF wait_sleeps, goto, table, Forking, Place, Switching, TypeOK, KeepsForks
  <2> QED  BY <1>0, <2>1, ForksKept
<1>6. Parents'
  <2>1. KeepsParents
    BY <1>0, Names DEF wait_sleeps, goto, table, TypeOK, KeepsParents, Parents, Alive
  <2> QED  BY <1>0, <2>1, ParentsKept
<1>7. Exiting'
  BY ZenonT(30), <1>0 DEF wait_sleeps, goto, table, Exiting, TypeOK
<1>8. Scanning'
  BY SMTT(30), <1>0, Indices DEF wait_sleeps, at, goto, table, Scanning, HasChild, NoZombieChild, TypeOK
<1>9. Sleeping'
  <2>1. KeepsSleeping
    BY <1>0 DEF wait_sleeps, at, goto, table, TypeOK, KeepsSleeping
  <2> QED  BY <1>0, <2>1, SleepingKept
<1> QED  BY <1>1, <1>2, <1>3, <1>4, <1>5, <1>6, <1>7, <1>8, <1>9 DEF ProcInv

\* sleep(): p sleeps as it releases wait_lock, with the scan's result still true.
LEMMA SleepKeeps ==
  ASSUME ProcInv, NEW c \in CPUs, NEW p \in Procs, sleep(c, p)
  PROVE  ProcInv'
<1>0. TypeOK /\ Stacks /\ Locks /\ Locals /\ Forks /\ Parents /\ Exiting /\ Scanning /\ Sleeping
  BY Zenon DEF ProcInv
<1>1. TypeOK'
  BY ZenonT(30), <1>0 DEF sleep, goto, TypeOK, States, Locations
<1>2. Stacks'
  BY SMTT(30), <1>0 DEF sleep, at, goto, Stacks, TypeOK
<1>3. Locks'
  BY <1>0, Names DEF sleep, at, goto, Locks, Stacks, UnderWaitLock, Switching, TypeOK
<1>4. Locals'
  BY ZenonT(30), <1>0 DEF sleep, at, goto, Locals, Unlocked, Switching, TypeOK
<1>5. Forks'
  <2>1. KeepsForks
    BY <1>0 DEF sleep, at, goto, Stacks, Forking, Place, TypeOK, KeepsForks, Switching
  <2> QED  BY <1>0, <2>1, ForksKept
<1>6. Parents'
  <2>1. KeepsParents
    BY <1>0, Names DEF sleep, goto, Alive, TypeOK, KeepsParents, Parents
  <2> QED  BY <1>0, <2>1, ParentsKept
<1>7. Exiting'
  <2>1. \A r \in Procs : pc'[r] \notin {"reparent", "wakeup", "zombie"}
    BY <1>0, Exclusive DEF sleep, at, goto, UnderWaitLock, TypeOK
  <2> QED  BY <2>1 DEF Exiting
<1>8. Scanning'
  <2>1. KeepsScanning
    BY <1>0 DEF sleep, goto, TypeOK, KeepsScanning
  <2> QED  BY <1>0, <2>1, ScanningKept
<1>9. Sleeping'
  <2>1. /\ parent' = parent /\ pc[p] = "sleep" /\ state'[p] = "SLEEPING"
        /\ \A r \in Procs : r # p => state'[r] = state[r]
    BY <1>0 DEF sleep, at, TypeOK
  <2>2. \A r \in Procs : pc[r] # "wakeup"
    BY Zenon, <1>0, <2>1, Exclusive DEF UnderWaitLock
  <2>3. \A r \in Procs : state'[r] = "SLEEPING" => HasChild(r) /\ NoZombieChild(r)
    BY <1>0, <2>1, <2>2 DEF Scanning, Sleeping
  <2>4. \A r \in Procs : state'[r] = "ZOMBIE" => state[r] = "ZOMBIE"
    BY Zenon, <2>1
  <2> QED  BY Zenon, <2>1, <2>3, <2>4 DEF Sleeping, HasChild, NoZombieChild
<1> QED  BY <1>1, <1>2, <1>3, <1>4, <1>5, <1>6, <1>7, <1>8, <1>9 DEF ProcInv

\* kill(): a sleeper it makes RUNNABLE is on no CPU.
LEMMA KillKeeps ==
  ASSUME ProcInv, NEW c \in CPUs, NEW p \in Procs, NEW n \in Procs, kill(c, p, n)
  PROVE  ProcInv'
<1>0. TypeOK /\ Stacks /\ Locks /\ Locals /\ Forks /\ Parents /\ Exiting /\ Scanning /\ Sleeping
  BY Zenon DEF ProcInv
<1>1. TypeOK'
  BY ZenonT(30), <1>0 DEF kill, locals, TypeOK, States
<1>2. Stacks'
  BY <1>0 DEF kill, Stacks, TypeOK
<1>3. Locks'
  BY ZenonT(30), <1>0 DEF kill, Locks
<1>4. Locals'
  <2>1. KeepsLocals
    BY SMTT(30), <1>0 DEF kill, locals, TypeOK, KeepsLocals, Switching
  <2> QED  BY <1>0, <2>1, LocalsKept
<1>5. Forks'
  <2>1. KeepsForks
    BY <1>0 DEF kill, locals, Forking, Place, TypeOK, KeepsForks, Switching
  <2> QED  BY <1>0, <2>1, ForksKept
<1>6. Parents'
  <2>1. KeepsParents
    BY <1>0, Names DEF kill, Alive, TypeOK, KeepsParents, Parents
  <2> QED  BY SMTT(30), <1>0, <2>1, ParentsKept
<1>7. Exiting'
  <2>1. KeepsExiting
    BY <1>0 DEF kill, locals, TypeOK, KeepsExiting
  <2> QED  BY <1>0, <2>1, ExitingKept
<1>8. Scanning'
  <2>1. KeepsScanning
    BY <1>0 DEF kill, locals, TypeOK, KeepsScanning
  <2> QED  BY <1>0, <2>1, ScanningKept
<1>9. Sleeping'
  <2>1. KeepsSleeping
    BY <1>0 DEF kill, locals, TypeOK, KeepsSleeping
  <2> QED  BY <1>0, <2>1, SleepingKept
<1> QED  BY <1>1, <1>2, <1>3, <1>4, <1>5, <1>6, <1>7, <1>8, <1>9 DEF ProcInv

-----------------------------------------------------------------------------
(* The theorems.                                                           *)

\* userinit() and the CPUs entering scheduler(): the invariant holds at first.
LEMMA InitProcInv == Init => ProcInv
<1> SUFFICES ASSUME Init PROVE ProcInv
  OBVIOUS
<1>1. TypeOK
  BY Names, Indices DEF Init, TypeOK, States, Locations
<1>2. Stacks /\ Locks
  BY Names DEF Init, Stacks, Locks, Switching, UnderWaitLock
<1>3. Locals /\ Forks /\ Parents
  BY Names DEF Init, Locals, Forks, Forking, Place, Switching, Unlocked, Parents, Alive
<1>4. Exiting /\ Scanning /\ Sleeping
  BY Names DEF Init, Exiting, Scanning, Sleeping
<1> QED  BY <1>1, <1>2, <1>3, <1>4 DEF ProcInv

\* A step that changes nothing.
LEMMA StutterKeeps ==
  ASSUME ProcInv, UNCHANGED vars
  PROVE  ProcInv'
<1>1. TypeOK'
  BY SMTT(30) DEF ProcInv, vars, TypeOK
<1>2. Stacks' /\ Locks'
  BY SMTT(30) DEF ProcInv, vars, Stacks, Locks
<1>3. Locals'
  BY DEF ProcInv, vars, Locals
<1>4. Forks'
  BY DEF ProcInv, vars, Forks, Forking, Place
<1>5. Parents' /\ Exiting'
  BY DEF ProcInv, vars, Parents, Exiting
<1>6. Scanning' /\ Sleeping'
  BY DEF ProcInv, vars, Scanning, Sleeping, HasChild, NoZombieChild
<1> QED  BY SMTT(30), <1>1, <1>2, <1>3, <1>4, <1>5, <1>6 DEF ProcInv

\* Every step of every CPU keeps the invariant.
LEMMA NextKeeps == ProcInv /\ [Next]_vars => ProcInv'
<1> SUFFICES ASSUME ProcInv, [Next]_vars PROVE ProcInv'
  OBVIOUS
<1>1. ASSUME NEW c \in CPUs, SwitchStep(c) PROVE ProcInv'
  BY <1>1, SchedulerReleaseKeeps, ResumeKeeps, SchedKeeps DEF SwitchStep
<1>2. ASSUME NEW c \in CPUs, NEW p \in Procs, scheduler(c, p) \/ yield(c, p) PROVE ProcInv'
  BY <1>2, SchedulerKeeps, YieldKeeps
<1>3. ASSUME NEW c \in CPUs, NEW p \in Procs, KernelStep(c, p) PROVE ProcInv'
  BY <1>3, ForkParentKeeps, ForkRunnableKeeps, ReparentKeeps, WakeupKeeps, ZombieKeeps,
     ScanKeeps, ReapKeeps, WaitFailsKeeps, WaitSleepsKeeps, SleepKeeps, WaitKeeps
     DEF KernelStep
<1>4. ASSUME NEW c \in CPUs, NEW p \in Procs, UserStep(c, p) PROVE ProcInv'
  BY <1>4, ForkKeeps, ForkFailsKeeps, KillKeeps, ExitKeeps, WaitKeeps DEF UserStep
<1> QED  BY <1>1, <1>2, <1>3, <1>4, StutterKeeps DEF Next

\* The invariant holds throughout.
LEMMA ProcInvariant == Spec => []ProcInv
BY InitProcInv, NextKeeps, PTL DEF Spec

\* A process whose stack a CPU is on belongs to that CPU alone, is not free, and
\* holds just its own lock when it calls sched() and none in user space.
LEMMA InvStackInUse == ProcInv => StackInUse
<1> SUFFICES ASSUME ProcInv PROVE StackInUse
  OBVIOUS
<1> SUFFICES ASSUME NEW c \in CPUs, NEW p \in Procs, run[c] = p
             PROVE  /\ proc[c] = p
                    /\ \A d \in CPUs : run[d] = p => d = c
                    /\ state[p] \notin {"UNUSED", "USED"}
                    /\ state[p] = "RUNNING" \/ plock[p] = c
                    /\ pc[p] = "sched" => Held(c) = {p} /\ state[p] # "RUNNING"
                    /\ pc[p] \in Unlocked => Held(c) = {}
  BY DEF ProcInv, StackInUse, Unlocked
<1>1. proc[c] = p /\ p # NoProc
  BY Names DEF ProcInv, Stacks
<1>2. \A d \in CPUs : run[d] = p => d = c
  BY <1>1 DEF ProcInv, Stacks
<1>3. IF pc[p] = "sched" THEN state[p] \in {"RUNNABLE", "SLEEPING", "ZOMBIE"}
                         ELSE state[p] = "RUNNING"
  BY DEF ProcInv, Stacks
<1>4. wait_lock = c <=> pc[p] \in UnderWaitLock
  BY <1>1 DEF ProcInv, Locks
<1>5. \A q \in Procs : plock[q] = c <=> q = p /\ pc[p] \in Switching
  BY <1>1 DEF ProcInv, Locks
<1>6. pc[p] = "sched" => Held(c) = {p}
  BY <1>4, <1>5 DEF Held, Switching, UnderWaitLock
<1>7. pc[p] \in Unlocked => Held(c) = {}
  BY SMTT(30), <1>4, <1>5 DEF Held, Switching, UnderWaitLock, Unlocked
<1> QED  BY <1>1, <1>2, <1>3, <1>5, <1>6, <1>7 DEF Switching

\* With wait_lock free nobody is in exit()'s loops, so Sleeping is what
\* WaitNotMissed says.
LEMMA InvWaitNotMissed == ProcInv => WaitNotMissed
<1> SUFFICES ASSUME ProcInv PROVE WaitNotMissed
  OBVIOUS
<1>1. wait_lock = NoCpu => \A r \in Procs : pc[r] # "wakeup"
  BY Exclusive DEF ProcInv, UnderWaitLock
<1> QED  BY <1>1 DEF ProcInv, Parents, Alive, Locals, Sleeping, HasChild, NoZombieChild, WaitNotMissed

\* For every number of processes and CPUs: a kernel stack is used by one CPU at a
\* time, its process can be neither scheduled nor freed meanwhile, sched()'s
\* panics do not happen, and wait_lock is acquired before any p->lock.
THEOREM StackInUseCorrect == Spec => []StackInUse
BY ProcInvariant, InvStackInUse, PTL

\* For every number of processes and CPUs: the parent of a process is there to
\* wait for it, and nobody sleeps in wait() beside an exited child.
THEOREM WaitNotMissedCorrect == Spec => []WaitNotMissed
BY ProcInvariant, InvWaitNotMissed, PTL
=============================================================================
