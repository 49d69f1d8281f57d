-------------------------------- MODULE Proc --------------------------------
(***************************************************************************)
(* kernel/proc.c: the process table, the per-CPU scheduler and its context *)
(* switches, sleep()/wakeup(), and fork(), exit(), wait() and kill().      *)
(*                                                                         *)
(* A critical section of one lock that reads and writes only what the lock *)
(* protects is one action, guarded by the lock being free.  The locks that *)
(* are held across other steps are variables: p->lock, which sched() hands *)
(* from a process to the scheduler of its CPU and back, and wait_lock,     *)
(* under which exit() and wait() walk the process table one entry at a     *)
(* time.  pc[p] is where the kernel thread of p is; "user" stands for user *)
(* space and for the kernel code that touches nothing modelled here.       *)
(***************************************************************************)
EXTENDS Integers

CONSTANTS
  NPROC,       \* param.h: entries of the process table
  CPUs,
  NoCpu        \* the holder of a free lock

ASSUME ProcConstants == NPROC \in Nat \ {0} /\ NoCpu \notin CPUs

Procs == 1..NPROC
NoProc == 0
initproc == 1

VARIABLES
  state, chan, killed, parent,   \* the fields of struct proc
  plock,       \* p->lock: the CPU that holds it
  wait_lock,
  proc,        \* proc[c]: struct cpu's c->proc
  run,         \* run[c]: whose stack c executes on, NoProc for scheduler()'s
  pc,
  ret,         \* where the thread goes on after sched() or wakeup()
  pp,           \* loop variable of reparent() and wait()
  wp,           \* loop variable of wakeup()
  np,          \* fork(): the child
  havekids     \* wait()

table == <<state, chan, killed, parent>>
locals == <<ret, pp, wp, np, havekids>>
vars == <<state, chan, killed, parent, plock, wait_lock, proc, run,
          pc, ret, pp, wp, np, havekids>>

\* Thread p executes on CPU c, at location a.
at(c, p, a) == run[c] = p /\ pc[p] = a
goto(p, a) == pc' = [pc EXCEPT ![p] = a]
free(p) == plock[p] = NoCpu

(* userinit() has made the first process; the CPUs enter scheduler().       *)
Init ==
  /\ state = [p \in Procs |-> IF p = initproc THEN "RUNNABLE" ELSE "UNUSED"]
  /\ chan = [p \in Procs |-> NoProc]
  /\ killed = [p \in Procs |-> FALSE]
  /\ parent = [p \in Procs |-> NoProc]
  /\ plock = [p \in Procs |-> NoCpu]
  /\ wait_lock = NoCpu
  /\ proc = [c \in CPUs |-> NoProc]
  /\ run = [c \in CPUs |-> NoProc]
  /\ pc = [p \in Procs |-> "resume"]
  /\ ret = [p \in Procs |-> "user"]
  /\ pp = [p \in Procs |-> 1]
  /\ wp = [p \in Procs |-> 1]
  /\ np = [p \in Procs |-> NoProc]
  /\ havekids = [p \in Procs |-> FALSE]

-----------------------------------------------------------------------------
(* Context switches.                                                       *)

(* scheduler() finds p RUNNABLE and switches to it, p->lock still held.     *)
scheduler(c, p) ==
  /\ run[c] = NoProc /\ proc[c] = NoProc
  /\ free(p)
  /\ state[p] = "RUNNABLE"
  /\ state' = [state EXCEPT ![p] = "RUNNING"]
  /\ plock' = [plock EXCEPT ![p] = c]
  /\ proc' = [proc EXCEPT ![c] = p]
  /\ run' = [run EXCEPT ![c] = p]
  /\ UNCHANGED <<chan, killed, parent, wait_lock, pc, locals>>

(* The switched-to thread comes out of swtch() in sched(), or starts in     *)
(* forkret(): it tidies up and releases p->lock.                            *)
resume(c, p) ==
  /\ at(c, p, "resume")
  /\ chan' = [chan EXCEPT ![p] = IF ret[p] = "wait_again" THEN NoProc ELSE @]
  /\ plock' = [plock EXCEPT ![p] = NoCpu]
  /\ goto(p, ret[p])
  /\ ret' = [ret EXCEPT ![p] = "user"]
  /\ UNCHANGED <<state, killed, parent, wait_lock, proc, run, pp, wp, np, havekids>>

\* Every lock that CPU c holds: p->lock of the listed processes, and 0 for
\* wait_lock.
Held(c) == {p \in Procs : plock[p] = c} \union (IF wait_lock = c THEN {0} ELSE {})

(* sched(): its panics are the guard; swtch() leaves p's stack.             *)
sched(c, p) ==
  /\ at(c, p, "sched")
  /\ Held(c) = {p}
  /\ state[p] # "RUNNING"
  /\ run' = [run EXCEPT ![c] = NoProc]
  /\ goto(p, "resume")
  /\ UNCHANGED <<table, plock, wait_lock, proc, locals>>

(* scheduler() after swtch() returns.                                       *)
scheduler_release(c) ==
  /\ run[c] = NoProc /\ proc[c] # NoProc
  /\ plock' = [plock EXCEPT ![proc[c]] = NoCpu]
  /\ proc' = [proc EXCEPT ![c] = NoProc]
  /\ UNCHANGED <<table, wait_lock, run, pc, locals>>

(* A timer interrupt, wherever the thread holds no lock.                    *)
yield(c, p) ==
  /\ run[c] = p
  /\ pc[p] \in {"user", "fork_parent", "fork_runnable", "wait_again"}
  /\ free(p)
  /\ plock' = [plock EXCEPT ![p] = c]
  /\ state' = [state EXCEPT ![p] = "RUNNABLE"]
  /\ ret' = [ret EXCEPT ![p] = pc[p]]
  /\ goto(p, "sched")
  /\ UNCHANGED <<chan, killed, parent, wait_lock, proc, run, pp, wp, np, havekids>>

-----------------------------------------------------------------------------
(* fork()                                                                  *)

(* allocproc() and the copying, all under n->lock.  n is any unused entry:  *)
(* one that the scan has already passed may have become unused since.       *)
fork(c, p, n) ==
  /\ at(c, p, "user")
  /\ free(n)
  /\ state[n] = "UNUSED"
  /\ state' = [state EXCEPT ![n] = "USED"]
  /\ np' = [np EXCEPT ![p] = n]
  /\ pc' = [pc EXCEPT ![p] = "fork_parent", ![n] = "resume"]
  /\ ret' = [ret EXCEPT ![n] = "user"]
  /\ UNCHANGED <<chan, killed, parent, plock, wait_lock, proc, run, pp, wp, havekids>>

\* What freeproc(n) does to the modelled fields.
freeproc(n) ==
  /\ state' = [state EXCEPT ![n] = "UNUSED"]
  /\ chan' = [chan EXCEPT ![n] = NoProc]
  /\ killed' = [killed EXCEPT ![n] = FALSE]
  /\ parent' = [parent EXCEPT ![n] = NoProc]

(* kalloc(), proc_pagetable() or uvmcopy() fails: the entry is freed again. *)
fork_fails(c, p, n) ==
  /\ at(c, p, "user")
  /\ free(n)
  /\ state[n] = "UNUSED"
  /\ freeproc(n)
  /\ UNCHANGED <<plock, wait_lock, proc, run, pc, locals>>

(* np->parent = p, under wait_lock.                                         *)
fork_parent(c, p) ==
  /\ at(c, p, "fork_parent")
  /\ wait_lock = NoCpu
  /\ parent' = [parent EXCEPT ![np[p]] = p]
  /\ goto(p, "fork_runnable")
  /\ UNCHANGED <<state, chan, killed, plock, wait_lock, proc, run, locals>>

fork_runnable(c, p) ==
  /\ at(c, p, "fork_runnable")
  /\ free(np[p])
  /\ state' = [state EXCEPT ![np[p]] = "RUNNABLE"]
  /\ np' = [np EXCEPT ![p] = NoProc]
  /\ goto(p, "user")
  /\ UNCHANGED <<chan, killed, parent, plock, wait_lock, proc, run, ret, pp, wp, havekids>>

-----------------------------------------------------------------------------
(* exit()                                                                  *)

(* A process exits by itself or because it was killed; init never does.     *)
exit(c, p) ==
  /\ at(c, p, "user")
  /\ p # initproc
  /\ wait_lock = NoCpu
  /\ wait_lock' = c
  /\ goto(p, "reparent")
  /\ UNCHANGED <<table, plock, proc, run, locals>>

\* Entry into wakeup(), which returns to location r.
call_wakeup(p, r) == goto(p, "wakeup") /\ ret' = [ret EXCEPT ![p] = r]

(* One iteration of reparent(), or its end and the call wakeup(p->parent).  *)
reparent(c, p) ==
  /\ at(c, p, "reparent")
  /\ IF pp[p] > NPROC
     THEN call_wakeup(p, "zombie") /\ pp' = [pp EXCEPT ![p] = 1] /\ UNCHANGED parent
     ELSE /\ pp' = [pp EXCEPT ![p] = @ + 1]
          /\ IF parent[pp[p]] = p
             THEN call_wakeup(p, "reparent") /\ parent' = [parent EXCEPT ![pp[p]] = initproc]
             ELSE UNCHANGED <<parent, pc, ret>>
  /\ UNCHANGED <<state, chan, killed, plock, wait_lock, proc, run, wp, np, havekids>>

\* The argument of the wakeup() in progress.
WakeupChan(p) == IF ret[p] = "reparent" THEN initproc ELSE parent[p]

(* One iteration of wakeup().                                               *)
wakeup(c, p) ==
  LET q == wp[p] IN
  /\ at(c, p, "wakeup")
  /\ q # p => free(q)
  /\ state' = IF q # p /\ state[q] = "SLEEPING" /\ chan[q] = WakeupChan(p)
              THEN [state EXCEPT ![q] = "RUNNABLE"] ELSE state
  /\ wp' = [wp EXCEPT ![p] = IF q = NPROC THEN 1 ELSE q + 1]
  /\ goto(p, IF q = NPROC THEN ret[p] ELSE "wakeup")
  /\ ret' = [ret EXCEPT ![p] = IF q = NPROC THEN "user" ELSE @]
  /\ UNCHANGED <<chan, killed, parent, plock, wait_lock, proc, run, pp, np, havekids>>

zombie(c, p) ==
  /\ at(c, p, "zombie")
  /\ free(p)
  /\ plock' = [plock EXCEPT ![p] = c]
  /\ state' = [state EXCEPT ![p] = "ZOMBIE"]
  /\ wait_lock' = NoCpu
  /\ goto(p, "sched")
  /\ UNCHANGED <<chan, killed, parent, proc, run, locals>>

-----------------------------------------------------------------------------
(* wait()                                                                  *)

(* acquire(&wait_lock), on entry and again at the end of sleep().           *)
wait(c, p) ==
  /\ run[c] = p
  /\ pc[p] \in {"user", "wait_again"}
  /\ wait_lock = NoCpu
  /\ wait_lock' = c
  /\ havekids' = [havekids EXCEPT ![p] = FALSE]
  /\ goto(p, "scan")
  /\ UNCHANGED <<table, plock, proc, run, ret, pp, wp, np>>

(* One table entry that is not an exited child.                             *)
scan(c, p) ==
  /\ at(c, p, "scan")
  /\ pp[p] <= NPROC
  /\ parent[pp[p]] = p => free(pp[p]) /\ state[pp[p]] # "ZOMBIE"
  /\ havekids' = [havekids EXCEPT ![p] = @ \/ parent[pp[p]] = p]
  /\ pp' = [pp EXCEPT ![p] = @ + 1]
  /\ UNCHANGED <<table, plock, wait_lock, proc, run, pc, ret, wp, np>>

\* wait() returns, releasing wait_lock.
wait_returns(p) ==
  /\ wait_lock' = NoCpu
  /\ pp' = [pp EXCEPT ![p] = 1]
  /\ goto(p, "user")
  /\ UNCHANGED <<plock, proc, run, ret, wp, np, havekids>>

\* Mutants of reap: the child's lock is not taken; wait() returns its pid
\* without freeproc().
reap_unlocked(c, p) ==
  /\ at(c, p, "scan")
  /\ pp[p] <= NPROC
  /\ parent[pp[p]] = p /\ state[pp[p]] = "ZOMBIE"
  /\ freeproc(pp[p]) \/ (p # initproc /\ UNCHANGED table)
  /\ wait_returns(p)

reap_forgets(c, p) ==
  /\ at(c, p, "scan")
  /\ pp[p] <= NPROC
  /\ parent[pp[p]] = p /\ free(pp[p]) /\ state[pp[p]] = "ZOMBIE"
  /\ wait_returns(p)
  /\ UNCHANGED table

(* An exited child is freed, or stays when its status cannot be copied out  *)
(* (init asks for no status: user/init.c calls wait(0)).                     *)
reap(c, p) ==
  /\ at(c, p, "scan")
  /\ pp[p] <= NPROC
  /\ parent[pp[p]] = p /\ free(pp[p]) /\ state[pp[p]] = "ZOMBIE"
  /\ freeproc(pp[p]) \/ (p # initproc /\ UNCHANGED table)
  /\ wait_returns(p)

(* No children, or killed: return -1.                                       *)
wait_fails(c, p) ==
  /\ at(c, p, "scan")
  /\ pp[p] > NPROC
  /\ ~havekids[p] \/ (free(p) /\ killed[p])
  /\ wait_returns(p)
  /\ UNCHANGED table

(* killed(p) was false; p->lock is free again before sleep() takes it.      *)
wait_sleeps(c, p) ==
  /\ at(c, p, "scan")
  /\ pp[p] > NPROC
  /\ havekids[p] /\ free(p) /\ ~killed[p]
  /\ pp' = [pp EXCEPT ![p] = 1]
  /\ goto(p, "sleep")
  /\ UNCHANGED <<table, plock, wait_lock, proc, run, ret, wp, np, havekids>>

\* Mutant of sleep: wait_lock is released before p->lock is taken.
sleep_unlocks_first(c, p) ==
  /\ at(c, p, "sleep")
  /\ \/ wait_lock = c /\ wait_lock' = NoCpu /\ UNCHANGED <<table, plock, pc, ret>>
     \/ /\ wait_lock # c
        /\ free(p)
        /\ plock' = [plock EXCEPT ![p] = c]
        /\ chan' = [chan EXCEPT ![p] = p]
        /\ state' = [state EXCEPT ![p] = "SLEEPING"]
        /\ ret' = [ret EXCEPT ![p] = "wait_again"]
        /\ goto(p, "sched")
        /\ UNCHANGED <<killed, parent, wait_lock>>
  /\ UNCHANGED <<proc, run, pp, wp, np, havekids>>

(* sleep(p, &wait_lock), up to sched().                                     *)
sleep(c, p) ==
  /\ at(c, p, "sleep")
  /\ free(p)
  /\ plock' = [plock EXCEPT ![p] = c]
  /\ wait_lock' = NoCpu
  /\ chan' = [chan EXCEPT ![p] = p]
  /\ state' = [state EXCEPT ![p] = "SLEEPING"]
  /\ ret' = [ret EXCEPT ![p] = "wait_again"]
  /\ goto(p, "sched")
  /\ UNCHANGED <<killed, parent, proc, run, pp, wp, np, havekids>>

-----------------------------------------------------------------------------
(* kill(pid): q is the entry with that pid.  The pid of an unused entry is  *)
(* 0, so kill(0) finds one of those.  init is never killed: its exit()      *)
(* panics.  setkilled(p) is the case q = p.                                 *)
kill(c, p, q) ==
  /\ at(c, p, "user")
  /\ q # initproc
  /\ free(q)
  /\ killed' = [killed EXCEPT ![q] = TRUE]
  /\ state' = [state EXCEPT ![q] = IF @ = "SLEEPING" THEN "RUNNABLE" ELSE @]
  /\ UNCHANGED <<chan, parent, plock, wait_lock, proc, run, pc, locals>>

-----------------------------------------------------------------------------
\* The steps of a context switch, and those of a thread inside a system call.
SwitchStep(c) ==
  \/ scheduler_release(c)
  \/ \E p \in Procs : resume(c, p) \/ sched(c, p)

KernelStep(c, p) ==
  \/ fork_parent(c, p) \/ fork_runnable(c, p)
  \/ reparent(c, p) \/ wakeup(c, p) \/ zombie(c, p)
  \/ scan(c, p) \/ reap(c, p) \/ wait_fails(c, p) \/ wait_sleeps(c, p) \/ sleep(c, p)
  \/ pc[p] = "wait_again" /\ wait(c, p)

\* What a thread in user space may ask for.
UserStep(c, p) ==
  \/ \E n \in Procs : fork(c, p, n) \/ fork_fails(c, p, n) \/ kill(c, p, n)
  \/ exit(c, p)
  \/ pc[p] = "user" /\ wait(c, p)

Next ==
  \E c \in CPUs :
    \/ SwitchStep(c)
    \/ \E p \in Procs : scheduler(c, p) \/ yield(c, p) \/ KernelStep(c, p) \/ UserStep(c, p)

Spec == Init /\ [][Next]_vars

(***************************************************************************)
(* Fairness.  Every scheduler() walks the whole table round and round, so  *)
(* a process that is RUNNABLE again and again is eventually picked; a      *)
(* thread that is given the CPU again and again gets on with its system    *)
(* call, as a time slice is far longer than a step of it; a timer          *)
(* interrupt stays pending until it is taken; and user/init.c calls wait() *)
(* for ever.                                                               *)
(***************************************************************************)
Fairness ==
  /\ \A c \in CPUs : WF_vars(SwitchStep(c))
  /\ \A c \in CPUs : SF_vars(\E p \in Procs : yield(c, p))
  /\ \A p \in Procs : SF_vars(\E c \in CPUs : scheduler(c, p))
  /\ \A p \in Procs : SF_vars(\E c \in CPUs : KernelStep(c, p))
  /\ SF_vars(\E c \in CPUs : pc[initproc] = "user" /\ wait(c, initproc))

FairSpec == Spec /\ Fairness

-----------------------------------------------------------------------------
States == {"UNUSED", "USED", "SLEEPING", "RUNNABLE", "RUNNING", "ZOMBIE"}
Locations == {"user", "resume", "sched", "fork_parent", "fork_runnable", "reparent",
              "wakeup", "zombie", "wait_again", "scan", "sleep"}

TypeOK ==
  /\ state \in [Procs -> States]
  /\ chan \in [Procs -> Procs \union {NoProc}]
  /\ killed \in [Procs -> BOOLEAN]
  /\ parent \in [Procs -> Procs \union {NoProc}]
  /\ plock \in [Procs -> CPUs \union {NoCpu}]
  /\ wait_lock \in CPUs \union {NoCpu}
  /\ proc \in [CPUs -> Procs \union {NoProc}]
  /\ run \in [CPUs -> Procs \union {NoProc}]
  /\ pc \in [Procs -> Locations]
  /\ ret \in [Procs -> Locations]
  /\ pp \in [Procs -> 1..NPROC + 1]
  /\ wp \in [Procs -> Procs]
  /\ np \in [Procs -> Procs \union {NoProc}]
  /\ havekids \in [Procs -> BOOLEAN]

\* proc.c:358, "make sure the child isn't still in exit() or swtch()", and
\* the hand-over of p->lock in sched(): a kernel stack is used by one CPU at a
\* time, and while a CPU is on it nobody else can schedule, free or reallocate
\* the process, since it is RUNNING or its lock is held by that CPU.  sched()'s
\* panics (proc.c:445-447) do not happen, and proc.c:26, wait_lock "must be
\* acquired before any p->lock": whoever asks for wait_lock has no lock.
StackInUse ==
  /\ TypeOK
  /\ \A c \in CPUs, p \in Procs : run[c] = p =>
       /\ proc[c] = p
       /\ \A d \in CPUs : run[d] = p => d = c
       /\ state[p] \notin {"UNUSED", "USED"}
       /\ state[p] = "RUNNING" \/ plock[p] = c
       /\ pc[p] = "sched" => Held(c) = {p} /\ state[p] # "RUNNING"
       /\ pc[p] \in {"user", "fork_parent", "fork_runnable", "wait_again"} => Held(c) = {}

\* exit(), reparent() and the window in fork() before np->parent is set: the
\* parent of a process is always there to wait for it, never an exited or a
\* freed entry.  And proc.c:23, wait_lock "helps ensure that wakeups of wait()ing
\* parents are not lost": with wait_lock free, nobody sleeps in wait() while a
\* child of it is a zombie, or without any child to wake it.
WaitNotMissed ==
  \A p \in Procs :
    /\ parent[p] # NoProc => state[parent[p]] \in {"RUNNABLE", "RUNNING", "SLEEPING"}
    /\ wait_lock = NoCpu /\ state[p] = "SLEEPING" =>
         /\ chan[p] = p
         /\ \E q \in Procs : parent[q] = p
         /\ \A q \in Procs : parent[q] = p => state[q] # "ZOMBIE"

\* exit(), reparent() and wait(): a process that init has forked or inherited
\* is freed after it exits, provided the system stops forking at some time.
\* Without the proviso it is not so: wait() takes the first zombie of the
\* table, and entries before this one may be reused and exit for ever.
ForksStop == <>[](\A p \in Procs : state[p] # "USED")
ZombieReaped ==
  ForksStop => \A p \in Procs :
    state[p] = "ZOMBIE" /\ parent[p] = initproc ~> state[p] = "UNUSED"

\* allocproc() gives out a process nobody has killed: kill() acts on "the
\* process with the given pid" (proc.c:531).
BornAlive ==
  [][\A p \in Procs : state[p] = "UNUSED" /\ state'[p] = "USED" => ~killed'[p]]_vars
=============================================================================
