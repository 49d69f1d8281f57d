------------------------------ MODULE Spinlock ------------------------------
(***************************************************************************)
(* kernel/spinlock.c: acquire(), release(), holding(), push_off() and      *)
(* pop_off(), on several CPUs, with interrupt handlers that take locks     *)
(* too (kernel/trap.c: kerneltrap() runs on top of the interrupted code).  *)
(*                                                                         *)
(* One action is one access to a location other CPUs or handlers can see:  *)
(* the two loads of holding() are separate steps, so are the two stores of *)
(* release(), and an interrupt may arrive between the load of sstatus and  *)
(* the intr_off() of push_off().  Code that runs with interrupts off and   *)
(* touches only its own struct cpu is one step.  The fences of             *)
(* __sync_synchronize() make the order of the steps the program order.     *)
(***************************************************************************)
EXTENDS Integers, FiniteSets

CONSTANTS
  CPUs,
  NLOCK,       \* number of locks; clients acquire them in increasing order
  NoCpu        \* lk->cpu == 0

ASSUME SpinlockConstants == NLOCK \in Nat /\ NoCpu \notin CPUs

Locks == 1..NLOCK
NoLock == 0    \* a push_off() not made by acquire(), as in myproc()
Ctx == {"thread", "trap"}
Contexts == CPUs \X Ctx

VARIABLES
  locked,      \* lk->locked
  lcpu,        \* lk->cpu
  sie,         \* sstatus.SIE of each CPU: interrupts enabled
  noff,        \* struct cpu: depth of push_off() nesting
  intena,      \* struct cpu: were interrupts on before the first push_off()
  ctx,         \* what each CPU is executing: a thread or, over it, a handler
  pc,          \* where each context is
  old,         \* push_off()'s local variable
  lk,          \* the lock argument of the call in progress
  has,         \* history: the locks a context has and has not yet let go
  pushed,      \* a bare push_off() is in force
  want         \* the SIE value the thread last chose with intr_on()/intr_off()

vars == <<locked, lcpu, sie, noff, intena, ctx, pc, old, lk, has, pushed, want>>

Init ==
  /\ locked = [l \in Locks |-> FALSE]
  /\ lcpu = [l \in Locks |-> NoCpu]
  /\ sie = [c \in CPUs |-> FALSE]
  /\ noff = [c \in CPUs |-> 0]
  /\ intena = [c \in CPUs |-> FALSE]
  /\ ctx = [c \in CPUs |-> "thread"]
  /\ pc = [t \in Contexts |-> "run"]
  /\ old = [t \in Contexts |-> FALSE]
  /\ lk = [t \in Contexts |-> NoLock]
  /\ has = [t \in Contexts |-> {}]
  /\ pushed = [t \in Contexts |-> FALSE]
  /\ want = [c \in CPUs |-> FALSE]

\* Context t is executing, at location a.
at(t, a) == ctx[t[1]] = t[2] /\ pc[t] = a
goto(t, a) == pc' = [pc EXCEPT ![t] = a]

-----------------------------------------------------------------------------
(* acquire(lk), or a bare push_off() when l is NoLock: the load of sstatus. *)
call_push_off(t, l) ==
  /\ at(t, "run")
  /\ \A h \in has[t] : l = NoLock \/ h < l
  /\ l = NoLock => ~pushed[t]
  /\ lk' = [lk EXCEPT ![t] = l]
  /\ old' = [old EXCEPT ![t] = sie[t[1]]]
  /\ goto(t, "push_off")
  /\ UNCHANGED <<locked, lcpu, sie, noff, intena, ctx, has, pushed, want>>

\* The end of push_off(), for a bare call and inside acquire().
pushed_off(t) ==
  /\ IF lk[t] = NoLock
     THEN pushed' = [pushed EXCEPT ![t] = TRUE] /\ goto(t, "run")
     ELSE goto(t, "holding") /\ UNCHANGED pushed
  /\ UNCHANGED <<locked, lcpu, ctx, old, lk, has, want>>

\* Mutants of push_off: interrupts stay on; intena is saved at every level of
\* nesting.
push_off_stays_on(t) ==
  LET c == t[1] IN
  /\ at(t, "push_off")
  /\ intena' = [intena EXCEPT ![c] = IF noff[c] = 0 THEN old[t] ELSE @]
  /\ noff' = [noff EXCEPT ![c] = @ + 1]
  /\ pushed_off(t)
  /\ UNCHANGED sie

push_off_resaves(t) ==
  LET c == t[1] IN
  /\ at(t, "push_off")
  /\ sie' = [sie EXCEPT ![c] = FALSE]
  /\ intena' = [intena EXCEPT ![c] = old[t]]
  /\ noff' = [noff EXCEPT ![c] = @ + 1]
  /\ pushed_off(t)

(* intr_off() and the bookkeeping, which nothing can interrupt any more.    *)
push_off(t) ==
  LET c == t[1] IN
  /\ at(t, "push_off")
  /\ sie' = [sie EXCEPT ![c] = FALSE]
  /\ intena' = [intena EXCEPT ![c] = IF noff[c] = 0 THEN old[t] ELSE @]
  /\ noff' = [noff EXCEPT ![c] = @ + 1]
  /\ pushed_off(t)

(* if (holding(lk)) panic("acquire"): the load of lk->locked ...            *)
holding_locked(t) ==
  /\ at(t, "holding")
  /\ goto(t, IF locked[lk[t]] THEN "holding2" ELSE "spin")
  /\ UNCHANGED <<locked, lcpu, sie, noff, intena, ctx, old, lk, has, pushed, want>>

(* ... and of lk->cpu, made only when the lock was seen taken.              *)
holding_cpu(t) ==
  /\ at(t, "holding2")
  /\ lcpu[lk[t]] # t[1]
  /\ goto(t, "spin")
  /\ UNCHANGED <<locked, lcpu, sie, noff, intena, ctx, old, lk, has, pushed, want>>

\* Mutant of test_and_set: a lock that records no owner is taken for free.
test_cpu_and_set(t) ==
  /\ at(t, "spin")
  /\ ~locked[lk[t]] \/ lcpu[lk[t]] = NoCpu
  /\ locked' = [locked EXCEPT ![lk[t]] = TRUE]
  /\ has' = [has EXCEPT ![t] = @ \union {lk[t]}]
  /\ goto(t, "set_cpu")
  /\ UNCHANGED <<lcpu, sie, noff, intena, ctx, old, lk, pushed, want>>

(* The amoswap that finds the lock free.  One that finds it taken changes   *)
(* nothing, so waiting is the absence of a step.                            *)
test_and_set(t) ==
  /\ at(t, "spin")
  /\ ~locked[lk[t]]
  /\ locked' = [locked EXCEPT ![lk[t]] = TRUE]
  /\ has' = [has EXCEPT ![t] = @ \union {lk[t]}]
  /\ goto(t, "set_cpu")
  /\ UNCHANGED <<lcpu, sie, noff, intena, ctx, old, lk, pushed, want>>

set_cpu(t) ==
  /\ at(t, "set_cpu")
  /\ lcpu' = [lcpu EXCEPT ![lk[t]] = t[1]]
  /\ goto(t, "run")
  /\ UNCHANGED <<locked, sie, noff, intena, ctx, old, lk, has, pushed, want>>

-----------------------------------------------------------------------------
(* release(lk): the check that holding(lk), ...                             *)
release(t, l) ==
  /\ at(t, "run")
  /\ l \in has[t]
  /\ locked[l] /\ lcpu[l] = t[1]
  /\ lk' = [lk EXCEPT ![t] = l]
  /\ goto(t, "clear_cpu")
  /\ UNCHANGED <<locked, lcpu, sie, noff, intena, ctx, old, has, pushed, want>>

(* ... lk->cpu = 0, ...                                                     *)
clear_cpu(t) ==
  /\ at(t, "clear_cpu")
  /\ lcpu' = [lcpu EXCEPT ![lk[t]] = NoCpu]
  /\ goto(t, "unlock")
  /\ UNCHANGED <<locked, sie, noff, intena, ctx, old, lk, has, pushed, want>>

(* ... and __sync_lock_release(&lk->locked).                                *)
unlock(t) ==
  /\ at(t, "unlock")
  /\ locked' = [locked EXCEPT ![lk[t]] = FALSE]
  /\ has' = [has EXCEPT ![t] = @ \ {lk[t]}]
  /\ goto(t, "pop_off")
  /\ UNCHANGED <<lcpu, sie, noff, intena, ctx, old, lk, pushed, want>>

(* The end of release(), or the pop_off() that matches a bare push_off().   *)
pop_off(t) ==
  LET c == t[1] IN
  /\ \/ at(t, "pop_off") /\ UNCHANGED pushed
     \/ /\ at(t, "run") /\ pushed[t]
        /\ pushed' = [pushed EXCEPT ![t] = FALSE]
  /\ ~sie[c]
  /\ noff[c] >= 1
  /\ noff' = [noff EXCEPT ![c] = @ - 1]
  /\ sie' = [sie EXCEPT ![c] = noff[c] = 1 /\ intena[c]]
  /\ goto(t, "run")
  /\ UNCHANGED <<locked, lcpu, intena, ctx, old, lk, has, want>>

-----------------------------------------------------------------------------
(* A thread turns its interrupts on or off itself, outside any critical     *)
(* section: scheduler(), usertrap(), usertrapret().                         *)
set_intr(c) ==
  /\ at(<<c, "thread">>, "run")
  /\ noff[c] = 0
  /\ \E v \in BOOLEAN : sie' = [sie EXCEPT ![c] = v] /\ want' = [want EXCEPT ![c] = v]
  /\ UNCHANGED <<locked, lcpu, noff, intena, ctx, pc, old, lk, has, pushed>>

(* The hardware takes an interrupt: SIE is saved in sstatus and cleared.    *)
interrupt(c) ==
  /\ ctx[c] = "thread"
  /\ sie[c]
  /\ ctx' = [ctx EXCEPT ![c] = "trap"]
  /\ sie' = [sie EXCEPT ![c] = FALSE]
  /\ UNCHANGED <<locked, lcpu, noff, intena, pc, old, lk, has, pushed, want>>

(* kerneltrap() returns; sret puts the saved SIE back.                      *)
trap_return(c) ==
  /\ at(<<c, "trap">>, "run")
  /\ has[<<c, "trap">>] = {}
  /\ ~pushed[<<c, "trap">>]
  /\ ctx' = [ctx EXCEPT ![c] = "thread"]
  /\ sie' = [sie EXCEPT ![c] = TRUE]
  /\ UNCHANGED <<locked, lcpu, noff, intena, pc, old, lk, has, pushed, want>>

-----------------------------------------------------------------------------
\* The steps of t inside acquire() and release().
LockStep(t) ==
  \/ push_off(t)
  \/ holding_locked(t)
  \/ holding_cpu(t)
  \/ test_and_set(t)
  \/ set_cpu(t)
  \/ clear_cpu(t)
  \/ unlock(t)
  \/ pop_off(t)

Next ==
  \/ \E t \in Contexts :
       \/ LockStep(t)
       \/ \E l \in Locks \union {NoLock} : call_push_off(t, l)
       \/ \E l \in Locks : release(t, l)
  \/ \E c \in CPUs : set_intr(c) \/ interrupt(c) \/ trap_return(c)

Spec == Init /\ [][Next]_vars

-----------------------------------------------------------------------------
Locations == {"run", "push_off", "holding", "holding2", "spin", "set_cpu",
              "clear_cpu", "unlock", "pop_off"}

TypeOK ==
  /\ locked \in [Locks -> BOOLEAN]
  /\ lcpu \in [Locks -> CPUs \union {NoCpu}]
  /\ sie \in [CPUs -> BOOLEAN]
  /\ noff \in [CPUs -> Nat]
  /\ intena \in [CPUs -> BOOLEAN]
  /\ ctx \in [CPUs -> Ctx]
  /\ pc \in [Contexts -> Locations]
  /\ old \in [Contexts -> BOOLEAN]
  /\ lk \in [Contexts -> Locks \union {NoLock}]
  /\ has \in [Contexts -> SUBSET Locks]
  /\ pushed \in [Contexts -> BOOLEAN]
  /\ want \in [CPUs -> BOOLEAN]

\* acquire()/release(): no two contexts, on whatever CPUs, own a lock at the
\* same time.
MutualExclusion ==
  \A t, u \in Contexts : has[t] \intersect has[u] # {} => t = u

\* spinlock.c:21 and :41, the two panics on holding(): although it reads
\* lk->locked and lk->cpu without the lock, holding() never mistakes another
\* CPU's lock for its own, and always recognises its own.
HoldingIsExact ==
  \A t \in Contexts :
    /\ pc[t] = "holding2" => lcpu[lk[t]] # t[1]
    /\ pc[t] = "run" => \A l \in has[t] : locked[l] /\ lcpu[l] = t[1]

\* spinlock.c:20, "disable interrupts to avoid deadlock": a handler never
\* asks for a lock that the code it interrupted owns, and pop_off()'s two
\* panics (spinlock.c:87-88) do not happen.
NoSelfDeadlock ==
  \A c \in CPUs :
    /\ ctx[c] = "trap" => has[<<c, "thread">>] = {}
    /\ \A x \in Ctx :
         pc[<<c, x>>] = "pop_off" \/ pushed[<<c, x>>] => ~sie[c] /\ noff[c] >= 1

\* spinlock.c:73-75, "if interrupts are initially off, then push_off, pop_off
\* leaves them off", and on if they were on: outside all critical sections a
\* thread finds SIE as it set it, whatever handlers ran in between.
InterruptsRestored ==
  \A c \in CPUs :
    at(<<c, "thread">>, "run") /\ noff[c] = 0 => sie[c] = want[c]
=============================================================================
