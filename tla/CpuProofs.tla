----------------------------- MODULE CpuProofs ------------------------------
(***************************************************************************)
(* What runs below the processes, for any number of CPUs, locks, harts and *)
(* threads: spinlocks with the interrupts they turn off (module Spinlock), *)
(* and traps (module Trap).                                                *)
(***************************************************************************)
EXTENDS Spinlock, Trap, FiniteSetTheorems, TLAPS

\* The provers are asked for first-order reasoning unless a step says SMT.
USE Zenon

-----------------------------------------------------------------------------
(* Spinlock.                                                               *)
\* Ownership: has, locked and lk->cpu agree, but for the two short windows in
\* which the owner is about to store lk->cpu or has just cleared it.
Ownership ==
  /\ \A t \in Contexts : \A l \in has[t] : locked[l]
  /\ \A t, u \in Contexts : has[t] \intersect has[u] # {} => t = u
  /\ \A t \in Contexts : \A l \in has[t] :
       \/ lcpu[l] = t[1]
       \/ lk[t] = l /\ pc[t] \in {"set_cpu", "unlock"}
  /\ \A l \in Locks : lcpu[l] # NoCpu => \E t \in Contexts : l \in has[t] /\ lcpu[l] = t[1]

\* The argument of the call in progress.
Argument ==
  \A t \in Contexts :
    /\ pc[t] \in {"set_cpu", "clear_cpu", "unlock"} => lk[t] \in has[t]
    /\ pc[t] \in {"holding", "holding2", "spin"} => lk[t] \in Locks /\ lk[t] \notin has[t]
    /\ pc[t] = "push_off" => lk[t] \notin has[t] /\ (lk[t] = NoLock => ~pushed[t])
    /\ pc[t] = "unlock" => lcpu[lk[t]] = NoCpu

\* push_off() calls of t not yet undone: one for each lock it owns, one inside
\* acquire() before it owns the lock or inside release() after it let go.
Pending(t) == IF pc[t] \in {"holding", "holding2", "spin", "pop_off"} THEN 1 ELSE 0
Bare(t) == IF pushed[t] THEN 1 ELSE 0
Depth(t) == Cardinality(has[t]) + Bare(t) + Pending(t)

\* Only the context on top of a CPU's stack is inside spinlock.c, except that a
\* handler may find the thread about to execute intr_off().
Nesting ==
  \A c \in CPUs :
    /\ noff[c] = Depth(<<c, ctx[c]>>)
    /\ ctx[c] = "thread" =>
         has[<<c, "trap">>] = {} /\ ~pushed[<<c, "trap">>] /\ pc[<<c, "trap">>] = "run"
    /\ ctx[c] = "trap" =>
         /\ has[<<c, "thread">>] = {} /\ ~pushed[<<c, "thread">>]
         /\ pc[<<c, "thread">>] \in {"run", "push_off"}

\* What is known of the interrupt-enable bit and of its saved copies.
EnableAt(c) ==
  /\ noff[c] > 0 \/ ctx[c] = "trap" => sie[c] = FALSE
  /\ ctx[c] = "thread" =>
       /\ noff[c] = 0 => sie[c] = want[c]
       /\ noff[c] > 0 => intena[c] = want[c]
       /\ noff[c] = 0 /\ pc[<<c, "thread">>] = "push_off" => old[<<c, "thread">>] = want[c]
  /\ ctx[c] = "trap" =>
       /\ want[c] = TRUE
       /\ pc[<<c, "thread">>] = "push_off" => old[<<c, "thread">>] = want[c]
       /\ noff[c] > 0 => intena[c] = FALSE
       /\ pc[<<c, "trap">>] = "push_off" => old[<<c, "trap">>] = FALSE

Enable == \A c \in CPUs : EnableAt(c)

IInv == TypeOK /\ Ownership /\ Argument /\ Nesting /\ Enable

-----------------------------------------------------------------------------
\* A context is a CPU and a level of its stack.
LEMMA ContextFacts ==
  /\ \A t \in Contexts : t[1] \in CPUs /\ t[2] \in Ctx /\ t = <<t[1], t[2]>>
  /\ \A c \in CPUs, x \in Ctx : <<c, x>> \in Contexts
  BY SMTT(30) DEF Contexts

\* The step that takes a lock preserves the type of has because acquire() was
\* called with a lock (Argument).
LEMMA TypeInductive == TypeOK /\ Argument /\ [Next]_vars => TypeOK'
<1> SUFFICES ASSUME TypeOK, Argument, [Next]_vars PROVE TypeOK'
  OBVIOUS
<1> USE SpinlockConstants, ContextFacts DEF TypeOK, Locations, goto, at, Locks, NoLock, Ctx
<1>1. ASSUME NEW t \in Contexts, push_off(t) PROVE TypeOK'
  <2>1. /\ sie' \in [CPUs -> BOOLEAN] /\ intena' \in [CPUs -> BOOLEAN]
        /\ noff' \in [CPUs -> Nat]
    BY SMT, <1>1 DEF push_off
  <2>2. pushed' \in [Contexts -> BOOLEAN] /\ pc' \in [Contexts -> Locations]
    BY ZenonT(30), <1>1 DEF push_off, pushed_off
  <2> QED  BY <1>1, <2>1, <2>2 DEF push_off, pushed_off
<1>2. ASSUME NEW t \in Contexts, holding_locked(t) PROVE TypeOK'
  BY <1>2 DEF holding_locked
<1>3. ASSUME NEW t \in Contexts, holding_cpu(t) PROVE TypeOK'
  BY <1>3 DEF holding_cpu
<1>4. ASSUME NEW t \in Contexts, test_and_set(t) PROVE TypeOK'
  <2>1. has' \in [Contexts -> SUBSET Locks]
    BY <1>4 DEF test_and_set, Argument
  <2>2. locked' \in [Locks -> BOOLEAN] /\ pc' \in [Contexts -> Locations]
    BY ZenonT(30), <1>4 DEF test_and_set
  <2> QED  BY <1>4, <2>1, <2>2 DEF test_and_set
<1>5. ASSUME NEW t \in Contexts, set_cpu(t) PROVE TypeOK'
  BY ZenonT(30), <1>5 DEF set_cpu
<1>6. ASSUME NEW t \in Contexts, clear_cpu(t) PROVE TypeOK'
  BY ZenonT(30), <1>6 DEF clear_cpu
<1>7. ASSUME NEW t \in Contexts, unlock(t) PROVE TypeOK'
  BY ZenonT(30), <1>7 DEF unlock
<1>8. ASSUME NEW t \in Contexts, pop_off(t) PROVE TypeOK'
  <2>1. sie' \in [CPUs -> BOOLEAN] /\ noff' \in [CPUs -> Nat]
    BY SMT, <1>8 DEF pop_off
  <2>2. pushed' \in [Contexts -> BOOLEAN] /\ pc' \in [Contexts -> Locations]
    BY ZenonT(30), <1>8 DEF pop_off
  <2> QED  BY <1>8, <2>1, <2>2 DEF pop_off
<1>9. ASSUME NEW t \in Contexts, NEW l \in Locks \union {NoLock}, call_push_off(t, l)
      PROVE  TypeOK'
  BY <1>9 DEF call_push_off
<1>10. ASSUME NEW t \in Contexts, NEW l \in Locks, release(t, l) PROVE TypeOK'
  BY <1>10 DEF release
<1>11. ASSUME NEW c \in CPUs, set_intr(c) PROVE TypeOK'
  BY SMT, <1>11 DEF set_intr
<1>12. ASSUME NEW c \in CPUs, interrupt(c) PROVE TypeOK'
  BY <1>12 DEF interrupt
<1>13. ASSUME NEW c \in CPUs, trap_return(c) PROVE TypeOK'
  BY ZenonT(30), <1>13 DEF trap_return
<1>14. CASE UNCHANGED vars
  BY <1>14 DEF vars
<1> QED
  BY ZenonT(30), <1>1, <1>2, <1>3, <1>4, <1>5, <1>6, <1>7, <1>8, <1>9, <1>10, <1>11, <1>12,
     <1>13, <1>14 DEF Next, LockStep

\* Ownership is preserved: only the owner moves a lock out of its two windows.
LEMMA OwnershipInductive == IInv /\ [Next]_vars => Ownership'
<1> SUFFICES ASSUME IInv, [Next]_vars PROVE Ownership'
  OBVIOUS
<1> USE SpinlockConstants, ContextFacts DEF IInv, TypeOK, Locations, goto, at, Locks, NoLock, Ctx, Ownership, Argument
<1>1. ASSUME NEW t \in Contexts, push_off(t) PROVE Ownership'
  BY SMTT(30), <1>1 DEF push_off, pushed_off
<1>2. ASSUME NEW t \in Contexts, holding_locked(t) PROVE Ownership'
  BY SMT, <1>2 DEF holding_locked
<1>3. ASSUME NEW t \in Contexts, holding_cpu(t) PROVE Ownership'
  BY SMT, <1>3 DEF holding_cpu
<1>4. ASSUME NEW t \in Contexts, test_and_set(t) PROVE Ownership'
  BY SMT, <1>4 DEF test_and_set
<1>5. ASSUME NEW t \in Contexts, set_cpu(t) PROVE Ownership'
  BY SMT, <1>5 DEF set_cpu
<1>6. ASSUME NEW t \in Contexts, clear_cpu(t) PROVE Ownership'
  BY SMT, <1>6 DEF clear_cpu
<1>7. ASSUME NEW t \in Contexts, unlock(t) PROVE Ownership'
  BY SMTT(30), <1>7 DEF unlock
<1>8. ASSUME NEW t \in Contexts, pop_off(t) PROVE Ownership'
  BY SMT, <1>8 DEF pop_off
<1>9. ASSUME NEW t \in Contexts, NEW l \in Locks \union {NoLock}, call_push_off(t, l) PROVE Ownership'
  BY SMT, <1>9 DEF call_push_off
<1>10. ASSUME NEW t \in Contexts, NEW l \in Locks, release(t, l) PROVE Ownership'
  BY SMTT(30), <1>10 DEF release
<1>11. ASSUME NEW c \in CPUs, set_intr(c) PROVE Ownership'
  BY SMT, <1>11 DEF set_intr
<1>12. ASSUME NEW c \in CPUs, interrupt(c) PROVE Ownership'
  BY SMT, <1>12 DEF interrupt
<1>13. ASSUME NEW c \in CPUs, trap_return(c) PROVE Ownership'
  BY SMTT(30), <1>13 DEF trap_return
<1>14. CASE UNCHANGED vars
  BY SMTT(30), <1>14 DEF vars
<1> QED
  BY ZenonT(30), <1>1, <1>2, <1>3, <1>4, <1>5, <1>6, <1>7, <1>8, <1>9, <1>10, <1>11, <1>12,
     <1>13, <1>14 DEF Next, LockStep

\* The argument of the call in progress stays what the caller passed.
LEMMA ArgumentInductive == IInv /\ [Next]_vars => Argument'
<1> SUFFICES ASSUME IInv, [Next]_vars PROVE Argument'
  OBVIOUS
<1> USE SpinlockConstants, ContextFacts DEF IInv, TypeOK, Locations, goto, at, Locks, NoLock, Ctx, Ownership, Argument
<1>1. ASSUME NEW t \in Contexts, push_off(t) PROVE Argument'
  BY SMTT(30), <1>1 DEF push_off, pushed_off
<1>2. ASSUME NEW t \in Contexts, holding_locked(t) PROVE Argument'
  BY SMTT(30), <1>2 DEF holding_locked
<1>3. ASSUME NEW t \in Contexts, holding_cpu(t) PROVE Argument'
  BY SMTT(30), <1>3 DEF holding_cpu
<1>4. ASSUME NEW t \in Contexts, test_and_set(t) PROVE Argument'
  BY SMT, <1>4 DEF test_and_set
<1>5. ASSUME NEW t \in Contexts, set_cpu(t) PROVE Argument'
  BY SMTT(30), <1>5 DEF set_cpu
<1>6. ASSUME NEW t \in Contexts, clear_cpu(t) PROVE Argument'
  BY SMT, <1>6 DEF clear_cpu
<1>7. ASSUME NEW t \in Contexts, unlock(t) PROVE Argument'
  BY SMTT(30), <1>7 DEF unlock
<1>8. ASSUME NEW t \in Contexts, pop_off(t) PROVE Argument'
  BY SMT, <1>8 DEF pop_off
<1>9. ASSUME NEW t \in Contexts, NEW l \in Locks \union {NoLock}, call_push_off(t, l) PROVE Argument'
  BY SMT, <1>9 DEF call_push_off
<1>10. ASSUME NEW t \in Contexts, NEW l \in Locks, release(t, l) PROVE Argument'
  BY SMTT(30), <1>10 DEF release
<1>11. ASSUME NEW c \in CPUs, set_intr(c) PROVE Argument'
  BY <1>11 DEF set_intr
<1>12. ASSUME NEW c \in CPUs, interrupt(c) PROVE Argument'
  BY <1>12 DEF interrupt
<1>13. ASSUME NEW c \in CPUs, trap_return(c) PROVE Argument'
  BY <1>13 DEF trap_return
<1>14. CASE UNCHANGED vars
  BY <1>14 DEF vars
<1> HIDE SpinlockConstants, ContextFacts DEF IInv, TypeOK, Locations, goto, at, Locks, NoLock, Ctx, Ownership, Argument
<1> QED
  BY ZenonT(30), <1>1, <1>2, <1>3, <1>4, <1>5, <1>6, <1>7, <1>8, <1>9, <1>10, <1>11, <1>12,
     <1>13, <1>14 DEF Next, LockStep

\* Sets of locks are finite; adding and removing one lock counts by one.
LEMMA LockCount ==
  ASSUME NEW S \in SUBSET Locks
  PROVE  /\ Cardinality(S) \in Nat
         /\ Cardinality(S) = 0 <=> S = {}
         /\ \A l \in Locks :
              /\ l \notin S => Cardinality(S \union {l}) = Cardinality(S) + 1
              /\ l \in S => Cardinality(S \ {l}) = Cardinality(S) - 1
<1>1. IsFiniteSet(Locks)
  BY SMT, SpinlockConstants, FS_Interval DEF Locks
<1>2. IsFiniteSet(S)
  BY <1>1, FS_Subset
<1>3. Cardinality(S) \in Nat /\ (Cardinality(S) = 0 <=> S = {})
  BY <1>2, FS_CardinalityType, FS_EmptySet
<1>4. ASSUME NEW l \in Locks, l \notin S
      PROVE  Cardinality(S \union {l}) = Cardinality(S) + 1
  BY <1>2, <1>4, FS_AddElement
<1>5. ASSUME NEW l \in Locks, l \in S
      PROVE  Cardinality(S \ {l}) = Cardinality(S) - 1
  BY <1>2, <1>5, FS_RemoveElement
<1> QED  BY <1>3, <1>4, <1>5

\* noff is the depth of the running context.
LEMMA RunningDepth ==
  ASSUME IInv, NEW t \in Contexts, ctx[t[1]] = t[2]
  PROVE  t = <<t[1], ctx[t[1]]>> /\ noff[t[1]] = Depth(t) /\ noff[t[1]] \in Nat
<1>1. t = <<t[1], ctx[t[1]]>> /\ t[1] \in CPUs
  BY ContextFacts
<1>2. noff[t[1]] = Depth(<<t[1], ctx[t[1]]>>)
  BY ZenonT(30), <1>1 DEF IInv, Nesting
<1> QED  BY <1>1, <1>2 DEF IInv, TypeOK

\* A context of depth 0 is outside spinlock.c, or has yet to execute intr_off().
LEMMA ZeroDepth ==
  ASSUME IInv, NEW t \in Contexts
  PROVE  Depth(t) = 0 <=> /\ has[t] = {} /\ ~pushed[t]
                          /\ pc[t] \in {"run", "push_off"}
<1>1. Cardinality(has[t]) \in Nat /\ (Cardinality(has[t]) = 0 <=> has[t] = {})
  BY LockCount DEF IInv, TypeOK
<1>2. Bare(t) \in {0, 1} /\ (Bare(t) = 0 <=> ~pushed[t])
  BY SMT DEF Bare
<1>3. /\ Pending(t) \in {0, 1}
      /\ Pending(t) = 0 <=> pc[t] \notin {"holding", "holding2", "spin", "pop_off"}
  BY SMT DEF Pending
<1>4. /\ has[t] = {} => pc[t] \notin {"set_cpu", "clear_cpu", "unlock"}
      /\ pc[t] \in Locations
  BY DEF IInv, Argument, TypeOK
<1>5. Depth(t) = 0 <=> Cardinality(has[t]) = 0 /\ Bare(t) = 0 /\ Pending(t) = 0
  BY SMT, <1>1, <1>2, <1>3 DEF Depth
<1> QED  BY <1>1, <1>2, <1>3, <1>4, <1>5 DEF Locations

\* A step of the running context t preserves Nesting if it keeps noff equal to
\* t's depth and leaves the other contexts and CPUs alone.
LEMMA NestingFrame ==
  ASSUME IInv, TypeOK', NEW t \in Contexts, ctx[t[1]] = t[2], ctx' = ctx,
         \A u \in Contexts : u # t =>
           has'[u] = has[u] /\ pushed'[u] = pushed[u] /\ pc'[u] = pc[u],
         \A c \in CPUs : c # t[1] => noff'[c] = noff[c],
         noff'[t[1]] = Depth(t)'
  PROVE  Nesting'
<1> SUFFICES ASSUME NEW c \in CPUs
             PROVE  /\ noff'[c] = Depth(<<c, ctx[c]>>)'
                    /\ ctx[c] = "thread" =>
                         /\ has'[<<c, "trap">>] = {} /\ ~pushed'[<<c, "trap">>]
                         /\ pc'[<<c, "trap">>] = "run"
                    /\ ctx[c] = "trap" =>
                         /\ has'[<<c, "thread">>] = {} /\ ~pushed'[<<c, "thread">>]
                         /\ pc'[<<c, "thread">>] \in {"run", "push_off"}
  BY ZenonT(30) DEF Nesting
<1>1. t = <<t[1], t[2]>> /\ t[1] \in CPUs /\ t[2] \in Ctx
  BY ContextFacts
<1>2. <<c, "thread">> \in Contexts /\ <<c, "trap">> \in Contexts /\ ctx[c] \in Ctx
  BY ContextFacts DEF IInv, TypeOK, Ctx
<1>3. noff'[c] = Depth(<<c, ctx[c]>>)'
  <2>1. CASE c = t[1]
    BY <2>1, <1>1
  <2>2. CASE c # t[1]
    <3>1. <<c, ctx[c]>> \in Contexts /\ <<c, ctx[c]>> # t
      BY SMT, <2>2, <1>1, <1>2 DEF Ctx
    <3>2. Depth(<<c, ctx[c]>>)' = Depth(<<c, ctx[c]>>)
      BY <3>1 DEF Depth, Pending, Bare
    <3> QED  BY ZenonT(30), <2>2, <3>2 DEF IInv, Nesting
  <2> QED  BY <2>1, <2>2
<1>4. ctx[c] = "thread" => <<c, "trap">> # t
  BY SMT, <1>1
<1>5. ctx[c] = "trap" => <<c, "thread">> # t
  BY SMTT(30), <1>1
<1> QED  BY <1>2, <1>3, <1>4, <1>5 DEF IInv, Nesting

\* noff follows the depth of the running context through every step.
LEMMA NestingInductive == IInv /\ TypeOK' /\ [Next]_vars => Nesting'
<1> SUFFICES ASSUME IInv, TypeOK', [Next]_vars PROVE Nesting'
  OBVIOUS
<1>1. ASSUME NEW t \in Contexts, push_off(t) PROVE Nesting'
  <2>1. /\ ctx[t[1]] = t[2] /\ ctx' = ctx /\ t[1] \in CPUs
        /\ \A u \in Contexts : u # t =>
             has'[u] = has[u] /\ pushed'[u] = pushed[u] /\ pc'[u] = pc[u]
        /\ \A c \in CPUs : c # t[1] => noff'[c] = noff[c]
    BY SMT, <1>1, ContextFacts DEF IInv, TypeOK, push_off, pushed_off, at, goto
  <2>2. t = <<t[1], ctx[t[1]]>> /\ noff[t[1]] = Depth(t) /\ noff[t[1]] \in Nat
    BY <2>1, RunningDepth
  <2>3. noff'[t[1]] = Depth(t)'
    <3>1. has'[t] = has[t] /\ noff'[t[1]] = noff[t[1]] + 1 /\ pc[t] = "push_off"
      BY <1>1, <2>1 DEF IInv, TypeOK, push_off, pushed_off, at
    <3>2. Cardinality(has[t]) \in Nat
      BY SMTT(30), LockCount DEF IInv, TypeOK
    <3>3. CASE lk[t] = NoLock
      BY SMTT(30), <1>1, <2>2, <3>1, <3>2, <3>3
      DEF IInv, TypeOK, Argument, push_off, pushed_off, goto, Depth, Bare, Pending
    <3>4. CASE lk[t] # NoLock
      BY SMTT(30), <1>1, <2>2, <3>1, <3>2, <3>4
      DEF IInv, TypeOK, push_off, pushed_off, goto, Depth, Bare, Pending
    <3> QED  BY <3>3, <3>4
  <2> QED  BY <2>1, <2>3, NestingFrame
<1>2. ASSUME NEW t \in Contexts, holding_locked(t) PROVE Nesting'
  <2>1. /\ ctx[t[1]] = t[2] /\ ctx' = ctx /\ t[1] \in CPUs
        /\ \A u \in Contexts : u # t =>
             has'[u] = has[u] /\ pushed'[u] = pushed[u] /\ pc'[u] = pc[u]
        /\ \A c \in CPUs : c # t[1] => noff'[c] = noff[c]
    BY SMTT(30), <1>2, ContextFacts DEF IInv, TypeOK, holding_locked, at, goto
  <2>2. t = <<t[1], ctx[t[1]]>> /\ noff[t[1]] = Depth(t) /\ noff[t[1]] \in Nat
    BY <2>1, RunningDepth
  <2>3. noff'[t[1]] = Depth(t)'
    BY SMTT(30), <1>2, <2>1, <2>2 DEF IInv, TypeOK, holding_locked, at, goto, Depth, Bare, Pending
  <2> QED  BY <2>1, <2>3, NestingFrame
<1>3. ASSUME NEW t \in Contexts, holding_cpu(t) PROVE Nesting'
  <2>1. /\ ctx[t[1]] = t[2] /\ ctx' = ctx /\ t[1] \in CPUs
        /\ \A u \in Contexts : u # t =>
             has'[u] = has[u] /\ pushed'[u] = pushed[u] /\ pc'[u] = pc[u]
        /\ \A c \in CPUs : c # t[1] => noff'[c] = noff[c]
    BY SMTT(30), <1>3, ContextFacts DEF IInv, TypeOK, holding_cpu, at, goto
  <2>2. t = <<t[1], ctx[t[1]]>> /\ noff[t[1]] = Depth(t) /\ noff[t[1]] \in Nat
    BY <2>1, RunningDepth
  <2>3. noff'[t[1]] = Depth(t)'
    BY SMTT(30), <1>3, <2>1, <2>2 DEF IInv, TypeOK, holding_cpu, at, goto, Depth, Bare, Pending
  <2> QED  BY <2>1, <2>3, NestingFrame
<1>4. ASSUME NEW t \in Contexts, test_and_set(t) PROVE Nesting'
  <2>1. /\ ctx[t[1]] = t[2] /\ ctx' = ctx /\ t[1] \in CPUs
        /\ \A u \in Contexts : u # t =>
             has'[u] = has[u] /\ pushed'[u] = pushed[u] /\ pc'[u] = pc[u]
        /\ \A c \in CPUs : c # t[1] => noff'[c] = noff[c]
    BY SMTT(30), <1>4, ContextFacts DEF IInv, TypeOK, test_and_set, at, goto
  <2>2. t = <<t[1], ctx[t[1]]>> /\ noff[t[1]] = Depth(t) /\ noff[t[1]] \in Nat
    BY <2>1, RunningDepth
  <2>3. noff'[t[1]] = Depth(t)'
    <3>1. /\ has'[t] = has[t] \union {lk[t]} /\ noff' = noff /\ pushed' = pushed
          /\ lk[t] \in Locks /\ has[t] \in SUBSET Locks
      BY SMTT(30), <1>4, <2>1 DEF IInv, TypeOK, Argument, test_and_set, at
    <3>2. Cardinality(has'[t]) = Cardinality(has[t]) + 1 /\ Cardinality(has[t]) \in Nat
      BY SMTT(30), <1>4, <3>1, LockCount DEF IInv, Argument, test_and_set, at
    <3> QED
      BY SMTT(30), <1>4, <2>2, <3>1, <3>2 DEF IInv, TypeOK, test_and_set, at, goto, Depth, Bare, Pending
  <2> QED  BY <2>1, <2>3, NestingFrame
<1>5. ASSUME NEW t \in Contexts, set_cpu(t) PROVE Nesting'
  <2>1. /\ ctx[t[1]] = t[2] /\ ctx' = ctx /\ t[1] \in CPUs
        /\ \A u \in Contexts : u # t =>
             has'[u] = has[u] /\ pushed'[u] = pushed[u] /\ pc'[u] = pc[u]
        /\ \A c \in CPUs : c # t[1] => noff'[c] = noff[c]
    BY SMTT(30), <1>5, ContextFacts DEF IInv, TypeOK, set_cpu, at, goto
  <2>2. t = <<t[1], ctx[t[1]]>> /\ noff[t[1]] = Depth(t) /\ noff[t[1]] \in Nat
    BY <2>1, RunningDepth
  <2>3. noff'[t[1]] = Depth(t)'
    BY SMTT(30), <1>5, <2>1, <2>2 DEF IInv, TypeOK, set_cpu, at, goto, Depth, Bare, Pending
  <2> QED  BY <2>1, <2>3, NestingFrame
<1>6. ASSUME NEW t \in Contexts, clear_cpu(t) PROVE Nesting'
  <2>1. /\ ctx[t[1]] = t[2] /\ ctx' = ctx /\ t[1] \in CPUs
        /\ \A u \in Contexts : u # t =>
             has'[u] = has[u] /\ pushed'[u] = pushed[u] /\ pc'[u] = pc[u]
        /\ \A c \in CPUs : c # t[1] => noff'[c] = noff[c]
    BY SMTT(30), <1>6, ContextFacts DEF IInv, TypeOK, clear_cpu, at, goto
  <2>2. t = <<t[1], ctx[t[1]]>> /\ noff[t[1]] = Depth(t) /\ noff[t[1]] \in Nat
    BY <2>1, RunningDepth
  <2>3. noff'[t[1]] = Depth(t)'
    BY SMTT(30), <1>6, <2>1, <2>2 DEF IInv, TypeOK, clear_cpu, at, goto, Depth, Bare, Pending
  <2> QED  BY <2>1, <2>3, NestingFrame
<1>7. ASSUME NEW t \in Contexts, unlock(t) PROVE Nesting'
  <2>1. /\ ctx[t[1]] = t[2] /\ ctx' = ctx /\ t[1] \in CPUs
        /\ \A u \in Contexts : u # t =>
             has'[u] = has[u] /\ pushed'[u] = pushed[u] /\ pc'[u] = pc[u]
        /\ \A c \in CPUs : c # t[1] => noff'[c] = noff[c]
    BY SMTT(30), <1>7, ContextFacts DEF IInv, TypeOK, unlock, at, goto
  <2>2. t = <<t[1], ctx[t[1]]>> /\ noff[t[1]] = Depth(t) /\ noff[t[1]] \in Nat
    BY <2>1, RunningDepth
  <2>3. noff'[t[1]] = Depth(t)'
    <3>1. /\ has'[t] = has[t] \ {lk[t]} /\ noff' = noff /\ pushed' = pushed
          /\ lk[t] \in Locks /\ has[t] \in SUBSET Locks
      BY SMTT(30), <1>7, <2>1 DEF IInv, TypeOK, Argument, unlock, at
    <3>2. Cardinality(has'[t]) = Cardinality(has[t]) - 1 /\ Cardinality(has[t]) \in Nat
      BY SMTT(30), <1>7, <3>1, LockCount DEF IInv, Argument, unlock, at
    <3> QED
      BY SMTT(30), <1>7, <2>2, <3>1, <3>2 DEF IInv, TypeOK, unlock, at, goto, Depth, Bare, Pending
  <2> QED  BY <2>1, <2>3, NestingFrame
<1>8. ASSUME NEW t \in Contexts, pop_off(t) PROVE Nesting'
  <2>1. /\ ctx[t[1]] = t[2] /\ ctx' = ctx /\ t[1] \in CPUs
        /\ \A u \in Contexts : u # t =>
             has'[u] = has[u] /\ pushed'[u] = pushed[u] /\ pc'[u] = pc[u]
        /\ \A c \in CPUs : c # t[1] => noff'[c] = noff[c]
    BY ZenonT(30), <1>8, ContextFacts DEF IInv, TypeOK, pop_off, at, goto
  <2>2. t = <<t[1], ctx[t[1]]>> /\ noff[t[1]] = Depth(t) /\ noff[t[1]] \in Nat
    BY <2>1, RunningDepth
  <2>3. noff'[t[1]] = Depth(t)'
    <3>1. has'[t] = has[t] /\ noff'[t[1]] = noff[t[1]] - 1 /\ pc'[t] = "run"
      BY <1>8, <2>1 DEF IInv, TypeOK, pop_off, goto
    <3>2. Cardinality(has[t]) \in Nat
      BY LockCount DEF IInv, TypeOK
    <3>3. CASE pc[t] = "pop_off" /\ pushed' = pushed
      BY SMT, <2>2, <3>1, <3>2, <3>3 DEF Depth, Bare, Pending
    <3>4. CASE pc[t] = "run" /\ pushed[t] /\ pushed' = [pushed EXCEPT ![t] = FALSE]
      BY SMT, <2>2, <3>1, <3>2, <3>4 DEF IInv, TypeOK, Depth, Bare, Pending
    <3> QED  BY SMTT(30), <1>8, <3>3, <3>4 DEF pop_off, at
  <2> QED  BY <2>1, <2>3, NestingFrame
<1>9. ASSUME NEW t \in Contexts, NEW l \in Locks \union {NoLock}, call_push_off(t, l) PROVE Nesting'
  <2>1. /\ ctx[t[1]] = t[2] /\ ctx' = ctx /\ t[1] \in CPUs
        /\ \A u \in Contexts : u # t =>
             has'[u] = has[u] /\ pushed'[u] = pushed[u] /\ pc'[u] = pc[u]
        /\ \A c \in CPUs : c # t[1] => noff'[c] = noff[c]
    BY <1>9, ContextFacts DEF IInv, TypeOK, call_push_off, at, goto
  <2>2. t = <<t[1], ctx[t[1]]>> /\ noff[t[1]] = Depth(t) /\ noff[t[1]] \in Nat
    BY SMTT(30), <2>1, RunningDepth
  <2>3. noff'[t[1]] = Depth(t)'
    BY SMTT(30), <1>9, <2>1, <2>2 DEF IInv, TypeOK, call_push_off, at, goto, Depth, Bare, Pending
  <2> QED  BY <2>1, <2>3, NestingFrame
<1>10. ASSUME NEW t \in Contexts, NEW l \in Locks, release(t, l) PROVE Nesting'
  <2>1. /\ ctx[t[1]] = t[2] /\ ctx' = ctx /\ t[1] \in CPUs
        /\ \A u \in Contexts : u # t =>
             has'[u] = has[u] /\ pushed'[u] = pushed[u] /\ pc'[u] = pc[u]
        /\ \A c \in CPUs : c # t[1] => noff'[c] = noff[c]
    BY <1>10, ContextFacts DEF IInv, TypeOK, release, at, goto
  <2>2. t = <<t[1], ctx[t[1]]>> /\ noff[t[1]] = Depth(t) /\ noff[t[1]] \in Nat
    BY SMTT(30), <2>1, RunningDepth
  <2>3. noff'[t[1]] = Depth(t)'
    BY SMTT(30), <1>10, <2>1, <2>2 DEF IInv, TypeOK, release, at, goto, Depth, Bare, Pending
  <2> QED  BY SMTT(30), <2>1, <2>3, NestingFrame
<1>11. ASSUME NEW c \in CPUs, set_intr(c) PROVE Nesting'
  BY SMTT(30), <1>11 DEF IInv, Nesting, set_intr, Depth, Bare, Pending
<1>12. ASSUME NEW c \in CPUs, interrupt(c) PROVE Nesting'
  <2>1. /\ <<c, "thread">> \in Contexts /\ <<c, "trap">> \in Contexts
        /\ ctx[c] = "thread" /\ sie[c] /\ ctx' = [ctx EXCEPT ![c] = "trap"]
        /\ UNCHANGED <<noff, has, pushed, pc>>
    BY <1>12, ContextFacts DEF interrupt, Ctx
  <2>2. noff[c] = 0 /\ noff[c] = Depth(<<c, "thread">>)
    <3>1. noff[c] \in Nat /\ (noff[c] > 0 => sie[c] = FALSE)
      BY ZenonT(30) DEF IInv, TypeOK, Enable, EnableAt
    <3>2. noff[c] = Depth(<<c, ctx[c]>>)
      BY ZenonT(30) DEF IInv, Nesting
    <3> QED  BY SMT, <2>1, <3>1, <3>2
  <2>3. Depth(<<c, "trap">>) = 0
    BY <2>1, ZeroDepth DEF IInv, Nesting
  <2>4. /\ has[<<c, "thread">>] = {} /\ ~pushed[<<c, "thread">>]
        /\ pc[<<c, "thread">>] \in {"run", "push_off"}
    BY <2>1, <2>2, ZeroDepth
  <2>5. \A u \in Contexts : Depth(u)' = Depth(u)
    BY <2>1 DEF Depth, Bare, Pending
  <2>6. \A d \in CPUs : <<d, "thread">> \in Contexts /\ <<d, "trap">> \in Contexts
    BY ZenonT(30), ContextFacts DEF Ctx
  <2>7. \A d \in CPUs : ctx'[d] = IF d = c THEN "trap" ELSE ctx[d]
    BY <2>1 DEF IInv, TypeOK
  <2>8. ASSUME NEW d \in CPUs PROVE noff'[d] = Depth(<<d, ctx[d]>>)'
    <3>1. CASE d = c
      <4>1. Depth(<<d, ctx[d]>>)' = Depth(<<c, "trap">>)'
        BY <3>1, <2>7
      <4> QED  BY <2>1, <2>2, <2>3, <2>5, <3>1, <4>1
    <3>2. CASE d # c
      <4>1. Depth(<<d, ctx[d]>>)' = Depth(<<d, ctx[d]>>)
        BY <3>2, <2>1, <2>7 DEF Depth, Bare, Pending
      <4> QED  BY ZenonT(30), <2>1, <4>1 DEF IInv, Nesting
    <3> QED  BY <3>1, <3>2
  <2> QED  BY SMT, <2>1, <2>4, <2>7, <2>8 DEF IInv, Nesting
<1>13. ASSUME NEW c \in CPUs, trap_return(c) PROVE Nesting'
  <2>1. /\ <<c, "thread">> \in Contexts /\ <<c, "trap">> \in Contexts
        /\ ctx[c] = "trap" /\ ctx' = [ctx EXCEPT ![c] = "thread"]
        /\ has[<<c, "trap">>] = {} /\ ~pushed[<<c, "trap">>] /\ pc[<<c, "trap">>] = "run"
        /\ UNCHANGED <<noff, has, pushed, pc>>
    BY <1>13, ContextFacts DEF trap_return, Ctx, at
  <2>2. noff[c] = 0
    BY SMT, <2>1, ZeroDepth DEF IInv, Nesting
  <2>3. Depth(<<c, "thread">>) = 0
    BY <2>1, ZeroDepth DEF IInv, Nesting
  <2>4. \A u \in Contexts : Depth(u)' = Depth(u)
    BY SMTT(30), <2>1 DEF Depth, Bare, Pending
  <2> QED  BY ZenonT(30), <2>1, <2>2, <2>3, <2>4, ContextFacts DEF IInv, TypeOK, Nesting
<1>14. CASE UNCHANGED vars
  BY ZenonT(30), <1>14 DEF IInv, Nesting, vars, Depth, Bare, Pending
<1> QED
  BY ZenonT(30), <1>1, <1>2, <1>3, <1>4, <1>5, <1>6, <1>7, <1>8, <1>9, <1>10, <1>11, <1>12,
     <1>13, <1>14 DEF Next, LockStep

\* A step that touches no interrupt state and enters no push_off() preserves
\* Enable.
LEMMA EnableQuiet ==
  ASSUME IInv, UNCHANGED <<sie, noff, intena, ctx, old, want>>,
         \A u \in Contexts : pc'[u] = "push_off" => pc[u] = "push_off"
  PROVE  Enable'
  BY ZenonT(30), ContextFacts DEF IInv, Enable, EnableAt, Ctx

\* A step on CPU c preserves Enable at every other CPU.
LEMMA EnableFrame ==
  ASSUME IInv, NEW c \in CPUs, EnableAt(c)',
         \A d \in CPUs : d # c =>
           /\ sie'[d] = sie[d] /\ noff'[d] = noff[d] /\ intena'[d] = intena[d]
           /\ ctx'[d] = ctx[d] /\ want'[d] = want[d]
           /\ \A x \in Ctx : pc'[<<d, x>>] = pc[<<d, x>>] /\ old'[<<d, x>>] = old[<<d, x>>]
  PROVE  Enable'
<1> SUFFICES ASSUME NEW d \in CPUs, d # c PROVE EnableAt(d)'
  BY SMTT(30) DEF Enable
<1> QED  BY SMTT(30) DEF IInv, Enable, EnableAt, Ctx

\* The interrupt-enable bit and its saved copies are preserved.
LEMMA EnableInductive == IInv /\ TypeOK' /\ [Next]_vars => Enable'
<1> SUFFICES ASSUME IInv, TypeOK', [Next]_vars PROVE Enable'
  OBVIOUS
<1>0. \A c \in CPUs : /\ <<c, "thread">> \in Contexts /\ <<c, "trap">> \in Contexts
                       /\ EnableAt(c) /\ noff[c] \in Nat
  BY ZenonT(30), ContextFacts DEF Ctx, IInv, Enable, TypeOK
<1>1. ASSUME NEW t \in Contexts, push_off(t) PROVE Enable'
  <2> DEFINE c == t[1]
  <2>1. c \in CPUs /\ t = <<c, t[2]>> /\ t[2] \in Ctx /\ ctx[c] = t[2] /\ pc[t] = "push_off"
    BY <1>1, ContextFacts DEF push_off, at
  <2>2. /\ sie'[c] = FALSE /\ noff'[c] = noff[c] + 1 /\ ctx' = ctx /\ want' = want /\ old' = old
        /\ intena'[c] = IF noff[c] = 0 THEN old[t] ELSE intena[c]
    BY SMTT(30), <1>1, <2>1 DEF push_off, pushed_off, IInv, TypeOK
  <2>3. pc'[t] # "push_off" /\ \A u \in Contexts : u # t => pc'[u] = pc[u]
    BY ZenonT(30), <1>1 DEF push_off, pushed_off, goto, IInv, TypeOK
  <2>4. EnableAt(c)'
    <3>1. CASE t[2] = "thread"
      BY SMTT(30), <1>0, <2>1, <2>2, <2>3, <3>1 DEF EnableAt
    <3>2. CASE t[2] = "trap"
      BY SMTT(30), <1>0, <2>1, <2>2, <2>3, <3>2 DEF EnableAt
    <3> QED  BY SMTT(30), <2>1, <3>1, <3>2 DEF Ctx
  <2>5. \A d \in CPUs : d # c =>
           /\ sie'[d] = sie[d] /\ noff'[d] = noff[d] /\ intena'[d] = intena[d]
           /\ ctx'[d] = ctx[d] /\ want'[d] = want[d]
           /\ \A x \in Ctx : pc'[<<d, x>>] = pc[<<d, x>>] /\ old'[<<d, x>>] = old[<<d, x>>]
    <3>1. \A d \in CPUs : d # c =>
            sie'[d] = sie[d] /\ noff'[d] = noff[d] /\ intena'[d] = intena[d]
      BY SMTT(30), <1>1, <2>1 DEF push_off, IInv, TypeOK
    <3> QED  BY SMT, <2>1, <2>2, <2>3, <3>1, ContextFacts
  <2> QED  BY SMTT(30), <2>1, <2>4, <2>5, EnableFrame
<1>2. ASSUME NEW t \in Contexts, holding_locked(t) PROVE Enable'
  <2>1. UNCHANGED <<sie, noff, intena, ctx, old, want>>
    BY <1>2 DEF holding_locked
  <2>2. \A u \in Contexts : pc'[u] = "push_off" => pc[u] = "push_off"
    BY SMTT(30), <1>2 DEF holding_locked, goto, IInv, TypeOK
  <2> QED  BY <2>1, <2>2, EnableQuiet
<1>3. ASSUME NEW t \in Contexts, holding_cpu(t) PROVE Enable'
  <2>1. UNCHANGED <<sie, noff, intena, ctx, old, want>>
    BY SMTT(30), <1>3 DEF holding_cpu
  <2>2. \A u \in Contexts : pc'[u] = "push_off" => pc[u] = "push_off"
    BY <1>3 DEF holding_cpu, goto, IInv, TypeOK
  <2> QED  BY <2>1, <2>2, EnableQuiet
<1>4. ASSUME NEW t \in Contexts, test_and_set(t) PROVE Enable'
  <2>1. UNCHANGED <<sie, noff, intena, ctx, old, want>>
    BY SMTT(30), <1>4 DEF test_and_set
  <2>2. \A u \in Contexts : pc'[u] = "push_off" => pc[u] = "push_off"
    BY SMTT(30), <1>4 DEF test_and_set, goto, IInv, TypeOK
  <2> QED  BY <2>1, <2>2, EnableQuiet
<1>5. ASSUME NEW t \in Contexts, set_cpu(t) PROVE Enable'
  <2>1. UNCHANGED <<sie, noff, intena, ctx, old, want>>
    BY SMTT(30), <1>5 DEF set_cpu
  <2>2. \A u \in Contexts : pc'[u] = "push_off" => pc[u] = "push_off"
    BY <1>5 DEF set_cpu, goto, IInv, TypeOK
  <2> QED  BY <2>1, <2>2, EnableQuiet
<1>6. ASSUME NEW t \in Contexts, clear_cpu(t) PROVE Enable'
  <2>1. UNCHANGED <<sie, noff, intena, ctx, old, want>>
    BY SMTT(30), <1>6 DEF clear_cpu
  <2>2. \A u \in Contexts : pc'[u] = "push_off" => pc[u] = "push_off"
    BY <1>6 DEF clear_cpu, goto, IInv, TypeOK
  <2> QED  BY <2>1, <2>2, EnableQuiet
<1>7. ASSUME NEW t \in Contexts, unlock(t) PROVE Enable'
  <2>1. UNCHANGED <<sie, noff, intena, ctx, old, want>>
    BY SMTT(30), <1>7 DEF unlock
  <2>2. \A u \in Contexts : pc'[u] = "push_off" => pc[u] = "push_off"
    BY <1>7 DEF unlock, goto, IInv, TypeOK
  <2> QED  BY <2>1, <2>2, EnableQuiet
<1>8. ASSUME NEW t \in Contexts, pop_off(t) PROVE Enable'
  <2> DEFINE c == t[1]
  <2>1. /\ c \in CPUs /\ t = <<c, t[2]>> /\ t[2] \in Ctx /\ ctx[c] = t[2]
        /\ pc[t] # "push_off" /\ noff[c] >= 1
    BY SMTT(30), <1>8, ContextFacts DEF pop_off, at
  <2>2. /\ noff'[c] = noff[c] - 1 /\ ctx' = ctx /\ want' = want /\ old' = old
        /\ intena' = intena /\ (sie'[c] <=> noff[c] = 1 /\ intena[c])
    BY SMTT(30), <1>8, <2>1 DEF pop_off, IInv, TypeOK
  <2>3. pc'[t] = "run" /\ \A u \in Contexts : u # t => pc'[u] = pc[u]
    BY <1>8 DEF pop_off, goto, IInv, TypeOK
  <2>4. sie'[c] \in BOOLEAN /\ intena[c] \in BOOLEAN /\ want[c] \in BOOLEAN
    BY <2>1 DEF IInv, TypeOK
  <2>5. EnableAt(c)'
    <3>1. CASE t[2] = "thread"
      BY SMTT(30), <1>0, <2>1, <2>2, <2>3, <2>4, <3>1 DEF EnableAt
    <3>2. CASE t[2] = "trap"
      BY SMT, <1>0, <2>1, <2>2, <2>3, <2>4, <3>2 DEF EnableAt
    <3> QED  BY SMTT(30), <2>1, <3>1, <3>2 DEF Ctx
  <2>6. \A d \in CPUs : d # c =>
           /\ sie'[d] = sie[d] /\ noff'[d] = noff[d] /\ intena'[d] = intena[d]
           /\ ctx'[d] = ctx[d] /\ want'[d] = want[d]
           /\ \A x \in Ctx : pc'[<<d, x>>] = pc[<<d, x>>] /\ old'[<<d, x>>] = old[<<d, x>>]
    <3>1. \A d \in CPUs : d # c => sie'[d] = sie[d] /\ noff'[d] = noff[d]
      BY SMTT(30), <1>8, <2>1 DEF pop_off, IInv, TypeOK
    <3> QED  BY SMTT(30), <2>1, <2>2, <2>3, <3>1, ContextFacts
  <2> QED  BY <2>1, <2>5, <2>6, EnableFrame
<1>9. ASSUME NEW t \in Contexts, NEW l \in Locks \union {NoLock}, call_push_off(t, l)
      PROVE  Enable'
  <2> DEFINE c == t[1]
  <2>1. c \in CPUs /\ t = <<c, t[2]>> /\ t[2] \in Ctx /\ ctx[c] = t[2] /\ pc[t] = "run"
    BY SMTT(30), <1>9, ContextFacts DEF call_push_off, at
  <2>2. /\ UNCHANGED <<sie, noff, intena, ctx, want>> /\ old'[t] = sie[c]
        /\ \A u \in Contexts : u # t => pc'[u] = pc[u] /\ old'[u] = old[u]
    BY <1>9 DEF call_push_off, goto, IInv, TypeOK
  <2>3. EnableAt(c)'
    <3>1. CASE t[2] = "thread"
      BY SMTT(30), <1>0, <2>1, <2>2, <3>1 DEF EnableAt
    <3>2. CASE t[2] = "trap"
      BY SMT, <1>0, <2>1, <2>2, <3>2 DEF EnableAt
    <3> QED  BY SMTT(30), <2>1, <3>1, <3>2 DEF Ctx
  <2>4. \A d \in CPUs : d # c =>
           /\ sie'[d] = sie[d] /\ noff'[d] = noff[d] /\ intena'[d] = intena[d]
           /\ ctx'[d] = ctx[d] /\ want'[d] = want[d]
           /\ \A x \in Ctx : pc'[<<d, x>>] = pc[<<d, x>>] /\ old'[<<d, x>>] = old[<<d, x>>]
    BY SMTT(30), <2>1, <2>2, ContextFacts
  <2> QED  BY <2>1, <2>3, <2>4, EnableFrame
<1>10. ASSUME NEW t \in Contexts, NEW l \in Locks, release(t, l) PROVE Enable'
  <2>1. UNCHANGED <<sie, noff, intena, ctx, old, want>>
    BY SMTT(30), <1>10 DEF release
  <2>2. \A u \in Contexts : pc'[u] = "push_off" => pc[u] = "push_off"
    BY <1>10 DEF release, goto, IInv, TypeOK
  <2> QED  BY SMTT(30), <2>1, <2>2, EnableQuiet
<1>11. ASSUME NEW c \in CPUs, set_intr(c) PROVE Enable'
  <2>1. /\ UNCHANGED <<noff, intena, ctx, pc, old>> /\ sie'[c] = want'[c]
        /\ ctx[c] = "thread" /\ pc[<<c, "thread">>] = "run" /\ noff[c] = 0
        /\ \A d \in CPUs : d # c => sie'[d] = sie[d] /\ want'[d] = want[d]
    BY SMT, <1>11 DEF set_intr, at, IInv, TypeOK
  <2>2. EnableAt(c)'
    BY SMT, <2>1 DEF EnableAt
  <2> QED  BY SMTT(30), <2>1, <2>2, EnableFrame
<1>12. ASSUME NEW c \in CPUs, interrupt(c) PROVE Enable'
  <2>1. /\ UNCHANGED <<noff, intena, pc, old, want>> /\ sie'[c] = FALSE /\ ctx'[c] = "trap"
        /\ ctx[c] = "thread" /\ sie[c] = TRUE
        /\ \A d \in CPUs : d # c => sie'[d] = sie[d] /\ ctx'[d] = ctx[d]
    BY <1>12 DEF interrupt, IInv, TypeOK
  <2>2. pc[<<c, "trap">>] = "run"
    BY ZenonT(30), <2>1 DEF IInv, Nesting
  <2>3. EnableAt(c)'
    BY SMT, <1>0, <2>1, <2>2 DEF EnableAt
  <2> QED  BY SMTT(30), <2>1, <2>3, EnableFrame
<1>13. ASSUME NEW c \in CPUs, trap_return(c) PROVE Enable'
  <2>1. /\ UNCHANGED <<noff, intena, pc, old, want>> /\ sie'[c] = TRUE /\ ctx'[c] = "thread"
        /\ ctx[c] = "trap" /\ has[<<c, "trap">>] = {} /\ ~pushed[<<c, "trap">>]
        /\ pc[<<c, "trap">>] = "run"
        /\ \A d \in CPUs : d # c => sie'[d] = sie[d] /\ ctx'[d] = ctx[d]
    BY <1>13 DEF trap_return, at, IInv, TypeOK
  <2>2. noff[c] = 0
    <3>1. noff[c] = Depth(<<c, "trap">>)
      BY ZenonT(30), <2>1 DEF IInv, Nesting
    <3> QED  BY ZenonT(30), <1>0, <2>1, <3>1, ZeroDepth
  <2>3. want[c] = TRUE /\ (pc[<<c, "thread">>] = "push_off" => old[<<c, "thread">>] = want[c])
    BY <1>0, <2>1 DEF EnableAt
  <2>4. noff'[c] = 0 /\ sie'[c] = want'[c]
    BY ZenonT(30), <2>1, <2>2, <2>3
  <2>5. EnableAt(c)'
    BY SMT, <2>1, <2>3, <2>4 DEF EnableAt
  <2> QED  BY SMTT(30), <2>1, <2>5, EnableFrame
<1>14. CASE UNCHANGED vars
  BY ZenonT(30), <1>14 DEF vars, IInv, Enable, EnableAt
<1> QED
  BY <1>1, <1>2, <1>3, <1>4, <1>5, <1>6, <1>7, <1>8, <1>9, <1>10, <1>11, <1>12,
     <1>13, <1>14 DEF Next, LockStep

\* main() starts every CPU with no lock taken and interrupts off.
LEMMA InitIInv == Init => IInv
<1> SUFFICES ASSUME Init PROVE IInv
  OBVIOUS
<1>1. TypeOK
  BY SMTT(30), SpinlockConstants DEF Init, TypeOK, Locations, Ctx, NoLock
<1>2. Ownership /\ Argument
  BY DEF Init, Ownership, Argument
<1>3. \A t \in Contexts : Depth(t) = 0
  BY SMT, FS_EmptySet DEF Init, Depth, Bare, Pending
<1>4. Nesting
  BY ZenonT(30), <1>3, ContextFacts DEF Init, Nesting, Ctx
<1>5. Enable
  BY ZenonT(30), ContextFacts DEF Init, Enable, EnableAt, Ctx
<1> QED  BY <1>1, <1>2, <1>4, <1>5 DEF IInv

\* The inductive invariant holds throughout.
LEMMA IInvInvariant == Spec => []IInv
<1>1. IInv /\ [Next]_vars => IInv'
  BY TypeInductive, OwnershipInductive, ArgumentInductive, NestingInductive,
     EnableInductive DEF IInv
<1> QED  BY InitIInv, <1>1, PTL DEF Spec

\* Every variable of the spinlock model keeps its type; in particular noff
\* never goes below zero.
THEOREM TypeCorrect == Spec => []TypeOK
  BY IInvInvariant, PTL DEF IInv

\* acquire() and release() give mutual exclusion, for any number of CPUs and
\* locks and with interrupt handlers taking locks.
THEOREM SpinlockMutex == Spec => []MutualExclusion
<1>1. IInv => MutualExclusion
  BY DEF IInv, Ownership, MutualExclusion
<1> QED  BY IInvInvariant, <1>1, PTL

\* holding() is exact at both of its uses, so neither acquire() nor release()
\* panics.
THEOREM SpinlockHolding == Spec => []HoldingIsExact
<1>1. ASSUME IInv PROVE HoldingIsExact
  <2> SUFFICES ASSUME NEW t \in Contexts
               PROVE  /\ pc[t] = "holding2" => lcpu[lk[t]] # t[1]
                      /\ pc[t] = "run" => \A l \in has[t] : locked[l] /\ lcpu[l] = t[1]
    BY DEF HoldingIsExact
  <2>1. pc[t] = "run" => \A l \in has[t] : locked[l] /\ lcpu[l] = t[1]
    BY <1>1 DEF IInv, Ownership
  <2>2. ASSUME pc[t] = "holding2", lcpu[lk[t]] = t[1] PROVE FALSE
    <3>1. lk[t] \in Locks /\ lk[t] \notin has[t] /\ t[1] # NoCpu
      BY <1>1, <2>2, SpinlockConstants, ContextFacts DEF IInv, Argument
    <3>2. PICK u \in Contexts : lk[t] \in has[u] /\ u[1] = t[1]
      BY SMT, <1>1, <2>2, <3>1 DEF IInv, Ownership
    <3>3. u[2] # t[2] /\ t = <<t[1], t[2]>> /\ u = <<t[1], u[2]>>
          /\ u[2] \in Ctx /\ t[2] \in Ctx /\ t[1] \in CPUs
      BY <3>1, <3>2, ContextFacts
    <3> QED  BY ZenonT(30), <1>1, <2>2, <3>2, <3>3 DEF IInv, Nesting, TypeOK, Ctx
  <2> QED  BY <2>1, <2>2
<1> QED  BY IInvInvariant, <1>1, PTL

\* A handler never waits for the thread it interrupted, and pop_off() never
\* panics.
THEOREM SpinlockNoSelfDeadlock == Spec => []NoSelfDeadlock
<1>1. ASSUME IInv PROVE NoSelfDeadlock
  <2> SUFFICES ASSUME NEW c \in CPUs
               PROVE  /\ ctx[c] = "trap" => has[<<c, "thread">>] = {}
                      /\ \A x \in Ctx :
                           pc[<<c, x>>] = "pop_off" \/ pushed[<<c, x>>]
                             => ~sie[c] /\ noff[c] >= 1
    BY DEF NoSelfDeadlock
  <2>1. ASSUME NEW x \in Ctx, pc[<<c, x>>] = "pop_off" \/ pushed[<<c, x>>]
        PROVE  ~sie[c] /\ noff[c] >= 1
    <3>1. ctx[c] = x /\ <<c, x>> \in Contexts
      BY ZenonT(30), <1>1, <2>1, ContextFacts DEF IInv, Nesting, TypeOK, Ctx
    <3>2. noff[c] = Depth(<<c, x>>) /\ noff[c] \in Nat
      BY ZenonT(30), <1>1, <3>1 DEF IInv, Nesting, TypeOK
    <3>3. noff[c] # 0
      BY SMTT(30), <1>1, <2>1, <3>1, <3>2, ZeroDepth
    <3>4. noff[c] > 0 => sie[c] = FALSE
      BY ZenonT(30), <1>1 DEF IInv, Enable, EnableAt
    <3> QED  BY SMT, <3>2, <3>3, <3>4
  <2> QED  BY ZenonT(30), <1>1, <2>1 DEF IInv, Nesting
<1> QED  BY IInvInvariant, <1>1, PTL

\* push_off()/pop_off() pairs, however nested and interrupted, leave the
\* interrupt-enable bit as they found it.
THEOREM SpinlockInterruptsRestored == Spec => []InterruptsRestored
<1>1. IInv => InterruptsRestored
  BY ZenonT(30) DEF IInv, Enable, EnableAt, InterruptsRestored, at
<1> QED  BY IInvInvariant, <1>1, PTL

-----------------------------------------------------------------------------
(* Trap: traps find the right vector, and what they interrupt goes on      *)
(* where it was.                                                           *)
TrapSpec == TrapInit /\ [][TrapNext]_trapvars

Spots == {"user", "ecall", "timer", "device", "fault", "syscall", "yield", "ret", "retvec", "retregs", "sret",
          "kerneltrap", "kyield", "kret", "loop"}
Addresses == [mode : {"U"}, pc : 0..PCs - 1] \union [mode : {"S"}, pc : Spots]
Modes == {"U", "S"}
Hart == [thread : Threads \union {Sched}, sepc : Addresses, spp : Modes, spie : BOOLEAN,
         sie : BOOLEAN, stvec : {"uservec", "kernelvec"}]
TrapFrame == [sepc : Addresses, spp : Modes, spie : BOOLEAN]
Thread == [at : Spots \ {"loop"}, epc : Addresses, intena : BOOLEAN, frame : TrapFrame,
           pc : 0..PCs - 1, want : 0..PCs - 1, from : Spots]
TrapTypes == /\ hart \in [Harts -> Hart]
             /\ th \in [Threads -> Thread]
             /\ sch \in [Harts -> [at : Spots, frame : TrapFrame, from : Spots]]

\* Where stvec may be the user's, and where it is; where interrupts are off; where the user's
\* program counter is in the trapframe; where kerneltrap() has saved sepc.
UserVector == {"user", "retregs", "sret", "ecall", "timer", "device", "fault"}
UserBound == {"user", "retregs", "sret"}
Masked == {"retvec", "retregs", "sret", "ecall", "timer", "device", "fault", "yield", "kerneltrap", "kyield", "kret"}
Saved == {"syscall", "yield", "ret", "retvec", "retregs", "sret", "kerneltrap", "kyield", "kret"}

\* Of a thread, wherever it is.
Remembers(r) ==
  /\ r.at = "user" => r.want = r.pc
  /\ r.at = "ecall" => r.want = (r.pc + 1) % PCs
  /\ r.at \in {"timer", "device"} => r.want = r.pc
  /\ r.at \in Saved => r.epc = User(r.want)
  /\ r.at \in {"kyield", "kret"} => r.frame.sepc = Kernel(r.from)
  /\ r.at \in {"kerneltrap", "kyield", "kret"} => r.from \in {"syscall", "ret"}
\* Of a thread r on a hart k.
OnHart(k, r) ==
  /\ k.stvec = "uservec" => r.at \in UserVector
  /\ r.at \in UserBound => k.stvec = "uservec"
  /\ r.at \in Masked => ~k.sie
  /\ r.at \in {"ecall", "timer", "device"} => k.sepc = User(r.pc)
  /\ r.at = "kerneltrap" => k.sepc = Kernel(r.from)
  /\ r.at = "sret" => k.sepc = r.epc
\* Of a thread that waits for a hart.
OffHart(r) == r.at \in {"syscall", "ret", "kret"} /\ (r.at = "kret" => ~r.intena)

TrapInv ==
  /\ TrapTypes
  /\ \A t \in Threads : Remembers(th[t])
  /\ \A h \in Harts : Running(h) => OnHart(hart[h], th[cur(h)])
  /\ \A h \in Harts : ~Running(h) => hart[h].stvec = "kernelvec"
  /\ \A t \in Threads : (\A h \in Harts : cur(h) # t) => OffHart(th[t])
  /\ \A g, h \in Harts : Running(g) /\ cur(g) = cur(h) => g = h

-----------------------------------------------------------------------------
(* A step of the thread on hart h, which stays there.                      *)
LEMMA Moves ==
  ASSUME TrapInv, NEW h \in Harts, Running(h), TrapTypes',
         \A g \in Harts \ {h} : hart'[g] = hart[g], hart'[h].thread = cur(h),
         \A t \in Threads \ {cur(h)} : th'[t] = th[t],
         Remembers(th'[cur(h)]), OnHart(hart'[h], th'[cur(h)])
  PROVE TrapInv'
  <1>1. \A g \in Harts : cur(g)' = cur(g) /\ Running(g)' = Running(g)
    BY DEF cur, Running
  <1>2. cur(h) \in Threads
    BY DEF TrapInv, TrapTypes, Hart, Running, cur
  <1>3. \A g \in Harts : Running(g) => OnHart(hart'[g], th'[cur(g)])
    <2> SUFFICES ASSUME NEW g \in Harts, Running(g), g # h PROVE OnHart(hart'[g], th'[cur(g)])
      OBVIOUS
    <2>1. cur(g) \in Threads \ {cur(h)}
      BY DEF TrapInv, TrapTypes, Hart, Running, cur
    <2> QED BY <2>1 DEF TrapInv
  <1>4. \A t \in Threads : Remembers(th'[t])
    BY <1>2 DEF TrapInv
  <1>5. \A g \in Harts : ~Running(g)' => hart'[g].stvec = "kernelvec"
    BY <1>1 DEF TrapInv
  <1>6. \A t \in Threads : (\A g \in Harts : cur(g)' # t) => OffHart(th'[t])
    BY <1>1 DEF TrapInv
  <1>7. \A f, g \in Harts : Running(f)' /\ cur(f)' = cur(g)' => f = g
    BY <1>1 DEF TrapInv
  <1> QED BY <1>1, <1>3, <1>4, <1>5, <1>6, <1>7 DEF TrapInv

(* A step by which the thread on hart h gives it up: sched(), exit().      *)
LEMMA Leaves ==
  ASSUME TrapInv, NEW h \in Harts, Running(h), TrapTypes',
         \A g \in Harts \ {h} : hart'[g] = hart[g], hart'[h].thread = Sched, hart'[h].stvec = "kernelvec",
         \A t \in Threads \ {cur(h)} : th'[t] = th[t],
         Remembers(th'[cur(h)]), OffHart(th'[cur(h)])
  PROVE TrapInv'
  <1>1. /\ \A g \in Harts \ {h} : cur(g)' = cur(g) /\ Running(g)' = Running(g)
        /\ cur(h)' = Sched /\ ~Running(h)'
    BY DEF cur, Running
  <1>2. cur(h) \in Threads
    BY DEF TrapInv, TrapTypes, Hart, Running, cur
  <1>3. \A g \in Harts : Running(g)' => OnHart(hart'[g], th'[cur(g)'])
    <2> SUFFICES ASSUME NEW g \in Harts, Running(g)', g # h PROVE OnHart(hart'[g], th'[cur(g)'])
      BY <1>1
    <2>1. cur(g)' = cur(g) /\ Running(g) /\ cur(g) \in Threads \ {cur(h)}
      BY <1>1 DEF TrapInv, TrapTypes, Hart, Running, cur
    <2> QED BY <2>1 DEF TrapInv
  <1>4. \A t \in Threads : Remembers(th'[t])
    BY <1>2 DEF TrapInv
  <1>5. \A g \in Harts : ~Running(g)' => hart'[g].stvec = "kernelvec"
    BY <1>1 DEF TrapInv
  <1>6. ASSUME NEW t \in Threads, \A g \in Harts : cur(g)' # t PROVE OffHart(th'[t])
    BY <1>1, <1>6 DEF TrapInv
  <1>7. \A f, g \in Harts : Running(f)' /\ cur(f)' = cur(g)' => f = g
    BY ZenonT(30), <1>1 DEF TrapInv, Running, cur
  <1> QED BY <1>1, <1>3, <1>4, <1>5, <1>6, <1>7 DEF TrapInv

(* A trap in the scheduler's own loop.                                     *)
LEMMA Loops ==
  ASSUME TrapInv, NEW h \in Harts, ~Running(h), TrapTypes', th' = th,
         \A g \in Harts \ {h} : hart'[g] = hart[g],
         hart'[h].thread = hart[h].thread, hart'[h].stvec = hart[h].stvec
  PROVE TrapInv'
  <1>1. \A g \in Harts : cur(g)' = cur(g) /\ Running(g)' = Running(g)
    BY DEF cur, Running
  <1>2. \A g \in Harts : Running(g) => OnHart(hart'[g], th'[cur(g)])
    BY DEF TrapInv
  <1>3. \A g \in Harts : ~Running(g)' => hart'[g].stvec = "kernelvec"
    BY <1>1 DEF TrapInv
  <1> QED BY <1>1, <1>2, <1>3 DEF TrapInv

-----------------------------------------------------------------------------
(* One lemma per step of the code: it keeps the invariant.                 *)

(* What is known of the thread on a hart.                                  *)
LEMMA Current ==
  ASSUME TrapInv, NEW h \in Harts, Running(h)
  PROVE /\ cur(h) \in Threads /\ cur(h) = hart[h].thread
        /\ hart \in [Harts -> Hart] /\ th \in [Threads -> Thread]
        /\ OnHart(hart[h], th[cur(h)]) /\ Remembers(th[cur(h)])
  BY DEF TrapInv, TrapTypes, Hart, Running, cur

(* The registers after a trap.                                             *)
LEMMA Trapped ==
  ASSUME TrapInv, NEW h \in Harts, NEW a \in Addresses, a.mode \in Modes,
         hart' = [hart EXCEPT ![h] = trapped(h, a)]
  PROVE /\ hart' \in [Harts -> Hart] /\ \A g \in Harts \ {h} : hart'[g] = hart[g]
        /\ hart'[h].thread = hart[h].thread /\ hart'[h].stvec = hart[h].stvec
        /\ hart'[h].sepc = a /\ hart'[h].sie = FALSE
  <1>1. hart \in [Harts -> Hart]
    BY DEF TrapInv, TrapTypes
  <1> PICK k \in Hart : k = hart[h]
    BY <1>1
  <1> DEFINE k1 == [k EXCEPT !.sepc = a]
             k2 == [k1 EXCEPT !.spp = a.mode]
             k3 == [k2 EXCEPT !.spie = k.sie]
             k4 == [k3 EXCEPT !.sie = FALSE]
  <1>2. k1 \in Hart /\ k1.thread = k.thread /\ k1.stvec = k.stvec /\ k1.sepc = a
    BY DEF Hart
  <1>3. k2 \in Hart /\ k2.thread = k.thread /\ k2.stvec = k.stvec /\ k2.sepc = a
    <2> HIDE DEF k1
    <2> QED BY <1>2 DEF Hart
  <1>4. k3 \in Hart /\ k3.thread = k.thread /\ k3.stvec = k.stvec /\ k3.sepc = a
    <2> HIDE DEF k2
    <2> QED BY <1>3 DEF Hart
  <1>5. k4 \in Hart /\ k4.thread = k.thread /\ k4.stvec = k.stvec /\ k4.sepc = a /\ k4.sie = FALSE
    <2> HIDE DEF k3
    <2> QED BY ZenonT(30), <1>4 DEF Hart
  <1>6. trapped(h, a) = k4
    BY Zenon DEF trapped
  <1> HIDE DEF k4
  <1> QED BY <1>1, <1>5, <1>6

(* A user program goes on.                                                 *)
LEMMA UserStep ==
  ASSUME TrapInv, NEW h \in Harts, user_step(h) PROVE TrapInv'
  <1>0. Running(h)
    BY DEF user_step
  <1> PICK t \in Threads : t = cur(h)
    BY <1>0, Current
  <1>1. (th[t].pc + 1) % PCs \in 0..PCs - 1
    BY SMT, <1>0, Current, TrapConstants DEF Thread
  <1>2. th' = [th EXCEPT ![t].pc = (th[t].pc + 1) % PCs, ![t].want = (th[t].pc + 1) % PCs] /\ th[t].at = "user"
    BY ZenonT(30), <1>0, Current DEF user_step, Remembers
  <1>3. /\ th' \in [Threads -> Thread]
        /\ th'[t].at = "user" /\ th'[t].want = th'[t].pc
        /\ \A u \in Threads \ {t} : th'[u] = th[u]
    BY SMTT(30), <1>0, <1>1, <1>2, Current DEF Thread
  <1>4. Remembers(th'[t]) /\ OnHart(hart[h], th'[t])
    BY SMTT(30), <1>0, <1>2, <1>3, Current DEF Remembers, OnHart, Masked, Saved, UserVector, UserBound
  <1> QED BY ZenonT(30), <1>0, <1>3, <1>4, Moves DEF TrapInv, TrapTypes, user_step, cur

(* A trap from user space, up to usertrap().                               *)
LEMMA UserTrap ==
  ASSUME TrapInv, NEW h \in Harts, NEW c \in {"ecall", "timer", "device", "fault"}, user_trap(h, c) PROVE TrapInv'
  <1>0. Running(h)
    BY DEF user_trap
  <1> PICK t \in Threads : t = cur(h)
    BY <1>0, Current
  <1>1. (th[t].want + 1) % PCs \in 0..PCs - 1
    BY SMT, <1>0, Current, TrapConstants DEF Thread
  <1>2. th[t].at = "user" /\ th[t].want = th[t].pc
    BY <1>0, Current DEF user_trap, Remembers
  <1>3. User(th[t].pc) \in Addresses /\ User(th[t].pc).mode = "U"
    BY <1>0, Current DEF Thread, Addresses, User
  <1>4. hart' = [hart EXCEPT ![h] = trapped(h, User(th[t].pc))]
    BY DEF user_trap
  <1>5. /\ hart' \in [Harts -> Hart] /\ \A g \in Harts \ {h} : hart'[g] = hart[g]
        /\ hart'[h].thread = hart[h].thread /\ hart'[h].sepc = User(th[t].pc) /\ hart'[h].sie = FALSE
    BY ZenonT(30), <1>3, <1>4, Trapped DEF Modes
  <1>6. th' = [th EXCEPT ![t].at = c, ![t].want = IF c = "ecall" THEN (th[t].want + 1) % PCs ELSE th[t].want]
    BY DEF user_trap
  <1>7. /\ th' \in [Threads -> Thread] /\ \A u \in Threads \ {t} : th'[u] = th[u]
        /\ th'[t].at = c /\ th'[t].pc = th[t].pc
        /\ th'[t].want = IF c = "ecall" THEN (th[t].want + 1) % PCs ELSE th[t].want
    BY SMT, <1>0, <1>1, <1>6, Current DEF Thread, Spots
  <1>8. Remembers(th'[t])
    BY <1>2, <1>7 DEF Remembers, Saved
  <1>9. OnHart(hart'[h], th'[t])
    BY <1>5, <1>7 DEF OnHart, UserVector, UserBound
  <1> QED BY ZenonT(30), <1>0, <1>5, <1>7, <1>8, <1>9, Current, Moves DEF TrapInv, TrapTypes, user_trap, cur

(* usertrap() of a system call.                                            *)
LEMMA UsertrapSyscall ==
  ASSUME TrapInv, NEW h \in Harts, usertrap_syscall(h) PROVE TrapInv'
  <1>0. Running(h)
    BY DEF usertrap_syscall
  <1> PICK t \in Threads : t = cur(h)
    BY <1>0, Current
  <1>1. th[t].at = "ecall" /\ hart[h].sepc = User(th[t].pc) /\ th[t].want = (th[t].pc + 1) % PCs
    BY <1>0, Current DEF usertrap_syscall, Remembers, OnHart, UserBound
  <1>2. User(th[t].want) \in Addresses /\ User((hart[h].sepc.pc + 1) % PCs) = User(th[t].want)
    BY SMT, <1>0, <1>1, Current DEF Thread, Addresses, User
  <1>3. /\ hart' \in [Harts -> Hart] /\ \A g \in Harts \ {h} : hart'[g] = hart[g]
        /\ hart'[h].thread = hart[h].thread /\ hart'[h].stvec = "kernelvec"
    <2> PICK k \in Hart : k = hart[h]
      BY <1>0, Current
    <2> DEFINE k1 == [k EXCEPT !.stvec = "kernelvec"]
               k2 == [k1 EXCEPT !.sie = TRUE]
    <2>1. k1 \in Hart /\ k1.thread = k.thread /\ k1.stvec = "kernelvec"
      BY DEF Hart
    <2>2. k2 \in Hart /\ k2.thread = k.thread /\ k2.stvec = "kernelvec"
      <3> HIDE DEF k1
      <3> QED BY ZenonT(30), <2>1 DEF Hart
    <2>3. hart' = [hart EXCEPT ![h] = k2]
      BY Zenon DEF usertrap_syscall
    <2> HIDE DEF k2
    <2> QED BY <1>0, <2>2, <2>3, Current
  <1>4. th' = [th EXCEPT ![t].epc = User(th[t].want), ![t].at = "syscall"]
    BY ZenonT(30), <1>2 DEF usertrap_syscall
  <1>5. /\ th' \in [Threads -> Thread] /\ \A u \in Threads \ {t} : th'[u] = th[u]
        /\ th'[t].at = "syscall" /\ th'[t].epc = User(th'[t].want)
    BY SMTT(30), <1>0, <1>2, <1>4, Current DEF Thread, Spots
  <1>6. Remembers(th'[t]) /\ OnHart(hart'[h], th'[t])
    BY SMTT(30), <1>3, <1>5 DEF Remembers, OnHart, UserVector, Masked, UserBound
  <1> QED BY ZenonT(30), <1>0, <1>3, <1>5, <1>6, Current, Moves DEF TrapInv, TrapTypes, usertrap_syscall, cur

(* usertrap() of an interrupt.                                             *)
LEMMA UsertrapIntr ==
  ASSUME TrapInv, NEW h \in Harts, usertrap_intr(h) PROVE TrapInv'
  <1>0. Running(h)
    BY DEF usertrap_intr
  <1> PICK t \in Threads : t = cur(h)
    BY <1>0, Current
  <1>1. /\ th[t].at \in {"timer", "device"} /\ ~hart[h].sie
        /\ hart[h].sepc = User(th[t].want)
    BY <1>0, Current DEF usertrap_intr, Remembers, OnHart, Masked, UserBound
  <1>2. User(th[t].want) \in Addresses
    BY <1>0, Current DEF Thread, Addresses, User
  <1>3. /\ hart' \in [Harts -> Hart] /\ \A g \in Harts \ {h} : hart'[g] = hart[g]
        /\ hart'[h].thread = hart[h].thread /\ hart'[h].stvec = "kernelvec" /\ hart'[h].sie = hart[h].sie
    BY ZenonT(30), <1>0, Current DEF usertrap_intr, Hart
  <1>4. th' = [th EXCEPT ![t].epc = User(th[t].want), ![t].at = IF th[t].at = "timer" THEN "yield" ELSE "ret"]
    BY <1>1 DEF usertrap_intr
  <1>5. /\ th' \in [Threads -> Thread] /\ \A u \in Threads \ {t} : th'[u] = th[u]
        /\ th'[t].at \in {"yield", "ret"} /\ th'[t].epc = User(th'[t].want)
    BY SMTT(30), <1>0, <1>2, <1>4, Current DEF Thread, Spots
  <1>6. Remembers(th'[t]) /\ OnHart(hart'[h], th'[t])
    BY <1>1, <1>3, <1>5 DEF Remembers, OnHart, UserVector, Masked, UserBound
  <1> QED BY ZenonT(30), <1>0, <1>3, <1>5, <1>6, Current, Moves DEF TrapInv, TrapTypes, usertrap_intr, cur

(* A thread that forkret() is about to send to user space.                 *)
LEMMA NewThread == New \in Thread /\ Remembers(New) /\ OffHart(New)
  <1>1. User(0) \in Addresses
    BY SMT, TrapConstants DEF User, Addresses
  <1>2. NoFrame \in TrapFrame
    BY SMTT(30), <1>1 DEF NoFrame, TrapFrame, Modes
  <1> QED BY SMT, <1>1, <1>2, TrapConstants DEF New, Thread, Spots, Remembers, OffHart, Saved

(* usertrap() of a fault, or of a killed process.                          *)
LEMMA UsertrapExit ==
  ASSUME TrapInv, NEW h \in Harts, usertrap_exit(h) PROVE TrapInv'
  <1>0. Running(h)
    BY DEF usertrap_exit
  <1> PICK t \in Threads : t = cur(h)
    BY <1>0, Current
  <1> PICK k \in Hart : k = hart[h]
    BY <1>0, Current
  <1> DEFINE k1 == [k EXCEPT !.stvec = "kernelvec"]
             k2 == [k1 EXCEPT !.thread = Sched]
             k3 == [k2 EXCEPT !.sie = TRUE]
  <1>1. k1 \in Hart /\ k1.stvec = "kernelvec"
    BY DEF Hart
  <1>2. k2 \in Hart /\ k2.stvec = "kernelvec" /\ k2.thread = Sched
    <2> HIDE DEF k1
    <2> QED BY <1>1 DEF Hart
  <1>3. k3 \in Hart /\ k3.stvec = "kernelvec" /\ k3.thread = Sched
    <2> HIDE DEF k2
    <2> QED BY ZenonT(30), <1>2 DEF Hart
  <1>4. hart' = [hart EXCEPT ![h] = k3]
    BY <1>0, Current, Zenon DEF usertrap_exit
  <1>5. /\ hart' \in [Harts -> Hart] /\ \A g \in Harts \ {h} : hart'[g] = hart[g]
        /\ hart'[h].thread = Sched /\ hart'[h].stvec = "kernelvec"
    <2> HIDE DEF k3
    <2> QED BY <1>0, <1>3, <1>4, Current
  <1>6. /\ th' \in [Threads -> Thread] /\ th'[t] = New /\ \A u \in Threads \ {t} : th'[u] = th[u]
    BY ZenonT(30), <1>0, NewThread, Current DEF usertrap_exit
  <1> QED BY SMTT(30), <1>0, <1>5, <1>6, NewThread, Leaves DEF TrapInv, TrapTypes, usertrap_exit

(* A system call has done its work.                                        *)
LEMMA SyscallReturn ==
  ASSUME TrapInv, NEW h \in Harts, syscall_return(h) PROVE TrapInv'
  <1>0. Running(h)
    BY DEF syscall_return
  <1> PICK t \in Threads : t = cur(h)
    BY <1>0, Current
  <1>1. /\ th' \in [Threads -> Thread] /\ \A u \in Threads \ {t} : th'[u] = th[u]
        /\ th'[t].at = "ret" /\ th'[t].epc = th[t].epc /\ th'[t].want = th[t].want
    BY ZenonT(60), <1>0, Current DEF syscall_return, Thread, Spots
  <1>2. Remembers(th'[t]) /\ OnHart(hart[h], th'[t])
    BY SMT, <1>0, <1>1, Current DEF syscall_return, Remembers, OnHart, UserVector, Masked, Saved, UserBound
  <1> QED BY SMTT(30), <1>0, <1>1, <1>2, Moves DEF TrapInv, TrapTypes, syscall_return, cur

(* swtch(), to or from the scheduler.                                      *)
LEMMA Switches ==
  ASSUME hart \in [Harts -> Hart], NEW h \in Harts, NEW t \in Threads \union {Sched}, NEW b \in BOOLEAN,
         hart' = [hart EXCEPT ![h].thread = t, ![h].sie = b]
  PROVE /\ hart' \in [Harts -> Hart] /\ \A g \in Harts \ {h} : hart'[g] = hart[g]
        /\ hart'[h].thread = t /\ hart'[h].stvec = hart[h].stvec /\ hart'[h].sie = b
  <1> PICK k \in Hart : k = hart[h]
    OBVIOUS
  <1> DEFINE k1 == [k EXCEPT !.thread = t]
             k2 == [k1 EXCEPT !.sie = b]
  <1>1. k1 \in Hart /\ k1.stvec = k.stvec /\ k1.thread = t
    BY DEF Hart
  <1>2. k2 \in Hart /\ k2.stvec = k.stvec /\ k2.thread = t /\ k2.sie = b
    <2> HIDE DEF k1
    <2> QED BY <1>1 DEF Hart
  <1>3. hart' = [hart EXCEPT ![h] = k2]
    BY Zenon
  <1> HIDE DEF k2
  <1> QED BY ZenonT(30), <1>2, <1>3

(* A process gives up its hart.                                            *)
LEMMA Yields ==
  ASSUME TrapInv, NEW h \in Harts, sched(h) PROVE TrapInv'
  <1>0. Running(h)
    BY DEF sched
  <1> PICK t \in Threads : t = cur(h)
    BY <1>0, Current
  <1>1. /\ hart' \in [Harts -> Hart] /\ \A g \in Harts \ {h} : hart'[g] = hart[g]
        /\ hart'[h].thread = Sched /\ hart'[h].stvec = hart[h].stvec
    BY ZenonT(30), <1>0, Current, Switches DEF sched
  <1>2. hart'[h].stvec = "kernelvec"
    BY <1>0, <1>1, Current DEF sched, OnHart, UserVector, Hart, UserBound
  <1> DEFINE a == CASE th[t].at = "yield" -> "ret" [] th[t].at = "kyield" -> "kret" [] OTHER -> th[t].at
  <1>3. /\ \/ th[t].at = "yield" /\ a = "ret"
           \/ th[t].at = "kyield" /\ a = "kret" /\ ~hart[h].sie
           \/ th[t].at = "syscall" /\ a = "syscall"
        /\ hart[h].sie \in BOOLEAN
    BY <1>0, Current DEF sched, OnHart, Masked, Hart, UserBound
  <1>4. th' = [th EXCEPT ![t].intena = hart[h].sie, ![t].at = a]
    BY DEF sched
  <1> HIDE DEF a
  <1>5. /\ th' \in [Threads -> Thread] /\ \A u \in Threads \ {t} : th'[u] = th[u]
        /\ th'[t].at = a /\ th'[t].intena = hart[h].sie /\ th'[t].epc = th[t].epc /\ th'[t].want = th[t].want
        /\ th'[t].frame = th[t].frame /\ th'[t].from = th[t].from
    BY SMTT(30), <1>0, <1>3, <1>4, Current DEF Thread, Spots
  <1>6. Remembers(th'[t]) /\ OffHart(th'[t])
    BY <1>0, <1>3, <1>5, Current DEF Remembers, OffHart, Saved
  <1> QED BY ZenonT(30), <1>0, <1>1, <1>2, <1>5, <1>6, Leaves DEF TrapInv, TrapTypes, sched

(* A hart takes a process that waits.                                      *)
LEMMA Scheduler ==
  ASSUME TrapInv, NEW h \in Harts, NEW t \in Threads, scheduler(h, t) PROVE TrapInv'
  <1>1. hart \in [Harts -> Hart] /\ th \in [Threads -> Thread] /\ OffHart(th[t]) /\ Remembers(th[t])
    BY DEF TrapInv, TrapTypes, scheduler, cur
  <1>2. /\ hart' \in [Harts -> Hart] /\ \A g \in Harts \ {h} : hart'[g] = hart[g]
        /\ hart'[h].thread = t /\ hart'[h].stvec = hart[h].stvec /\ hart'[h].sie = th[t].intena
    <2>1. th[t].intena \in BOOLEAN
      BY <1>1 DEF Thread
    <2> QED BY ZenonT(30), <1>1, <2>1, Switches DEF scheduler
  <1>3. hart[h].stvec = "kernelvec"
    BY DEF TrapInv, scheduler
  <1>4. OnHart(hart'[h], th[t])
    BY <1>1, <1>2, <1>3 DEF OffHart, OnHart, Masked, UserBound
  <1>5. /\ \A g \in Harts \ {h} : cur(g)' = cur(g) /\ Running(g)' = Running(g)
        /\ cur(h)' = t /\ Running(h)' /\ th' = th /\ sch' = sch
    BY <1>2, TrapConstants DEF cur, Running, scheduler
  <1>6. \A g \in Harts : Running(g)' => OnHart(hart'[g], th'[cur(g)'])
    BY <1>2, <1>4, <1>5 DEF TrapInv
  <1>7. \A g \in Harts : ~Running(g)' => hart'[g].stvec = "kernelvec"
    BY <1>2, <1>5 DEF TrapInv
  <1>8. ASSUME NEW u \in Threads, \A g \in Harts : cur(g)' # u PROVE OffHart(th'[u])
    <2>1. cur(h) # u
      BY TrapConstants DEF scheduler, Running, cur
    <2> QED BY <1>5, <1>8, <2>1, TrapConstants DEF TrapInv
  <1>9. \A f, g \in Harts : Running(f)' /\ cur(f)' = cur(g)' => f = g
    <2>1. \A g \in Harts : cur(g) # t
      BY DEF scheduler, cur
    <2> QED BY <1>5, <2>1 DEF TrapInv
  <1> QED BY <1>1, <1>2, <1>5, <1>6, <1>7, <1>8, <1>9 DEF TrapInv, TrapTypes

(* intr_off() of usertrapret().                                            *)
LEMMA RetOff ==
  ASSUME TrapInv, NEW h \in Harts, ret_off(h) PROVE TrapInv'
  <1>0. Running(h)
    BY DEF ret_off
  <1> PICK t \in Threads : t = cur(h)
    BY <1>0, Current
  <1>1. /\ hart' \in [Harts -> Hart] /\ \A g \in Harts \ {h} : hart'[g] = hart[g]
        /\ hart'[h].thread = hart[h].thread /\ hart'[h].stvec = hart[h].stvec /\ hart'[h].sie = FALSE
    <2>1. hart \in [Harts -> Hart] /\ hart' = [hart EXCEPT ![h].sie = FALSE]
      BY <1>0, Current DEF ret_off
    <2> QED BY ZenonT(30), <2>1 DEF Hart
  <1>2. /\ th' \in [Threads -> Thread] /\ \A u \in Threads \ {t} : th'[u] = th[u]
        /\ th'[t].at = "retvec" /\ th'[t].epc = th[t].epc /\ th'[t].want = th[t].want
    BY SMTT(30), <1>0, Current DEF ret_off, Thread, Spots
  <1>3. Remembers(th'[t]) /\ OnHart(hart'[h], th'[t])
    BY SMT, <1>0, <1>1, <1>2, Current DEF ret_off, Remembers, OnHart, UserVector, Masked, Saved, UserBound
  <1> QED BY ZenonT(30), <1>0, <1>1, <1>2, <1>3, Current, Moves DEF TrapInv, TrapTypes, ret_off

(* w_stvec() of usertrapret().                                             *)
LEMMA RetVec ==
  ASSUME TrapInv, NEW h \in Harts, ret_vec(h) PROVE TrapInv'
  <1>0. Running(h)
    BY DEF ret_vec
  <1> PICK t \in Threads : t = cur(h)
    BY <1>0, Current
  <1>1. /\ hart' \in [Harts -> Hart] /\ \A g \in Harts \ {h} : hart'[g] = hart[g]
        /\ hart'[h].thread = hart[h].thread /\ hart'[h].sie = hart[h].sie
        /\ hart'[h].stvec = "uservec"
    BY <1>0, Current DEF ret_vec, Hart
  <1>2. /\ th' \in [Threads -> Thread] /\ \A u \in Threads \ {t} : th'[u] = th[u]
        /\ th'[t].at = "retregs" /\ th'[t].epc = th[t].epc /\ th'[t].want = th[t].want
    BY ZenonT(60), <1>0, Current DEF ret_vec, Thread, Spots
  <1>3. Remembers(th'[t]) /\ OnHart(hart'[h], th'[t])
    BY SMT, <1>0, <1>1, <1>2, Current DEF ret_vec, Remembers, OnHart, UserVector, Masked, Saved, UserBound
  <1> QED BY ZenonT(30), <1>0, <1>1, <1>2, <1>3, Current, Moves DEF TrapInv, TrapTypes, ret_vec

(* w_sstatus() and w_sepc() of usertrapret().                              *)
LEMMA RetRegs ==
  ASSUME TrapInv, NEW h \in Harts, ret_regs(h) PROVE TrapInv'
  <1>0. Running(h)
    BY DEF ret_regs
  <1> PICK t \in Threads : t = cur(h)
    BY <1>0, Current
  <1> PICK k \in Hart : k = hart[h]
    BY <1>0, Current
  <1> DEFINE k1 == [k EXCEPT !.spp = "U"]
             k2 == [k1 EXCEPT !.spie = TRUE]
             k3 == [k2 EXCEPT !.sepc = th[t].epc]
  <1>1. k1 \in Hart /\ k1.thread = k.thread /\ k1.sie = k.sie /\ k1.stvec = k.stvec
    BY DEF Hart, Modes
  <1>2. k2 \in Hart /\ k2.thread = k.thread /\ k2.sie = k.sie /\ k2.stvec = k.stvec
    <2> HIDE DEF k1
    <2> QED BY ZenonT(30), <1>1 DEF Hart
  <1>3. k3 \in Hart /\ k3.thread = k.thread /\ k3.sie = k.sie /\ k3.stvec = k.stvec /\ k3.sepc = th[t].epc
    <2>1. th[t].epc \in Addresses
      BY <1>0, Current DEF Thread
    <2> HIDE DEF k2
    <2> QED BY <1>2, <2>1 DEF Hart
  <1>4. hart' = [hart EXCEPT ![h] = k3]
    BY Zenon DEF ret_regs
  <1>5. /\ hart' \in [Harts -> Hart] /\ \A g \in Harts \ {h} : hart'[g] = hart[g]
        /\ hart'[h].thread = hart[h].thread /\ hart'[h].sie = hart[h].sie /\ hart'[h].sepc = th[t].epc
        /\ hart'[h].stvec = hart[h].stvec
    <2> HIDE DEF k3
    <2> QED BY <1>0, <1>3, <1>4, Current
  <1>6. /\ th' \in [Threads -> Thread] /\ \A u \in Threads \ {t} : th'[u] = th[u]
        /\ th'[t].at = "sret" /\ th'[t].epc = th[t].epc /\ th'[t].want = th[t].want
    BY SMTT(30), <1>0, Current DEF ret_regs, Thread, Spots
  <1>7. th[t].at = "retregs" /\ sch' = sch
    BY DEF ret_regs
  <1>8. Remembers(th'[t])
    BY <1>0, <1>6, <1>7, Current DEF Remembers, Saved
  <1>9. OnHart(hart'[h], th'[t])
    BY ZenonT(30), <1>0, <1>5, <1>6, <1>7, Current DEF OnHart, UserVector, Masked, UserBound
  <1>10. TrapTypes'
    BY SMTT(30), <1>5, <1>6, <1>7 DEF TrapInv, TrapTypes
  <1> QED BY <1>0, <1>5, <1>6, <1>8, <1>9, <1>10, Current, Moves

(* sret of userret: to the program counter of the trapframe.               *)
LEMMA UserSret ==
  ASSUME TrapInv, NEW h \in Harts, user_sret(h)
  PROVE TrapInv' /\ th'[cur(h)].at = "user" /\ th'[cur(h)].pc = th[cur(h)].want
  <1>0. Running(h)
    BY DEF user_sret
  <1> PICK t \in Threads : t = cur(h)
    BY <1>0, Current
  <1>1. hart[h].sepc = User(th[t].want) /\ hart[h].sepc.pc = th[t].want
    <2>1. hart[h].sepc = User(th[t].want)
      BY <1>0, Current DEF user_sret, Remembers, OnHart, Saved, UserBound
    <2> QED BY SMT, <2>1 DEF User
  <1>2. /\ hart' \in [Harts -> Hart] /\ \A g \in Harts \ {h} : hart'[g] = hart[g]
        /\ hart'[h].thread = hart[h].thread /\ hart'[h].stvec = "uservec"
    <2>1. hart[h].spie \in BOOLEAN
      BY <1>0, Current DEF Hart
    <2> PICK b \in BOOLEAN : b = hart[h].spie
      BY <2>1
    <2>2. hart' = [hart EXCEPT ![h].sie = b]
      BY DEF user_sret
    <2>3. hart[h].stvec = "uservec"
      BY <1>0, Current DEF user_sret, OnHart, UserBound
    <2> QED BY ZenonT(30), <1>0, <2>2, <2>3, Current DEF Hart
  <1>3. th' = [th EXCEPT ![t].at = "user", ![t].pc = th[t].want]
    BY <1>1 DEF user_sret
  <1>4. /\ th' \in [Threads -> Thread] /\ \A u \in Threads \ {t} : th'[u] = th[u]
        /\ th'[t].at = "user" /\ th'[t].pc = th[t].want /\ th'[t].want = th[t].want
    BY SMT, <1>0, <1>3, Current DEF Thread, Spots
  <1>5. Remembers(th'[t]) /\ OnHart(hart'[h], th'[t])
    BY <1>2, <1>4 DEF Remembers, OnHart, UserVector, Masked, Saved, UserBound
  <1> QED BY ZenonT(30), <1>0, <1>2, <1>4, <1>5, Current, Moves DEF TrapInv, TrapTypes, user_sret

(* An interrupt in the kernel.                                             *)
LEMMA KernelIntr ==
  ASSUME TrapInv, NEW h \in Harts, kernel_intr(h) PROVE TrapInv'
  <1>1. \A a \in Spots : Kernel(a) \in Addresses /\ Kernel(a).mode \in Modes
    BY DEF Kernel, Addresses, Modes
  <1>2. CASE Running(h)
    <2> PICK t \in Threads : t = cur(h)
      BY <1>2, Current
    <2> PICK a \in Spots : a = th[t].at
      BY <1>2, Current DEF Thread
    <2>1. a \in {"syscall", "ret"} /\ hart[h].stvec = "kernelvec"
      BY <1>2, Current DEF kernel_intr, Thread, Hart, OnHart, Masked, Spots, UserVector
    <2>2. /\ hart' \in [Harts -> Hart] /\ \A g \in Harts \ {h} : hart'[g] = hart[g]
          /\ hart'[h].thread = hart[h].thread /\ hart'[h].stvec = "kernelvec"
          /\ hart'[h].sepc = Kernel(a) /\ hart'[h].sie = FALSE
      BY ZenonT(30), <1>1, <1>2, <2>1, Trapped DEF kernel_intr
    <2>3. th' = [th EXCEPT ![t].at = "kerneltrap", ![t].from = a]
      BY <1>2 DEF kernel_intr
    <2>4. /\ th' \in [Threads -> Thread] /\ \A u \in Threads \ {t} : th'[u] = th[u]
          /\ th'[t].at = "kerneltrap" /\ th'[t].from = a /\ th'[t].epc = th[t].epc /\ th'[t].want = th[t].want
      BY SMTT(30), <1>2, <2>3, Current DEF Thread, Spots
    <2>5. Remembers(th'[t]) /\ OnHart(hart'[h], th'[t])
      BY <1>2, <2>1, <2>2, <2>4, Current DEF Remembers, OnHart, Masked, Saved, UserBound
    <2> QED BY <1>2, <2>2, <2>4, <2>5, Current, Moves DEF TrapInv, TrapTypes, kernel_intr
  <1>3. CASE ~Running(h)
    <2>1. sch[h].at \in Spots
      BY DEF TrapInv, TrapTypes
    <2>2. /\ hart' \in [Harts -> Hart] /\ \A g \in Harts \ {h} : hart'[g] = hart[g]
          /\ hart'[h].thread = hart[h].thread /\ hart'[h].stvec = hart[h].stvec
      BY ZenonT(30), <1>1, <1>3, <2>1, Trapped DEF kernel_intr
    <2>3. sch' \in [Harts -> [at : Spots, frame : TrapFrame, from : Spots]]
      BY SMT, <1>3, <2>1 DEF TrapInv, TrapTypes, kernel_intr, Spots
    <2> QED BY <1>3, <2>2, <2>3, Loops DEF TrapInv, TrapTypes, kernel_intr
  <1> QED BY <1>2, <1>3

(* What kerneltrap() keeps on its stack.                                   *)
LEMMA SavedFrame ==
  ASSUME TrapInv, NEW h \in Harts PROVE saved(h) \in TrapFrame /\ saved(h).sepc = hart[h].sepc
  BY DEF TrapInv, TrapTypes, Hart, TrapFrame, saved

(* kerneltrap() up to yield() or its end.                                  *)
LEMMA KernelTrap ==
  ASSUME TrapInv, NEW h \in Harts, kerneltrap(h) PROVE TrapInv'
  <1> PICK f \in TrapFrame : f = saved(h)
    BY SMTT(30), SavedFrame
  <1>1. CASE Running(h)
    <2> PICK t \in Threads : t = cur(h)
      BY <1>1, Current
    <2>1. PICK dev \in {"timer", "other"} :
            th' = [th EXCEPT ![t].frame = f, ![t].at = IF dev = "timer" THEN "kyield" ELSE "kret"]
      BY <1>1 DEF kerneltrap
    <2>2. /\ th' \in [Threads -> Thread] /\ \A u \in Threads \ {t} : th'[u] = th[u]
          /\ th'[t].at \in {"kyield", "kret"} /\ th'[t].frame = f
          /\ th'[t].from = th[t].from /\ th'[t].epc = th[t].epc /\ th'[t].want = th[t].want
      BY SMT, <1>1, <2>1, Current DEF Thread, Spots
    <2>3. f.sepc = Kernel(th[t].from) /\ th[t].from \in {"syscall", "ret"}
      BY <1>1, SavedFrame, Current DEF kerneltrap, OnHart, Remembers, UserBound
    <2>4. Remembers(th'[t])
      BY <1>1, <2>2, <2>3, Current DEF kerneltrap, Remembers, Saved
    <2>5. OnHart(hart[h], th'[t])
      BY <1>1, <2>2, Current DEF kerneltrap, OnHart, Masked, UserVector, UserBound
    <2> QED BY <1>1, <2>2, <2>4, <2>5, Moves DEF TrapInv, TrapTypes, kerneltrap, cur
  <1>2. CASE ~Running(h)
    <2>1. sch' = [sch EXCEPT ![h].frame = f, ![h].at = "kret"]
      BY <1>2 DEF kerneltrap
    <2>2. sch' \in [Harts -> [at : Spots, frame : TrapFrame, from : Spots]]
      <3>1. "kret" \in Spots
        BY DEF Spots
      <3> QED BY ZenonT(30), <2>1, <3>1 DEF TrapInv, TrapTypes
    <2> QED BY <1>2, <2>2, Loops DEF TrapInv, TrapTypes, kerneltrap
  <1> QED BY <1>1, <1>2

\* The registers after the sret of kernelvec.
Returned(h, f) == [restored(h, f) EXCEPT !.sie = restored(h, f).spie]

(* The sret of kernelvec, with the registers that kerneltrap() wrote back. *)
LEMMA Restored ==
  ASSUME TrapInv, NEW h \in Harts, NEW f \in TrapFrame, hart' = [hart EXCEPT ![h] = Returned(h, f)]
  PROVE /\ hart' \in [Harts -> Hart] /\ \A g \in Harts \ {h} : hart'[g] = hart[g]
        /\ hart'[h].thread = hart[h].thread /\ hart'[h].stvec = hart[h].stvec
        /\ restored(h, f).sepc = f.sepc
  <1>1. hart \in [Harts -> Hart] /\ f.sepc \in Addresses /\ f.spp \in Modes /\ f.spie \in BOOLEAN
    BY DEF TrapInv, TrapTypes, TrapFrame
  <1> PICK k \in Hart : k = hart[h]
    BY <1>1
  <1> DEFINE k1 == [k EXCEPT !.sepc = f.sepc]
             k2 == [k1 EXCEPT !.spp = f.spp]
             k3 == [k2 EXCEPT !.spie = f.spie]
             k4 == [k3 EXCEPT !.sie = k3.spie]
  <1>2. k1 \in Hart /\ k1.thread = k.thread /\ k1.stvec = k.stvec /\ k1.sepc = f.sepc
    BY <1>1 DEF Hart
  <1>3. k2 \in Hart /\ k2.thread = k.thread /\ k2.stvec = k.stvec /\ k2.sepc = f.sepc
    <2> HIDE DEF k1
    <2> QED BY <1>1, <1>2 DEF Hart
  <1>4. k3 \in Hart /\ k3.thread = k.thread /\ k3.stvec = k.stvec /\ k3.sepc = f.sepc /\ k3.spie \in BOOLEAN
    <2> HIDE DEF k2
    <2> QED BY <1>1, <1>3 DEF Hart
  <1>5. k4 \in Hart /\ k4.thread = k.thread /\ k4.stvec = k.stvec
    <2> HIDE DEF k3
    <2> QED BY <1>4 DEF Hart
  <1>6. restored(h, f) = k3
    BY Zenon DEF restored
  <1>7. Returned(h, f) = k4
    <2> HIDE DEF k3
    <2> QED BY <1>6, Zenon DEF Returned
  <1> HIDE DEF k3, k4
  <1> QED BY <1>1, <1>4, <1>5, <1>6, <1>7

(* The kernel goes on where it was interrupted.                            *)
LEMMA KernelSret ==
  ASSUME TrapInv, NEW h \in Harts, kernel_sret(h)
  PROVE TrapInv' /\ (Running(h) => th'[cur(h)].at = th[cur(h)].from)
  <1>0. NoFrame \in TrapFrame
    BY SMT, TrapConstants DEF NoFrame, TrapFrame, Modes, User, Addresses
  <1>1. CASE Running(h)
    <2> PICK t \in Threads : t = cur(h)
      BY <1>1, Current
    <2> PICK f \in TrapFrame : f = th[t].frame
      BY <1>1, Current DEF Thread
    <2>1. th[t].at = "kret" /\ f.sepc = Kernel(th[t].from) /\ th[t].from \in {"syscall", "ret"}
      BY <1>1, Current DEF kernel_sret, Remembers
    <2>2. hart' = [hart EXCEPT ![h] = Returned(h, f)]
      BY <1>1, Zenon DEF kernel_sret, Returned
    <2>3. /\ hart' \in [Harts -> Hart] /\ \A g \in Harts \ {h} : hart'[g] = hart[g]
          /\ hart'[h].thread = hart[h].thread /\ hart'[h].stvec = hart[h].stvec
          /\ restored(h, f).sepc = f.sepc
      BY ZenonT(30), <2>2, Restored
    <2>4. place(restored(h, f).sepc) = th[t].from
      BY SMT, <2>1, <2>3 DEF place, Kernel
    <2>5. th' = [th EXCEPT ![t].at = th[t].from, ![t].frame = NoFrame]
      BY <1>1, <2>4 DEF kernel_sret
    <2>6. /\ th' \in [Threads -> Thread] /\ \A u \in Threads \ {t} : th'[u] = th[u]
          /\ th'[t].at = th[t].from /\ th'[t].epc = th[t].epc /\ th'[t].want = th[t].want
      BY SMTT(30), <1>0, <1>1, <2>1, <2>5, Current DEF Thread, Spots
    <2>7. Remembers(th'[t])
      BY SMTT(30), <1>1, <2>1, <2>6, Current DEF Remembers, Saved
    <2>8. OnHart(hart'[h], th'[t])
      BY SMTT(30), <1>1, <2>1, <2>3, <2>6, Current DEF OnHart, Masked, UserVector, UserBound
    <2>9. TrapTypes'
      <3>1. sch' = sch
        BY SMTT(30), <1>1 DEF kernel_sret
      <3> QED BY <2>3, <2>6, <3>1 DEF TrapInv, TrapTypes
    <2> QED BY <1>1, <2>3, <2>6, <2>7, <2>8, <2>9, Current, Moves
  <1>2. CASE ~Running(h)
    <2> PICK f \in TrapFrame : f = sch[h].frame
      BY DEF TrapInv, TrapTypes
    <2>1. hart' = [hart EXCEPT ![h] = Returned(h, f)]
      BY <1>2, Zenon DEF kernel_sret, Returned
    <2>2. /\ hart' \in [Harts -> Hart] /\ \A g \in Harts \ {h} : hart'[g] = hart[g]
          /\ hart'[h].thread = hart[h].thread /\ hart'[h].stvec = hart[h].stvec
          /\ restored(h, f).sepc = f.sepc
      BY ZenonT(30), <2>1, Restored
    <2>3. place(f.sepc) \in Spots
      BY DEF TrapFrame, Addresses, place, Spots
    <2>4. sch' = [sch EXCEPT ![h].at = place(f.sepc), ![h].frame = NoFrame] /\ th' = th
      BY <1>2, <2>2 DEF kernel_sret
    <2>5. sch' \in [Harts -> [at : Spots, frame : TrapFrame, from : Spots]]
      <3> DEFINE Loop == [at : Spots, frame : TrapFrame, from : Spots]
      <3> PICK a \in Spots : a = place(f.sepc)
        BY <2>3
      <3> PICK c \in Loop : c = sch[h]
        BY DEF TrapInv, TrapTypes
      <3> DEFINE c1 == [c EXCEPT !.at = a]
                 c2 == [c1 EXCEPT !.frame = NoFrame]
      <3>1. c1 \in Loop
        OBVIOUS
      <3>2. c2 \in Loop
        <4> HIDE DEF c1
        <4> QED BY <1>0, <3>1
      <3>3. sch' = [sch EXCEPT ![h] = c2]
        BY <2>4, Zenon
      <3> HIDE DEF c2, Loop
      <3>4. sch \in [Harts -> Loop]
        BY DEF TrapInv, TrapTypes, Loop
      <3>5. sch' \in [Harts -> Loop]
        BY <3>2, <3>3, <3>4
      <3> QED BY <3>5 DEF Loop
    <2> QED BY SMTT(30), <1>2, <2>2, <2>4, <2>5, Loops DEF TrapInv, TrapTypes
  <1> QED BY <1>1, <1>2

-----------------------------------------------------------------------------
(* The kernel starts in the invariant, with every hart in its scheduler.   *)
LEMMA TrapInitially == TrapInit => TrapInv
  <1> SUFFICES ASSUME TrapInit PROVE TrapInv
    OBVIOUS
  <1>1. User(0) \in Addresses
    BY SMT, TrapConstants DEF User, Addresses
  <1>2. NoFrame \in TrapFrame
    BY <1>1 DEF NoFrame, TrapFrame, Modes
  <1>3. hart \in [Harts -> Hart] /\ \A h \in Harts : ~Running(h) /\ hart[h].stvec = "kernelvec"
    BY ZenonT(30), <1>1 DEF TrapInit, Hart, Modes, Running
  <1>4. th \in [Threads -> Thread] /\ \A t \in Threads : th[t] = New
    BY NewThread DEF TrapInit
  <1>5. sch \in [Harts -> [at : Spots, frame : TrapFrame, from : Spots]]
    BY <1>2 DEF TrapInit, Spots
  <1> QED BY <1>3, <1>4, <1>5, NewThread DEF TrapInv, TrapTypes

(* Every step keeps the invariant.                                         *)
LEMMA TrapStep == TrapInv /\ [TrapNext]_trapvars => TrapInv'
  <1> SUFFICES ASSUME TrapInv, [TrapNext]_trapvars PROVE TrapInv'
    OBVIOUS
  <1>1. CASE UNCHANGED trapvars
    BY SMTT(30), <1>1 DEF trapvars, TrapInv, TrapTypes, Running, cur
  <1>2. CASE TrapNext
    <2> PICK h \in Harts :
          \/ user_step(h) \/ \E c \in {"ecall", "timer", "device", "fault"} : user_trap(h, c)
          \/ usertrap_syscall(h) \/ usertrap_intr(h) \/ usertrap_exit(h) \/ syscall_return(h)
          \/ sched(h) \/ \E t \in Threads : scheduler(h, t)
          \/ ret_off(h) \/ ret_vec(h) \/ ret_regs(h) \/ user_sret(h)
          \/ kernel_intr(h) \/ kerneltrap(h) \/ kernel_sret(h)
      BY <1>2 DEF TrapNext
    <2> QED BY UserStep, UserTrap, UsertrapSyscall, UsertrapIntr, UsertrapExit, SyscallReturn, Yields, Scheduler,
               RetOff, RetVec, RetRegs, UserSret, KernelIntr, KernelTrap, KernelSret
  <1> QED BY <1>1, <1>2

(* With any number of harts and processes, stvec is uservec whenever a     *)
(* process is in user space, and kernelvec wherever the kernel can be      *)
(* interrupted.                                                            *)
THEOREM VectorMatchesModeCorrect == TrapSpec => []VectorMatchesMode
  <1>1. TrapInv => VectorMatchesMode
    <2> SUFFICES ASSUME TrapInv, NEW h \in Harts
                 PROVE /\ Running(h) /\ th[cur(h)].at = "user" => hart[h].stvec = "uservec"
                       /\ ~(Running(h) /\ th[cur(h)].at = "user") /\ hart[h].sie => hart[h].stvec = "kernelvec"
      BY DEF VectorMatchesMode
    <2>1. hart[h].stvec \in {"uservec", "kernelvec"}
      BY DEF TrapInv, TrapTypes, Hart
    <2>2. CASE Running(h)
      BY <2>1, <2>2, Current DEF OnHart, UserVector, UserBound, Masked
    <2>3. CASE ~Running(h)
      BY <2>3 DEF TrapInv
    <2> QED BY <2>2, <2>3
  <1> QED BY <1>1, TrapInitially, TrapStep, PTL DEF TrapSpec

-----------------------------------------------------------------------------
(* A thread about to resume is moved by nothing but the sret.              *)
LEMMA OnlySret ==
  ASSUME TrapInv, NEW h \in Harts, NEW t \in Threads, th[t].at \in {"sret", "kret"},
         \/ user_step(h) \/ \E c \in {"ecall", "timer", "device", "fault"} : user_trap(h, c)
         \/ usertrap_syscall(h) \/ usertrap_intr(h) \/ usertrap_exit(h) \/ syscall_return(h)
         \/ sched(h) \/ \E u \in Threads : scheduler(h, u)
         \/ ret_off(h) \/ ret_vec(h) \/ ret_regs(h) \/ kernel_intr(h) \/ kerneltrap(h)
  PROVE th'[t] = th[t]
  <1>0. th \in [Threads -> Thread]
    BY SMTT(30) DEF TrapInv, TrapTypes
  <1>1. CASE user_step(h) \/ \E c \in {"ecall", "timer", "device", "fault"} : user_trap(h, c)
    BY SMTT(30), <1>0, <1>1 DEF user_step, user_trap
  <1>2. CASE usertrap_syscall(h) \/ usertrap_intr(h) \/ usertrap_exit(h) \/ syscall_return(h)
    BY <1>0, <1>2 DEF usertrap_syscall, usertrap_intr, usertrap_exit, syscall_return
  <1>3. CASE sched(h) \/ \E u \in Threads : scheduler(h, u)
    BY ZenonT(30), <1>0, <1>3 DEF sched, scheduler
  <1>4. CASE ret_off(h) \/ ret_vec(h) \/ ret_regs(h) \/ kerneltrap(h)
    BY <1>0, <1>4 DEF ret_off, ret_vec, ret_regs, kerneltrap
  <1>5. CASE kernel_intr(h)
    <2>1. CASE Running(h)
      <3>1. th[cur(h)].at \notin Masked
        BY <1>5, <2>1, Current DEF kernel_intr, OnHart
      <3> QED BY <1>0, <1>5, <2>1, <3>1 DEF kernel_intr, Masked
    <2>2. CASE ~Running(h)
      BY <1>5, <2>2 DEF kernel_intr
    <2> QED BY <2>1, <2>2
  <1> QED BY <1>1, <1>2, <1>3, <1>4, <1>5

(* A step after which a thread is no longer at an sret is that sret.       *)
LEMMA Resumes ==
  ASSUME TrapInv, [TrapNext]_trapvars, NEW t \in Threads
  PROVE /\ th[t].at = "sret" /\ th'[t].at # "sret" => th'[t].at = "user" /\ th'[t].pc = th[t].want
        /\ th[t].at = "kret" /\ th'[t].at # "kret" => th'[t].at = th[t].from
  <1> SUFFICES ASSUME th[t].at \in {"sret", "kret"}, th'[t] # th[t]
               PROVE /\ th[t].at = "sret" => th'[t].at = "user" /\ th'[t].pc = th[t].want
                     /\ th[t].at = "kret" => th'[t].at = th[t].from
    OBVIOUS
  <1>0. th \in [Threads -> Thread]
    BY DEF TrapInv, TrapTypes
  <1>1. TrapNext
    BY SMTT(30) DEF trapvars
  <1>2. PICK h \in Harts : user_sret(h) \/ kernel_sret(h)
    BY <1>1, OnlySret DEF TrapNext
  <1>3. CASE user_sret(h)
    BY ZenonT(30), <1>0, <1>3, UserSret DEF user_sret
  <1>4. CASE kernel_sret(h)
    <2>1. CASE Running(h)
      BY ZenonT(30), <1>0, <1>4, <2>1, KernelSret DEF kernel_sret
    <2>2. CASE ~Running(h)
      BY <1>4, <2>2 DEF kernel_sret
    <2> QED BY <2>1, <2>2
  <1> QED BY <1>2, <1>3, <1>4

(* With any number of harts and processes, what a trap interrupts goes on  *)
(* where it was, whatever used the hart's sepc and sstatus meanwhile.      *)
THEOREM ResumesWhereInterruptedCorrect == TrapSpec => ResumesWhereInterrupted
  <1>1. TrapInv /\ [TrapNext]_trapvars =>
          [\A t \in Threads : th[t].at = "sret" /\ th'[t].at # "sret" => th'[t].at = "user" /\ th'[t].pc = th[t].want]_trapvars
    BY Resumes
  <1>2. TrapInv /\ [TrapNext]_trapvars =>
          [\A t \in Threads : th[t].at = "kret" /\ th'[t].at # "kret" => th'[t].at = th[t].from]_trapvars
    BY Resumes
  <1> QED BY <1>1, <1>2, TrapInitially, TrapStep, PTL DEF TrapSpec, ResumesWhereInterrupted
=============================================================================
