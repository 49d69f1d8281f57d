-------------------------------- MODULE Clock -------------------------------
(***************************************************************************)
(* The clock: clockintr() in kernel/trap.c, sys_sleep() in kernel/sysproc.c*)
(* and the part of kill() in kernel/proc.c that concerns a sleeper.        *)
(*                                                                         *)
(* ticks is a C uint that wraps at TickUint.  sys_sleep() holds tickslock  *)
(* from its test of ticks until sleep() has marked the process SLEEPING,   *)
(* so no tick comes in between; kill() takes p->lock only, and does.       *)
(***************************************************************************)
EXTENDS Naturals

CONSTANTS
  Sleepers,
  Nobody,       \* tickslock is free
  TickUint,     \* 2^32
  MaxSleep,     \* bound on sys_sleep()'s argument
  Lag           \* bound on the ticks for which a runnable process waits for a CPU

ASSUME ClockConstants ==
  TickUint \in Nat /\ MaxSleep \in Nat /\ Lag \in Nat /\ MaxSleep + Lag < TickUint /\ Nobody \notin Sleepers

VARIABLES
  ticks, tickslock,
  sl            \* the sleepers: place, n, ticks0, p->killed; history: the ticks
                \* since the call

clockvars == <<ticks, tickslock, sl>>

Awake == [pc |-> "out", n |-> 0, ticks0 |-> 0, killed |-> FALSE, since |-> 0]

ClockInit ==
  /\ ticks \in 0..TickUint - 1
  /\ tickslock = Nobody
  /\ sl = [p \in Sleepers |-> Awake]

\* Unsigned, so that the difference is right after ticks has wrapped.
elapsed_signed(p) == IF ticks >= sl[p].ticks0 THEN ticks - sl[p].ticks0 ELSE TickUint
elapsed(p) == (ticks + TickUint - sl[p].ticks0) % TickUint

sys_sleep(p) ==
  /\ tickslock = Nobody
  /\ \/ /\ sl[p].pc = "out"
        /\ \E n \in 0..MaxSleep :
             sl' = [sl EXCEPT ![p].pc = "test", ![p].n = n, ![p].ticks0 = ticks, ![p].since = 0]
     \/ sl[p].pc = "woken" /\ sl' = [sl EXCEPT ![p].pc = "test"]
  /\ tickslock' = p
  /\ UNCHANGED ticks

\* while (ticks - ticks0 < n), then killed().
sleep_test(p) ==
  /\ sl[p].pc = "test" /\ tickslock = p
  /\ IF elapsed(p) >= sl[p].n
     THEN sl' = [sl EXCEPT ![p].pc = "slept"] /\ tickslock' = Nobody
     ELSE IF sl[p].killed
          THEN sl' = [sl EXCEPT ![p].pc = "-1"] /\ tickslock' = Nobody
          ELSE sl' = [sl EXCEPT ![p].pc = "sleep"] /\ UNCHANGED tickslock
  /\ UNCHANGED ticks

\* sleep(&ticks, &tickslock).
sleep_block(p) ==
  /\ sl[p].pc = "sleep"
  /\ sl' = [sl EXCEPT ![p].pc = "asleep"]
  /\ tickslock' = Nobody
  /\ UNCHANGED ticks

\* Back in user space; a killed process exits, and its slot is used again.
sleep_return(p) ==
  /\ sl[p].pc \in {"slept", "-1"}
  /\ sl' = [sl EXCEPT ![p] = Awake]
  /\ UNCHANGED <<ticks, tickslock>>

\* CPU 0's timer interrupt, with wakeup(&ticks).
clockintr_silent ==
  /\ tickslock = Nobody
  /\ ticks' = (ticks + 1) % TickUint
  /\ UNCHANGED <<tickslock, sl>>
clockintr ==
  /\ tickslock = Nobody
  /\ \A p \in Sleepers : sl[p].pc = "woken" => sl[p].since < MaxSleep + Lag
  /\ ticks' = (ticks + 1) % TickUint
  /\ sl' = [p \in Sleepers |->
              [sl[p] EXCEPT !.pc = IF @ = "asleep" THEN "woken" ELSE @,
                            !.since = IF sl[p].pc \in {"asleep", "woken"} THEN @ + 1 ELSE @]]
  /\ UNCHANGED tickslock

\* kill() wakes a process only if it is asleep already.
kill_sleeper(p) ==
  /\ sl[p].pc # "out" /\ ~sl[p].killed
  /\ sl' = [sl EXCEPT ![p].killed = TRUE, ![p].pc = IF @ = "asleep" THEN "woken" ELSE @]
  /\ UNCHANGED <<ticks, tickslock>>

ClockNext ==
  \/ clockintr
  \/ \E p \in Sleepers : sys_sleep(p) \/ sleep_test(p) \/ sleep_block(p) \/ sleep_return(p) \/ kill_sleeper(p)

-----------------------------------------------------------------------------
(* sleep(n) returns 0 only after n ticks, wherever ticks wraps during the    *)
(* call, and then without waiting for more.                                  *)
SleepsExactly ==
  \A p \in Sleepers :
    /\ sl[p].pc = "slept" => sl[p].since >= sl[p].n
    /\ sl[p].pc = "sleep" => sl[p].since < sl[p].n

(* Every sleep() ends: a tick between the test of ticks and sleep() is not  *)
(* missed, and a kill() that falls between the killed() test and sleep()     *)
(* wakes nobody, but the next tick does, and the test is made again.         *)
SleepEnds == \A p \in Sleepers : (sl[p].pc # "out") ~> (sl[p].pc \in {"slept", "-1"})
=============================================================================
