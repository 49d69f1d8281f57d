-------------------------------- MODULE Trap --------------------------------
(***************************************************************************)
(* kernel/trap.c: usertrap(), usertrapret() and kerneltrap(), with the trap*)
(* registers of the hardware, on several harts between which the scheduler *)
(* moves the processes.                                                    *)
(*                                                                         *)
(* Each hart has one sepc, one sstatus and one stvec, which the next trap, *)
(* or another process on the same hart, overwrites.  A user program is its *)
(* program counter; the kernel's code is a handful of places.              *)
(***************************************************************************)
EXTENDS Naturals, Sequences

CONSTANTS
  Harts,
  Threads,     \* processes
  Sched,       \* the scheduler of a hart, running when no process does
  PCs          \* bound: user program counters are 0..PCs - 1, and wrap

ASSUME TrapConstants == Sched \notin Threads /\ PCs \in Nat \ {0}

VARIABLES
  hart,        \* thread, sepc, spp, spie, sie (interrupts on), stvec
  th,          \* at (place), epc (trapframe->epc), intena (of its last sched()),
               \* frame (kerneltrap()'s locals), pc; history: want, the pc to resume
               \* at, and from, the place that was interrupted
  sch          \* the same of the schedulers: at, frame and from

trapvars == <<hart, th, sch>>

User(n) == [mode |-> "U", pc |-> n]
Kernel(a) == [mode |-> "S", pc |-> a]
NoFrame == [sepc |-> User(0), spp |-> "U", spie |-> FALSE]
Running(h) == hart[h].thread # Sched
cur(h) == hart[h].thread

\* A process that forkret() is about to send to user space: forkret()'s release()
\* turns on the interrupts that the scheduler had on.
New == [at |-> "ret", epc |-> User(0), intena |-> TRUE, frame |-> NoFrame, pc |-> 0, want |-> 0, from |-> "ret"]

TrapInit ==
  /\ hart = [h \in Harts |-> [thread |-> Sched, sepc |-> User(0), spp |-> "S", spie |-> FALSE,
                              sie |-> TRUE, stvec |-> "kernelvec"]]
  /\ th = [t \in Threads |-> New]
  /\ sch = [h \in Harts |-> [at |-> "loop", frame |-> NoFrame, from |-> "loop"]]

-----------------------------------------------------------------------------
\* What the hardware does: a trap, and sret.  It jumps to whatever stvec holds;
\* that this is the handler for where the hart was is VectorMatchesMode.
trapped(h, pc) ==
  [hart[h] EXCEPT !.sepc = pc, !.spp = pc.mode, !.spie = hart[h].sie, !.sie = FALSE]

user_step(h) ==
  LET t == cur(h) IN
  /\ Running(h) /\ th[t].at = "user"
  /\ th' = [th EXCEPT ![t].pc = (@ + 1) % PCs, ![t].want = (@ + 1) % PCs]
  /\ UNCHANGED <<hart, sch>>

\* ecall, an interrupt or a fault in user space; uservec saves the registers.
user_trap(h, cause) ==
  LET t == cur(h) IN
  /\ Running(h) /\ th[t].at = "user"
  /\ hart' = [hart EXCEPT ![h] = trapped(h, User(th[t].pc))]
  /\ th' = [th EXCEPT ![t].at = cause, ![t].want = IF cause = "ecall" THEN (@ + 1) % PCs ELSE @]
  /\ UNCHANGED sch

\* usertrap(): stvec, epc, then by cause.  A system call turns interrupts on
\* only when sepc has been saved; a fault, or p->killed, ends the process.
usertrap_syscall(h) ==
  LET t == cur(h) IN
  /\ Running(h) /\ th[t].at = "ecall"
  /\ hart' = [hart EXCEPT ![h].stvec = "kernelvec", ![h].sie = TRUE]
  /\ th' = [th EXCEPT ![t].epc = User((hart[h].sepc.pc + 1) % PCs), ![t].at = "syscall"]
  /\ UNCHANGED sch
usertrap_intr(h) ==
  LET t == cur(h) IN
  /\ Running(h) /\ th[t].at \in {"timer", "device"}
  /\ hart' = [hart EXCEPT ![h].stvec = "kernelvec"]
  /\ th' = [th EXCEPT ![t].epc = hart[h].sepc, ![t].at = IF @ = "timer" THEN "yield" ELSE "ret"]
  /\ UNCHANGED sch
usertrap_exit(h) ==
  LET t == cur(h) IN
  /\ Running(h) /\ th[t].at \in {"fault", "ecall", "timer", "device", "syscall"}
  /\ hart' = [hart EXCEPT ![h].stvec = "kernelvec", ![h].thread = Sched, ![h].sie = TRUE]
  /\ th' = [th EXCEPT ![t] = New]
  /\ UNCHANGED sch

syscall_return(h) ==
  /\ Running(h) /\ th[cur(h)].at = "syscall"
  /\ th' = [th EXCEPT ![cur(h)].at = "ret"]
  /\ UNCHANGED <<hart, sch>>

\* sched(): from sleep() in a system call, or from yield() in a trap handler.
\* The scheduler turns interrupts on in its loop.
sched(h) ==
  LET t == cur(h) IN
  /\ Running(h) /\ th[t].at \in {"syscall", "yield", "kyield"}
  /\ th' = [th EXCEPT ![t].intena = hart[h].sie,
                      ![t].at = CASE @ = "yield" -> "ret" [] @ = "kyield" -> "kret" [] OTHER -> @]
  /\ hart' = [hart EXCEPT ![h].thread = Sched, ![h].sie = TRUE]
  /\ UNCHANGED sch

scheduler(h, t) ==
  /\ ~Running(h) /\ sch[h].at = "loop"
  /\ \A g \in Harts : hart[g].thread # t
  /\ th[t].at # "user"
  /\ hart' = [hart EXCEPT ![h].thread = t, ![h].sie = th[t].intena]
  /\ UNCHANGED <<th, sch>>

\* usertrapret().
ret_on(h) ==
  /\ Running(h) /\ th[cur(h)].at = "ret"
  /\ th' = [th EXCEPT ![cur(h)].at = "retvec"]
  /\ UNCHANGED <<hart, sch>>
ret_off(h) ==
  /\ Running(h) /\ th[cur(h)].at = "ret"
  /\ hart' = [hart EXCEPT ![h].sie = FALSE]
  /\ th' = [th EXCEPT ![cur(h)].at = "retvec"]
  /\ UNCHANGED sch
\* Mutant of ret_vec: w_stvec() is forgotten.
ret_vec_forgotten(h) ==
  /\ Running(h) /\ th[cur(h)].at = "retvec"
  /\ th' = [th EXCEPT ![cur(h)].at = "retregs"]
  /\ UNCHANGED <<hart, sch>>
ret_vec(h) ==
  /\ Running(h) /\ th[cur(h)].at = "retvec"
  /\ hart' = [hart EXCEPT ![h].stvec = "uservec"]
  /\ th' = [th EXCEPT ![cur(h)].at = "retregs"]
  /\ UNCHANGED sch
ret_regs(h) ==
  /\ Running(h) /\ th[cur(h)].at = "retregs"
  /\ hart' = [hart EXCEPT ![h].spp = "U", ![h].spie = TRUE, ![h].sepc = th[cur(h)].epc]
  /\ th' = [th EXCEPT ![cur(h)].at = "sret"]
  /\ UNCHANGED sch
user_sret(h) ==
  /\ Running(h) /\ th[cur(h)].at = "sret"
  /\ hart' = [hart EXCEPT ![h].sie = hart[h].spie]
  /\ th' = [th EXCEPT ![cur(h)].at = "user", ![cur(h)].pc = hart[h].sepc.pc]
  /\ UNCHANGED sch

\* An interrupt in the kernel; kernelvec calls kerneltrap(), whose locals are
\* on the stack of the process or of the scheduler.
kernel_intr(h) ==
  /\ hart[h].sie
  /\ IF Running(h)
     THEN LET a == th[cur(h)].at IN
          /\ a # "user"
          /\ hart' = [hart EXCEPT ![h] = trapped(h, Kernel(a))]
          /\ th' = [th EXCEPT ![cur(h)].at = "kerneltrap", ![cur(h)].from = a]
          /\ UNCHANGED sch
     ELSE /\ hart' = [hart EXCEPT ![h] = trapped(h, Kernel(sch[h].at))]
          /\ sch' = [sch EXCEPT ![h].at = "kerneltrap", ![h].from = sch[h].at]
          /\ UNCHANGED th

saved(h) == [sepc |-> hart[h].sepc, spp |-> hart[h].spp, spie |-> hart[h].spie]
kerneltrap(h) ==
  IF Running(h)
  THEN /\ th[cur(h)].at = "kerneltrap"
       /\ \E dev \in {"timer", "other"} :
            th' = [th EXCEPT ![cur(h)].frame = saved(h), ![cur(h)].at = IF dev = "timer" THEN "kyield" ELSE "kret"]
       /\ UNCHANGED <<hart, sch>>
  ELSE /\ sch[h].at = "kerneltrap"
       /\ sch' = [sch EXCEPT ![h].frame = saved(h), ![h].at = "kret"]
       /\ UNCHANGED <<hart, th>>

\* w_sepc(), w_sstatus(), and the sret of kernelvec.
restored_not(h, f) == hart[h]
restored(h, f) == [hart[h] EXCEPT !.sepc = f.sepc, !.spp = f.spp, !.spie = f.spie]
place(pc) == IF pc.mode = "S" THEN pc.pc ELSE "user"
kernel_sret(h) ==
  LET f == IF Running(h) THEN th[cur(h)].frame ELSE sch[h].frame
      r == restored(h, f) IN
  /\ (IF Running(h) THEN th[cur(h)].at ELSE sch[h].at) = "kret"
  /\ hart' = [hart EXCEPT ![h] = [r EXCEPT !.sie = r.spie]]
  /\ IF Running(h)
     THEN th' = [th EXCEPT ![cur(h)].at = place(r.sepc), ![cur(h)].frame = NoFrame] /\ UNCHANGED sch
     ELSE sch' = [sch EXCEPT ![h].at = place(r.sepc), ![h].frame = NoFrame] /\ UNCHANGED th

TrapNext ==
  \E h \in Harts :
    \/ user_step(h) \/ \E c \in {"ecall", "timer", "device", "fault"} : user_trap(h, c)
    \/ usertrap_syscall(h) \/ usertrap_intr(h) \/ usertrap_exit(h) \/ syscall_return(h)
    \/ sched(h) \/ \E t \in Threads : scheduler(h, t)
    \/ ret_off(h) \/ ret_vec(h) \/ ret_regs(h) \/ user_sret(h)
    \/ kernel_intr(h) \/ kerneltrap(h) \/ kernel_sret(h)

-----------------------------------------------------------------------------
(* A process always goes on where it was: in user space at the instruction   *)
(* that was interrupted, or after its ecall, and in the kernel at the place  *)
(* of the interrupt, whatever traps and processes used the hart's sepc and   *)
(* sstatus meanwhile, on whichever hart it resumes.                          *)
ResumesWhereInterrupted ==
  /\ [][\A t \in Threads : th[t].at = "sret" /\ th'[t].at # "sret" => th'[t].at = "user" /\ th'[t].pc = th[t].want]_trapvars
  /\ [][\A t \in Threads : th[t].at = "kret" /\ th'[t].at # "kret" => th'[t].at = th[t].from]_trapvars

(* trap.c:35 and :81-85, stvec is the handler for where the hart is: uservec *)
(* whenever a process is in user space, whose page table does not map the    *)
(* kernel, and kernelvec wherever the kernel has interrupts on, before and   *)
(* after the change in usertrapret() and in every process that a hart takes  *)
(* up from another one.                                                      *)
VectorMatchesMode ==
  \A h \in Harts :
    IF Running(h) /\ th[cur(h)].at = "user" THEN hart[h].stvec = "uservec"
    ELSE hart[h].sie => hart[h].stvec = "kernelvec"
=============================================================================
