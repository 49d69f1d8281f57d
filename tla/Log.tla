-------------------------------- MODULE Log --------------------------------
(***************************************************************************)
(* kernel/log.c: the redo log under the file system.                       *)
(*                                                                         *)
(* Processes bracket file-system operations with begin_op()/end_op() and,  *)
(* in between, change cached blocks and hand them to log_write().  The     *)
(* last end_op() commits: the logged blocks are copied to the on-disk log, *)
(* the header is written (the commit point), the blocks are installed at   *)
(* their home locations and the header is erased.  A crash may happen      *)
(* between any two disk writes; the next boot runs recover_from_log().     *)
(*                                                                         *)
(* One action is one critical section of log.lock or one disk write:       *)
(* bwrite() waits for the device, so the writes reach the disk in program  *)
(* order and a crash falls between two of them.  The buffer cache is       *)
(* represented by what log.c relies on: a cached block is not recycled     *)
(* while somebody references it, and any other block may be.               *)
(***************************************************************************)
EXTENDS Integers, Sequences, FiniteSets

CONSTANTS
  LogProcs,      \* processes that issue file-system operations
  Blocks,        \* home blocks the operations write
  Values,        \* what a block can hold
  NoBuf,         \* "not in the buffer cache" / "no block"
  LOGSIZE,       \* param.h
  MAXOPBLOCKS,   \* param.h: what begin_op() reserves for one operation
  NLOG,          \* log.size: blocks of the on-disk log, its header included
  OpBlocks       \* the number of distinct blocks an operation really writes

ASSUME LogSizes ==
  /\ LOGSIZE \in Nat /\ MAXOPBLOCKS \in Nat /\ NLOG \in Nat /\ OpBlocks \in Nat
  /\ 0 < OpBlocks /\ OpBlocks <= MAXOPBLOCKS /\ MAXOPBLOCKS <= LOGSIZE
  /\ Values # {} /\ NoBuf \notin Values /\ NoBuf \notin Blocks
  /\ IsFiniteSet(LogProcs)

VARIABLES
  disk,          \* home blocks on the disk
  dlog,          \* dlog[i]: the disk block log.start + i
  dhead,         \* the header on the disk, as the sequence of its block numbers
  buf,           \* buf[b]: data of the buffer caching b, or NoBuf
  pins,          \* pins[b]: the part of b's refcnt that bpin() added
  lh,            \* log.lh, as the sequence of its block numbers
  outstanding,   \* log.outstanding
  committing,    \* log.committing
  logpc,         \* where each process is
  held,          \* held[p]: the block whose buffer p has locked and modified
  wrote,         \* wrote[p]: blocks p's operation has passed to log_write()
  step,          \* progress of the one thread in commit() or recovery
  tail           \* its loop variable, counted from 1

diskVars == <<disk, dlog, dhead>>
memVars  == <<buf, pins, lh, outstanding, committing>>
procVars == <<logpc, held, wrote>>
logvars == <<disk, dlog, dhead, buf, pins, lh, outstanding, committing,
             logpc, held, wrote, step, tail>>

RecoverySteps == {"read_head", "reinstall", "clear"}
CommitSteps   == {"write_log", "write_head", "install", "erase", "finish"}
Logged        == {lh[i] : i \in 1..Len(lh)}

Recovering == step \in RecoverySteps

\* What bread(b) returns: the cached data, or else the disk's.
bread(b) == IF buf[b] # NoBuf THEN buf[b] ELSE disk[b]

-----------------------------------------------------------------------------
(* A freshly made file system (mkfs writes an empty header), about to boot. *)
LogInit ==
  /\ disk \in [Blocks -> Values]
  /\ dlog \in [1..LOGSIZE -> {CHOOSE v \in Values : TRUE}]
  /\ dhead = << >>
  /\ buf = [b \in Blocks |-> NoBuf]
  /\ pins = [b \in Blocks |-> 0]
  /\ lh = << >>
  /\ outstanding = 0
  /\ committing = FALSE
  /\ logpc = [p \in LogProcs |-> "out"]
  /\ held = [p \in LogProcs |-> NoBuf]
  /\ wrote = [p \in LogProcs |-> {}]
  /\ step = "read_head"
  /\ tail = 1

\* wakeup(&log): everyone asleep in begin_op() tests its condition again.
wakeup_log(f) == [p \in LogProcs |-> IF f[p] = "asleep" THEN "begin" ELSE f[p]]

\* Mutant of MustWait: the reservation forgets the operation that is asking.
MustWaitForgetsSelf ==
  committing \/ Len(lh) + outstanding * MAXOPBLOCKS > LOGSIZE

MustWait ==
  \/ committing
  \/ Len(lh) + (outstanding + 1) * MAXOPBLOCKS > LOGSIZE

begin_op_sleep(p) ==
  /\ ~Recovering
  /\ logpc[p] \in {"out", "begin"}
  /\ MustWait
  /\ logpc' = [logpc EXCEPT ![p] = "asleep"]
  /\ UNCHANGED <<diskVars, memVars, held, wrote, step, tail>>

begin_op_enter(p) ==
  /\ ~Recovering
  /\ logpc[p] \in {"out", "begin"}
  /\ ~MustWait
  /\ outstanding' = outstanding + 1
  /\ logpc' = [logpc EXCEPT ![p] = "op"]
  /\ wrote' = [wrote EXCEPT ![p] = {}]
  /\ UNCHANGED <<diskVars, buf, pins, lh, committing, held, step, tail>>

(* kill() makes a sleeper runnable; begin_op() does not look at p->killed and *)
(* tests its condition again.                                                *)
begin_op_killed(p) ==
  /\ logpc[p] = "asleep"
  /\ logpc' = [logpc EXCEPT ![p] = "begin"]
  /\ UNCHANGED <<diskVars, memVars, held, wrote, step, tail>>

(* bp = bread(...); modify bp->data[].  The buffer's sleep-lock is held until *)
(* the brelse() that follows log_write().                                    *)
modify(p, b, v) ==
  /\ logpc[p] = "op"
  /\ held[p] = NoBuf
  /\ \A q \in LogProcs : held[q] # b
  /\ b \in wrote[p] \/ Cardinality(wrote[p]) < OpBlocks
  /\ buf' = [buf EXCEPT ![b] = v]
  /\ held' = [held EXCEPT ![p] = b]
  /\ UNCHANGED <<diskVars, pins, lh, outstanding, committing, logpc, wrote, step, tail>>

TooBig == Len(lh) >= LOGSIZE \/ Len(lh) >= NLOG - 1

(* log_write() and the brelse() after it; both of its tests panic.           *)
log_write(p) ==
  /\ held[p] # NoBuf
  /\ ~TooBig
  /\ outstanding >= 1
  /\ IF held[p] \in Logged
     THEN UNCHANGED <<lh, pins>>
     ELSE /\ lh' = Append(lh, held[p])
          /\ pins' = [pins EXCEPT ![held[p]] = @ + 1]
  /\ wrote' = [wrote EXCEPT ![p] = @ \union {held[p]}]
  /\ held' = [held EXCEPT ![p] = NoBuf]
  /\ UNCHANGED <<diskVars, buf, outstanding, committing, logpc, step, tail>>

\* What end_op() does under log.lock when it finds itself the last one.
LastOut(p) ==
  /\ logpc[p] = "op"
  /\ held[p] = NoBuf
  /\ ~committing
  /\ outstanding = 1
  /\ outstanding' = 0
  /\ committing' = TRUE
  /\ logpc' = [logpc EXCEPT ![p] = "commit"]
  /\ tail' = 1
  /\ UNCHANGED <<diskVars, buf, pins, lh, held, wrote>>

\* Mutants of end_op_last: commit() takes a log of one block for an empty one,
\* and commit() without its write_log().
end_op_last_skips_one(p) ==
  /\ LastOut(p)
  /\ step' = IF Len(lh) <= 1 THEN "finish" ELSE "write_log"

end_op_last_no_write_log(p) ==
  /\ LastOut(p)
  /\ step' = IF lh = << >> THEN "finish" ELSE "write_head"

end_op_last(p) ==
  /\ LastOut(p)
  /\ step' = IF lh = << >> THEN "finish" ELSE "write_log"

end_op_others(p) ==
  /\ logpc[p] = "op"
  /\ held[p] = NoBuf
  /\ ~committing
  /\ outstanding # 1
  /\ outstanding' = outstanding - 1
  /\ logpc' = wakeup_log([logpc EXCEPT ![p] = "out"])
  /\ UNCHANGED <<diskVars, buf, pins, lh, committing, held, wrote, step, tail>>

-----------------------------------------------------------------------------
(* commit(), one disk write per action.                                    *)

\* The loop control of write_log() and install_trans().
advance(here, next) ==
  IF tail < Len(lh) THEN step' = here /\ tail' = tail + 1
                    ELSE step' = next /\ tail' = 1

write_log ==
  /\ step = "write_log"
  /\ LET b == lh[tail] IN
     /\ dlog' = [dlog EXCEPT ![tail] = bread(b)]
     /\ buf' = [buf EXCEPT ![b] = bread(b)]
  /\ advance("write_log", "write_head")
  /\ UNCHANGED <<disk, dhead, pins, lh, outstanding, committing, procVars>>

write_head ==
  /\ step = "write_head"
  /\ dhead' = lh
  /\ step' = "install"
  /\ UNCHANGED <<disk, dlog, memVars, procVars, tail>>

install_trans ==
  /\ step = "install"
  /\ LET b == lh[tail] IN
     /\ buf' = [buf EXCEPT ![b] = dlog[tail]]
     /\ disk' = [disk EXCEPT ![b] = dlog[tail]]
     /\ pins' = [pins EXCEPT ![b] = @ - 1]
  /\ advance("install", "erase")
  /\ UNCHANGED <<dlog, dhead, lh, outstanding, committing, procVars>>

erase_head ==
  /\ step = "erase"
  /\ lh' = << >>
  /\ dhead' = << >>
  /\ step' = "finish"
  /\ UNCHANGED <<disk, dlog, buf, pins, outstanding, committing, procVars, tail>>

\* Mutant of commit_done: the wakeup(&log) after the commit is missing.
commit_done_silent(p) ==
  /\ logpc[p] = "commit"
  /\ step = "finish"
  /\ committing' = FALSE
  /\ logpc' = [logpc EXCEPT ![p] = "out"]
  /\ step' = "idle"
  /\ UNCHANGED <<diskVars, buf, pins, lh, outstanding, held, wrote, tail>>

commit_done(p) ==
  /\ logpc[p] = "commit"
  /\ step = "finish"
  /\ committing' = FALSE
  /\ logpc' = wakeup_log([logpc EXCEPT ![p] = "out"])
  /\ step' = "idle"
  /\ UNCHANGED <<diskVars, buf, pins, lh, outstanding, held, wrote, tail>>

-----------------------------------------------------------------------------
(* recover_from_log(), run by the first process before any other exists.   *)

read_head ==
  /\ step = "read_head"
  /\ lh' = dhead
  /\ step' = IF dhead = << >> THEN "clear" ELSE "reinstall"
  /\ tail' = 1
  /\ UNCHANGED <<diskVars, buf, pins, outstanding, committing, procVars>>

reinstall_trans ==
  /\ step = "reinstall"
  /\ LET b == lh[tail] IN
     /\ buf' = [buf EXCEPT ![b] = dlog[tail]]
     /\ disk' = [disk EXCEPT ![b] = dlog[tail]]
  /\ advance("reinstall", "clear")
  /\ UNCHANGED <<dlog, dhead, pins, lh, outstanding, committing, procVars>>

clear_head ==
  /\ step = "clear"
  /\ lh' = << >>
  /\ dhead' = << >>
  /\ step' = "idle"
  /\ UNCHANGED <<disk, dlog, buf, pins, outstanding, committing, procVars, tail>>

-----------------------------------------------------------------------------
(* The buffer cache: a reader brings a block in, bget() recycles a buffer  *)
(* nobody references.                                                      *)
Load(b) ==
  /\ ~Recovering
  /\ buf[b] = NoBuf
  /\ buf' = [buf EXCEPT ![b] = disk[b]]
  /\ UNCHANGED <<diskVars, pins, lh, outstanding, committing, procVars, step, tail>>

Recycle(b) ==
  /\ buf[b] # NoBuf
  /\ pins[b] = 0
  /\ \A p \in LogProcs : held[p] # b
  /\ buf' = [buf EXCEPT ![b] = NoBuf]
  /\ UNCHANGED <<diskVars, pins, lh, outstanding, committing, procVars, step, tail>>

(* Power is lost: memory is gone, the disk is as the last write left it.    *)
Crash ==
  /\ buf' = [b \in Blocks |-> NoBuf]
  /\ pins' = [b \in Blocks |-> 0]
  /\ lh' = << >>
  /\ outstanding' = 0
  /\ committing' = FALSE
  /\ logpc' = [p \in LogProcs |-> "out"]
  /\ held' = [p \in LogProcs |-> NoBuf]
  /\ wrote' = [p \in LogProcs |-> {}]
  /\ step' = "read_head"
  /\ tail' = 1
  /\ UNCHANGED diskVars

-----------------------------------------------------------------------------
ProcNext(p) ==
  \/ begin_op_sleep(p)
  \/ begin_op_enter(p)
  \/ begin_op_killed(p)
  \/ \E b \in Blocks, v \in Values : modify(p, b, v)
  \/ log_write(p)
  \/ end_op_last(p)
  \/ end_op_others(p)
  \/ commit_done(p)

CommitNext == write_log \/ write_head \/ install_trans \/ erase_head

RecoverNext == read_head \/ reinstall_trans \/ clear_head

LogNext ==
  \/ \E p \in LogProcs : ProcNext(p)
  \/ CommitNext
  \/ RecoverNext
  \/ \E b \in Blocks : Load(b) \/ Recycle(b)
  \/ Crash

LogSpec == LogInit /\ [][LogNext]_logvars

(***************************************************************************)
(* Fairness.  A runnable process is eventually scheduled, so the steps of  *)
(* begin_op(), log_write(), commit() and recovery that are enabled and     *)
(* stay enabled are taken.  Strong fairness of end_op() says that every    *)
(* operation is a finite piece of code: it cannot rewrite its blocks for   *)
(* ever.                                                                   *)
(***************************************************************************)
LogFairness ==
  /\ \A p \in LogProcs :
       /\ WF_logvars(logpc[p] = "begin" /\ (begin_op_sleep(p) \/ begin_op_enter(p)))
       /\ WF_logvars(log_write(p) \/ commit_done(p))
       /\ SF_logvars(end_op_last(p) \/ end_op_others(p))
  /\ WF_logvars(CommitNext \/ RecoverNext)

LogFairSpec == LogSpec /\ LogFairness

-----------------------------------------------------------------------------
Steps == {"idle"} \union RecoverySteps \union CommitSteps

LogTypeOK ==
  /\ disk \in [Blocks -> Values]
  /\ dlog \in [1..LOGSIZE -> Values]
  /\ dhead \in Seq(Blocks)
  /\ buf \in [Blocks -> Values \union {NoBuf}]
  /\ pins \in [Blocks -> Nat]
  /\ lh \in Seq(Blocks)
  /\ outstanding \in Nat
  /\ committing \in BOOLEAN
  /\ logpc \in [LogProcs -> {"out", "begin", "asleep", "op", "commit"}]
  /\ held \in [LogProcs -> Blocks \union {NoBuf}]
  /\ wrote \in [LogProcs -> SUBSET Blocks]
  /\ step \in Steps
  /\ tail \in 1..LOGSIZE

\* The blocks d with the log blocks dl, homes h, replayed over them.
Replay(h, dl, d) ==
  [b \in Blocks |->
     IF \E i \in 1..Len(h) : h[i] = b
     THEN dl[CHOOSE i \in 1..Len(h) : h[i] = b]
     ELSE d[b]]

\* The file system a crash now would leave behind, the one the running kernel
\* sees through the buffer cache, and the operations under way.
AfterRecovery == Replay(dhead, dlog, disk)
InMemory == [b \in Blocks |-> bread(b)]
Current == IF Recovering THEN AfterRecovery ELSE InMemory
InOp == {p \in LogProcs : logpc[p] = "op"}

\* log.c:12-16, "there is never any reasoning required about whether a commit
\* might write an uncommitted system call's updates to disk": log.c implements
\* the transactional disk.  The durable image changes in one step, the header
\* write of commit(), only when no operation is under way; a crash, at any
\* disk write of commit() or of recovery itself, loses exactly what was not
\* committed.
Txn == INSTANCE TxnDisk WITH
         Procs <- LogProcs, durable <- AfterRecovery, current <- Current, active <- InOp
TransactionalDisk == Txn!Spec

\* log.c:197, the panic of log_write(): begin_op()'s reservation leaves room
\* for every block that the admitted operations still write, in lh.block[]
\* and in the on-disk log.
ReservationSuffices == \A p \in LogProcs : held[p] # NoBuf => ~TooBig

\* log.c:137 and log.c:198, the other two panics: an operation never finds
\* log.committing set, and log_write() is always inside a transaction.
NoOpDuringCommit ==
  \A p \in LogProcs : logpc[p] = "op" => ~committing /\ outstanding >= 1

\* end_op() by the last operation returns only when everything is durable:
\* with no operation and no commit under way, a crash loses nothing.
QuietIsDurable ==
  step = "idle" /\ outstanding = 0 => AfterRecovery = InMemory

\* bpin() and bunpin() match across log_write(), absorption, install_trans(0)
\* and install_trans(1): a logged block has exactly one pin until it is
\* installed, and no pin survives the commit (a leaked pin would take its
\* buffer out of the cache for good).
PinsMatchLog ==
  \A b \in Blocks :
    pins[b] = IF ~Recovering /\ step # "erase"
                 /\ \E i \in 1..Len(lh) : lh[i] = b /\ (step = "install" => i >= tail)
              THEN 1 ELSE 0

\* begin_op() sleeping on &log is always woken: by the commit it waits for or
\* by an operation returning its reservation.
SleeperWoken == \A p \in LogProcs : logpc[p] = "asleep" ~> logpc[p] # "asleep"
=============================================================================
