-------------------------------- MODULE Pipe --------------------------------
(***************************************************************************)
(* kernel/pipe.c: one pipe, the processes that have its ends open, and     *)
(* the closing of the ends by kernel/file.c.                               *)
(*                                                                         *)
(* pi->lock is a variable and one action is one iteration of a loop under  *)
(* it, since a kill() on another CPU can fall between two of them.         *)
(* nread and nwrite are C uints: they wrap at UINT.  sleep() and wakeup()  *)
(* are atomic with the lock, as module Proc justifies.                     *)
(***************************************************************************)
EXTENDS Integers, Sequences, FiniteSets

CONSTANTS
  Procs,
  NoProc,       \* the holder of pi->lock when it is free
  Bytes,
  PIPESIZE,
  UINT,         \* 2^32: where nread and nwrite wrap
  MAXN          \* bound on the length of one read() or write()

ASSUME PipeConstants ==
  /\ PIPESIZE \in Nat \ {0} /\ MAXN \in Nat
  /\ UINT \in Nat /\ UINT > PIPESIZE /\ UINT % PIPESIZE = 0
  /\ Bytes # {} /\ NoProc \notin Procs

VARIABLES
  lock, data, nread, nwrite, readopen, writeopen,   \* struct pipe
  freed,        \* kfree(pi) has been called
  readers, writers,   \* the processes that have each end open: f->ref
  pc,
  left,         \* n - i of piperead() and pipewrite()
  ch,           \* piperead()'s ch, of the reader that was last in the loop
  killed,
  cut           \* history: a pipewrite() was killed with bytes in the pipe

pipe == <<lock, data, nread, nwrite, readopen, writeopen, freed>>
ends == <<readers, writers>>
vars == <<lock, data, nread, nwrite, readopen, writeopen, freed,
          readers, writers, pc, left, ch, killed, cut>>

(* After pipealloc() and the fork()s that share the ends.                   *)
Init ==
  /\ lock = NoProc
  /\ data \in [0..PIPESIZE - 1 -> Bytes]
  /\ nread = 0 /\ nwrite = 0
  /\ readopen = TRUE /\ writeopen = TRUE
  /\ freed = FALSE
  /\ readers \in (SUBSET Procs) \ {{}}
  /\ writers \in (SUBSET Procs) \ {{}}
  /\ pc = [p \in Procs |-> "out"]
  /\ left = [p \in Procs |-> 0]
  /\ ch \in Bytes
  /\ killed = [p \in Procs |-> FALSE]
  /\ cut = FALSE

\* wakeup(chan), with p going on to a: sleepers at location s get ready to
\* take pi->lock again.
wakeup(s, p, a) ==
  pc' = [q \in Procs |->
           CASE q = p -> a
             [] q # p /\ pc[q] = s -> IF s = "sleep_nread" THEN "again_read" ELSE "again_write"
             [] OTHER -> pc[q]]

empty == nread = nwrite

\* Mutant of full: one byte too many fits.
full_late == nwrite = (nread + PIPESIZE + 1) % UINT

full == nwrite = (nread + PIPESIZE) % UINT

\* p is inside the critical section, at location a.
in(p, a) == lock = p /\ pc[p] = a

\* acquire(&pi->lock), on entry and at the end of sleep().
enter(p, a) ==
  /\ lock = NoProc
  /\ lock' = p
  /\ pc' = [pc EXCEPT ![p] = a]
  /\ UNCHANGED <<data, nread, nwrite, readopen, writeopen, freed, ends, ch, killed, cut>>

\* release(&pi->lock) and return.
return(p) ==
  /\ lock' = NoProc
  /\ left' = [left EXCEPT ![p] = 0]
  /\ UNCHANGED <<data, nread, nwrite, readopen, writeopen, freed, ends, ch, killed>>

-----------------------------------------------------------------------------
pipewrite(p) ==
  /\ pc[p] = "out" /\ p \in writers
  /\ \E n \in 0..MAXN : left' = [left EXCEPT ![p] = n]
  /\ enter(p, "write")

(* if (pi->readopen == 0 || killed(pr)) return -1, without a wakeup.        *)
write_aborts(p) ==
  /\ in(p, "write")
  /\ left[p] > 0
  /\ ~readopen \/ killed[p]
  /\ return(p)
  /\ pc' = [pc EXCEPT ![p] = "out"]
  /\ cut' = (cut \/ ~empty)

\* kill() may come after killed(pr) and before sleep(): p->killed is set, and
\* p goes to sleep all the same.
late_kill(p) == \E k \in BOOLEAN : killed' = [killed EXCEPT ![p] = k]

(* The pipe is full: wake the readers, sleep(&pi->nwrite, &pi->lock).       *)
write_sleeps(p) ==
  /\ in(p, "write")
  /\ left[p] > 0 /\ readopen /\ ~killed[p]
  /\ full
  /\ wakeup("sleep_nread", p, "sleep_nwrite")
  /\ lock' = NoProc
  /\ late_kill(p)
  /\ UNCHANGED <<data, nread, nwrite, readopen, writeopen, freed, ends, left, ch, cut>>

write_byte(p) ==
  /\ in(p, "write")
  /\ left[p] > 0 /\ readopen /\ ~killed[p]
  /\ ~full
  /\ \E v \in Bytes : data' = [data EXCEPT ![nwrite % PIPESIZE] = v]
  /\ nwrite' = (nwrite + 1) % UINT
  /\ left' = [left EXCEPT ![p] = @ - 1]
  /\ UNCHANGED <<lock, nread, readopen, writeopen, freed, ends, pc, ch, killed, cut>>

\* Mutant of write_ends: the readers are not woken.
write_ends_silent(p) ==
  /\ in(p, "write")
  /\ left[p] > 0 => readopen /\ ~killed[p] /\ ~full
  /\ pc' = [pc EXCEPT ![p] = "out"]
  /\ return(p)
  /\ UNCHANGED cut

(* All is written, or copyin() fails: wakeup(&pi->nread) and return i.      *)
write_ends(p) ==
  /\ in(p, "write")
  /\ left[p] > 0 => readopen /\ ~killed[p] /\ ~full
  /\ wakeup("sleep_nread", p, "out")
  /\ return(p)
  /\ UNCHANGED cut

-----------------------------------------------------------------------------
piperead(p) ==
  /\ pc[p] = "out" /\ p \in readers
  /\ \E n \in 0..MAXN : left' = [left EXCEPT ![p] = n]
  /\ enter(p, "read")

read_aborts(p) ==
  /\ in(p, "read")
  /\ empty /\ writeopen
  /\ killed[p]
  /\ return(p)
  /\ pc' = [pc EXCEPT ![p] = "out"]
  /\ UNCHANGED cut

read_sleeps(p) ==
  /\ in(p, "read")
  /\ empty /\ writeopen
  /\ ~killed[p]
  /\ pc' = [pc EXCEPT ![p] = "sleep_nread"]
  /\ lock' = NoProc
  /\ late_kill(p)
  /\ UNCHANGED <<data, nread, nwrite, readopen, writeopen, freed, ends, left, ch, cut>>

(* One byte is copied out; when copyout() fails the loop ends and the byte  *)
(* is gone.                                                                 *)
read_byte(p) ==
  /\ \/ in(p, "read") /\ ~(empty /\ writeopen)
     \/ in(p, "copy")
  /\ left[p] > 0 /\ ~empty
  /\ ch' = data[nread % PIPESIZE]
  /\ nread' = (nread + 1) % UINT
  /\ \/ left' = [left EXCEPT ![p] = @ - 1] /\ pc' = [pc EXCEPT ![p] = "copy"]
     \/ pc' = [pc EXCEPT ![p] = "copied"] /\ UNCHANGED left
  /\ UNCHANGED <<lock, data, nwrite, readopen, writeopen, freed, ends, killed, cut>>

(* The end of the loop: wakeup(&pi->nwrite) and return i.                   *)
read_ends(p) ==
  /\ \/ in(p, "copied")
     \/ in(p, "copy") /\ (left[p] = 0 \/ empty)
     \/ in(p, "read") /\ ~(empty /\ writeopen) /\ (left[p] = 0 \/ empty)
  /\ wakeup("sleep_nwrite", p, "out")
  /\ return(p)
  /\ UNCHANGED cut

(* A woken sleeper takes pi->lock again.                                    *)
sleep_returns(p) ==
  /\ \/ pc[p] = "again_read" /\ enter(p, "read")
     \/ pc[p] = "again_write" /\ enter(p, "write")
  /\ UNCHANGED left

-----------------------------------------------------------------------------
(* fileclose(): a process drops its reference; the last one goes on to      *)
(* pipeclose().                                                             *)
fileclose(p) ==
  /\ pc[p] = "out"
  /\ \/ /\ p \in readers
        /\ readers' = readers \ {p}
        /\ pc' = [pc EXCEPT ![p] = IF readers = {p} THEN "close_read" ELSE "out"]
        /\ UNCHANGED writers
     \/ /\ p \in writers
        /\ writers' = writers \ {p}
        /\ pc' = [pc EXCEPT ![p] = IF writers = {p} THEN "close_write" ELSE "out"]
        /\ UNCHANGED readers
  /\ UNCHANGED <<pipe, left, ch, killed, cut>>

\* Mutant of pipeclose: the pipe is freed with its first end.
pipeclose_early(p) ==
  /\ lock = NoProc
  /\ \/ /\ pc[p] = "close_write"
        /\ writeopen' = FALSE
        /\ wakeup("sleep_nread", p, "out")
        /\ UNCHANGED readopen
     \/ /\ pc[p] = "close_read"
        /\ readopen' = FALSE
        /\ wakeup("sleep_nwrite", p, "out")
        /\ UNCHANGED writeopen
  /\ freed' = (~readopen' \/ ~writeopen')
  /\ UNCHANGED <<lock, data, nread, nwrite, ends, left, ch, killed, cut>>

pipeclose(p) ==
  /\ lock = NoProc
  /\ \/ /\ pc[p] = "close_write"
        /\ writeopen' = FALSE
        /\ wakeup("sleep_nread", p, "out")
        /\ UNCHANGED readopen
     \/ /\ pc[p] = "close_read"
        /\ readopen' = FALSE
        /\ wakeup("sleep_nwrite", p, "out")
        /\ UNCHANGED writeopen
  /\ freed' = (~readopen' /\ ~writeopen')
  /\ UNCHANGED <<lock, data, nread, nwrite, ends, left, ch, killed, cut>>

(* kill() by somebody: the victim wakes if it sleeps.  Only a victim that    *)
(* sleeps notices a second kill().                                          *)
kill(p) ==
  /\ killed[p] => pc[p] \in {"sleep_nread", "sleep_nwrite"}
  /\ killed' = [killed EXCEPT ![p] = TRUE]
  /\ pc' = [pc EXCEPT ![p] = CASE @ = "sleep_nread" -> "again_read"
                               [] @ = "sleep_nwrite" -> "again_write"
                               [] OTHER -> @]
  /\ UNCHANGED <<pipe, ends, left, ch, cut>>

Next ==
  \E p \in Procs :
    \/ pipewrite(p) \/ write_aborts(p) \/ write_sleeps(p) \/ write_byte(p) \/ write_ends(p)
    \/ piperead(p) \/ read_aborts(p) \/ read_sleeps(p) \/ read_byte(p) \/ read_ends(p)
    \/ sleep_returns(p) \/ fileclose(p) \/ pipeclose(p) \/ kill(p)

Spec == Init /\ [][Next]_vars

-----------------------------------------------------------------------------
Locations == {"out", "write", "read", "copy", "copied", "sleep_nread", "sleep_nwrite",
              "again_read", "again_write", "close_read", "close_write"}

TypeOK ==
  /\ lock \in Procs \union {NoProc}
  /\ data \in [0..PIPESIZE - 1 -> Bytes]
  /\ nread \in 0..UINT - 1 /\ nwrite \in 0..UINT - 1
  /\ {readopen, writeopen, freed, cut} \subseteq BOOLEAN
  /\ readers \subseteq Procs /\ writers \subseteq Procs
  /\ pc \in [Procs -> Locations]
  /\ left \in [Procs -> 0..MAXN]
  /\ ch \in Bytes
  /\ killed \in [Procs -> BOOLEAN]

\* The bytes between nread and nwrite, across the wrap of both counters.
Length == (nwrite + UINT - nread) % UINT
Contents == [k \in 1..Length |-> data[(nread + k - 1) % PIPESIZE]]

\* pipewrite() and piperead(), interleaved and at any value of the counters,
\* are a queue: no byte is overwritten before it is read, read twice, or read
\* out of order.
Queue == INSTANCE ByteQueue WITH queue <- Contents, taken <- ch, Size <- PIPESIZE
PipeIsQueue == Queue!Spec

\* pipeclose() frees the pipe only after both ends are closed: nobody is, or
\* will come, inside it.
NoUseAfterFree ==
  /\ TypeOK
  /\ freed => /\ readers = {} /\ writers = {}
              /\ \A p \in Procs : pc[p] = "out"

\* pipe.c:77-79 and :111: with pi->lock free, a writer sleeps only while the
\* pipe is full and somebody can still read.  pipe.c:99-104: a reader sleeps
\* only while the pipe is empty and open for writing, as long as no writer is
\* killed in the middle of its write.
NobodyStranded ==
  lock = NoProc => \A p \in Procs :
    /\ pc[p] = "sleep_nwrite" => full /\ readopen
    /\ pc[p] = "sleep_nread" /\ ~cut => empty /\ writeopen
=============================================================================
