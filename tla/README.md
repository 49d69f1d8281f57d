# xv6: TLA+ models, checks and proofs

This directory models the xv6-riscv kernel in this repository (`kernel/`), the
disk that `mkfs` makes, and three user programs with interesting algorithms (the
shell, the allocator, `grep`). TLC checks the models on small instances, and TLAPS
proves the most important properties for every instance. `PROJECT.json` is the
index: components, runs, source lines of each definition, hazards, findings,
theorems.

## 1. The system

| Part | State | Operations | Talks to |
|---|---|---|---|
| Spinlocks (`spinlock.c`) | `lk->locked`, `lk->cpu`; per CPU `noff`, `intena`, SIE | `acquire`, `release`, `holding`, `push_off`, `pop_off` | interrupt handlers on the same CPU |
| Traps (`trap.c`) | `sepc`, `sstatus`, `stvec`; trapframes | `usertrap`, `usertrapret`, `kerneltrap` | `yield`, device handlers |
| Clock (`trap.c`, `sysproc.c`) | `ticks` | `clockintr`, `sys_sleep` | `sleep`/`wakeup`, `kill` |
| Processes (`proc.c`, `swtch.S`) | process table, `c->proc`, `wait_lock` | `scheduler`, `sched`, `yield`, `sleep`, `wakeup`, `fork`, `exit`, `wait`, `kill` | everything that sleeps |
| Sleep-locks, buffer cache (`sleeplock.c`, `bio.c`) | `struct buf`, LRU list, `refcnt` | `bread`, `bwrite`, `brelse`, `bpin`, `bunpin` | log and file system above, disk driver below |
| Disk driver (`virtio_disk.c`) | descriptors, rings, `info[]`, `used_idx` | `virtio_disk_rw`, `virtio_disk_intr` | the device, by shared rings and an interrupt |
| Log (`log.c`) | `log.lh`, `outstanding`, `committing`; log and header on disk | `begin_op`, `log_write`, `end_op`, `commit`, `recover_from_log` | buffer cache; every file system call |
| Inodes, directories, paths (`fs.c`, `sysfile.c`) | inode table, inodes and directories on disk, `p->cwd` | `iget`, `ilock`, `iput`, `ialloc`, `dirlink`, `namex`, `create`, `link`, `unlink`, `open`, `chdir` | log |
| Open files and contents (`file.c`, `fs.c`, `sysfile.c`) | `ftable`, `p->ofile`, bitmap, block addresses, data | `filealloc`, `filedup`, `fileclose`, `fileread`, `filewrite`, `balloc`, `bmap`, `itrunc`, `readi`, `writei` | log, pipes |
| Pipes (`pipe.c`) | `nread`, `nwrite`, `data`, `readopen`, `writeopen` | `pipealloc`, `pipewrite`, `piperead`, `pipeclose` | file table, `sleep`/`wakeup`, `kill` |
| Console, UART, PLIC (`console.c`, `uart.c`, `plic.c`) | line ring, transmit ring | `consoleread`, `consoleintr`, `uartputc`, `uartstart`, `uartintr` | the UART and its interrupt |
| Memory (`kalloc.c`, `vm.c`, `exec.c`) | free list, page tables | `kalloc`, `kfree`, `walk`, `mappages`, `uvmalloc`, `uvmcopy`, `copyout`, `exec`, ... | `fork`, `exit`, `sbrk` |
| `mkfs/mkfs.c` | the disk image | `ialloc`, `iappend`, `balloc` | the disk the kernel boots from |
| `user/sh.c`, `user/umalloc.c`, `user/grep.c` | command trees and descriptors; the free list; the line buffer | `parsecmd`, `runcmd`; `malloc`, `free`; `grep`, `match` | system calls |
| Boot, `printf.c`, `string.c`, other programs of `user/` | | initialisation, formatting, clients | |

What is hard here: CPUs interleave at every shared access; interrupt handlers run
over interrupted code and overwrite its trap registers; `p->lock` passes from
thread to scheduler across `swtch()`; sleepers may be woken early, late or not at
all; devices work in their own time; power may fail between any two disk writes;
memory, disk blocks and tables run out in the middle of a call; and several
counters wrap. The hazards are listed line by line in `PROJECT.json`.

## 2. Modules

Abstract specifications, each short enough to be read as the promise:
`TxnDisk` (a disk with atomic transactions and crashes), `BlockStore` (blocks
with exclusive access), `ByteQueue` (a bounded FIFO), `AtomicDisk` (each call
transfers once), `LineDiscipline` (edited lines handed over whole). The detailed
modules implement them:

| Module | Models | Grain of an action | Implements |
|---|---|---|---|
| `Spinlock` | `spinlock.c`, masking in `trap.c` | one access to shared memory | |
| `Trap` | `trap.c` and the trap hardware | between two accesses to trap registers | |
| `Log` | `log.c` | a critical section of `log.lock`, or one disk write | `TxnDisk` |
| `Proc` | `proc.c` | a critical section of one lock, or one loop iteration under `wait_lock` | |
| `Clock` | `clockintr()`, `sys_sleep()` | a critical section of `tickslock` | |
| `Console` | `consoleintr()`, `consoleread()` | one interrupt, one round of the reader's loop | `LineDiscipline` |
| `Uart` | `uart.c`, `plic.c`, the UART | one access to a device register | `ByteQueue` |
| `Bio` | `bio.c`, `sleeplock.c` | a critical section of `bcache.lock` or of a sleep-lock | `BlockStore` |
| `Pipe` | `pipe.c`, `fileclose()` | one loop iteration under `pi->lock` | `ByteQueue` |
| `Virtio` | `virtio_disk.c` and the device | a critical section of `vdisk_lock`; handler and device in single steps | `AtomicDisk` |
| `Fs` | inodes, directories and path names | a critical section of `itable.lock` or of one inode's lock | |
| `File` | descriptors, blocks and contents | one transaction | |
| `Mem` | `kalloc.c`, `vm.c`, `exec.c`, page handling of `proc.c` | one system call, each `kalloc()` of which may fail | |
| `Shell` | `user/sh.c` | the parser is a function; one step of `runcmd()` | |
| `Umalloc` | `user/umalloc.c` | one call | |
| `Grep` | `user/grep.c` | one `read()` with the loop over its lines | |

The layers justify each other. `Spinlock` shows that critical sections exclude
each other, so the modules above it make a critical section one action. `Trap`
shows that an interrupt is invisible to the code it interrupts. `Proc` shows that
`sleep()` loses no wakeup issued under the same lock, so the others treat "release
the lock and sleep" as one step, and `kill()` as a possible early wakeup. `Virtio`
shows that `virtio_disk_rw()` is atomic, so `Bio` and `Log` make a disk access one
step. `Bio` shows that a block with a reference is not recycled and that its
contents are the last holder's; `Log` uses just that. `Log` implements `TxnDisk`,
and `Fs` stands on it: what the operations under way have written becomes durable
all at once, when the last of them ends. `File` shows that a piece of a write fits
the reservation, which `Log` takes as the constant `OpBlocks`.

Actions carry the names of the functions they model; a function that sleeps or
loops is split where others can step in (`write_sleeps`, `write_byte`, ...). A
panic is a missing step, whose condition is the negated guard of the action, or a
variable (`panic` in `Fs`, `oops` in `Mem`) that a property forbids to be set.

Notes per module:

* **Spinlock.** Two contexts per CPU: the thread and, over it, a handler.
  Interrupts do not nest since `kerneltrap()` runs with SIE clear. The amoswap that
  finds the lock taken changes nothing, so spinning is the absence of a step.
  Clients take locks in increasing order and release in any order.
* **Trap.** A user program is its program counter, the kernel a handful of places.
  `want` and `from` are history: where a thread has to go on. A thread that yields
  in either trap handler may continue on another hart. No step asks what `stvec` is:
  that it is right when a trap comes is `VectorMatchesMode`, about the user's side
  (where `kernelvec` is not even mapped) and the kernel's.
* **Log.** The on-disk header is the sequence of its block numbers, since `n` and
  `block[]` are written in one block. `Load` and `Recycle` are other users of the
  buffer cache. `OpBlocks` is how many distinct blocks an operation writes.
* **Proc.** Location `"user"` is user space and all kernel code that touches
  nothing modelled, `exit()`'s closing of files included. The only sleep modelled
  in detail is `wait()`'s. `kill()` of init is left out: init's exit is a panic by
  design. `fork()` takes any unused entry, because an entry the scan has passed may
  have become unused.
* **Clock.** `since` is history: the ticks that passed during a call. `Lag` bounds
  how many ticks a woken process waits for a CPU; the test `ticks - ticks0 < n` can
  be right only when a call ends before the counter has gone all the way round.
* **Console**, **Uart.** Echo belongs to `Uart`, where the handler's and
  `printf()`'s characters bypass the ring. A reader may be killed between
  `killed()` and `sleep()` and then sleeps until input or a second `kill()`. The UART has a transmit FIFO of `FIFO`
  characters, "idle" means that it is empty, and its interrupt is edge-like: it is
  raised when the FIFO empties, and withdrawn by a write to THR or by a read of ISR
  that has no received character to report.
* **Bio.** A user is one use of a buffer; a process that holds two (`write_log()`,
  `install_trans()`, `bmap()` around `balloc()`) is two users. Clients keep the log's
  discipline: changed data is written or pinned before `brelse()`. `MAXPIN` bounds the
  pins. Nothing bounds users and pins by the buffers, because the code does not:
  `NPROC` is 64, the log pins up to `LOGSIZE` = 30 blocks, and `NBUF` is 30. So
  `bget()`'s panic "no buffers" is a step, after which nobody gets `bcache.lock`, and
  `PanicsOnlyWhenFull` says that it happens only when users and pins really take up
  every buffer.
* **Pipe.** `left` is `n - i`. A failing `copyin()`/`copyout()` may happen at any
  byte. `late_kill` is a `kill()` between `killed(pr)` and `sleep()`.
* **Virtio.** Instead of data the model records which buffer and block the device
  moved, in which direction. Callers work on distinct blocks because `bio.c` holds
  the buffer's sleep-lock. The device (`fetch`, `complete`) is external.
* **Fs.** A directory is its entries by name, so `isdirempty()` is a statement
  about names. "The disk is full" is a free choice wherever `balloc()` or `ialloc()`
  may fail. The table has `NINODE` entries and `iget()` panics when all are
  referenced (`iget_panic`), which the code does not rule out (`NINODE` is 50, `NFILE`
  100); `PanicsJustified` says that every entry is then in use by a process. The
  history variables name three things the code does, and `DiskConsistent` and
  `PanicsJustified` allow just those:
  - `strayed`: a process inside a removed directory may follow its `..`; the parent
    may be gone, and only then is `ilock()`'s panic "no type" reachable;
  - `lost`: `create()` and `link()` do not refuse a directory that was removed after
    `nameiparent()` returned it; the entry goes away with the directory, the link
    count stays;
  - `leaked`: a crash between the last `unlink()` and the last `iput()` leaves an inode
    that nobody frees, and so does a second process that is given the same inode
    between `releasesleep()` and `ip->ref--` of the `iput()` that has just freed it, and
    gives it up again (`fs.c:324-329`; section 3, findings).
* **File.** A routine of `fs.c` is an operator on a frame: bitmap, blocks and one
  inode. `torn` holds what the disk has of a block whose buffer a failed copy has
  changed without logging it; `recycle` is the moment the buffer cache forgets the
  change. `may` is history: the values each byte may have. `readi()` calls the
  allocating `bmap()`, and the property includes that it never has anything to
  allocate. (`mkfs` rounds the root directory up to `(off / BSIZE + 1) * BSIZE`; if its
  entries filled a block exactly, the size would cover a block that has no address.
  The image this repository builds does not.) A piece of a write may log
  `MAXOPBLOCKS` blocks here, because the instance has one bitmap block per data block;
  `Log`'s `LogRoom` wants one less. With the single bitmap block of this repository's
  disk a piece of `filewrite()` logs at most 7: three blocks of data, unaligned four, the
  inode, the indirect block and the bitmap block, each once.
* **Mem.** A page table is the tree of its page-table pages and its leaves. User
  memory is accessible up to the page-rounded size, as in the code. The address space
  is small; sizes and addresses near `MAXVA`, where sums could wrap, are not covered.
* **Shell.** The reference for the parser is a grammar (`LineTrees`), not another
  parser. After parsing, four lines with pipes are also run, and one call of
  `fork()`, `pipe()`, `open()` or `exec()` may fail.
* **Umalloc.** `morecore()` passes `nu * sizeof(Header)` to `sbrk()`, whose parameter is
  an `int`. Requests near 2^31 bytes, where that narrows, are beyond the bound `NBYTES`.
* **Grep.** `grep` stops silently at a line that does not fit its buffer, and never
  looks at an unterminated last line: the property says so.

## 3. Runs

| Run | Bounds | Checks |
|---|---|---|
| `MCSpinlock` | 2 CPUs with handlers and 2 locks; 2 harts, 2 threads, 2 program counters | exclusion, masking, trap vector, trap registers |
| `MCLogSpace` | 3 processes, full log, no data values | space, panics, `SleeperWoken` |
| `MCSleep` | 3 processes on 2 CPUs; 2 readers, ring of 3, counters modulo 6; 2 writers, ring of 2, counters modulo 4, FIFO of 3; 2 sleepers, ticks modulo 5; the log with 2 processes, 2 blocks, 2 values, crashes anywhere | stacks, wakeups, rings, sleeping times; atomicity and durability of the log |
| `MCProcFair` | 3 table entries, 1 CPU, fairness | `ZombieReaped` |
| `MCProcKill` | 2 table entries, 1 CPU | the first finding below |
| `MCBio` | 2 users, 4 blocks, 3 buffers, 2 pins | the cache, its panic and its refinement |
| `MCPipe` | 3 processes, 2 bytes of buffer, counters modulo 4 | the queue, wakeups, freeing |
| `MCVirtio` | 3 callers, 3 blocks, 7 descriptors, indices modulo 14 | driver and device |
| `MCFs` | 2 processes, 4 inodes, 3 table entries, 2 names, 4 calls of 11 kinds, crashes anywhere | references, the committed disk, lock order, panics |
| `MCFsFreed` | the same without crashes | the second finding below |
| `MCDev` | 2 writers, ring of 1; 2 sleepers; fairness | output drains, sleeps end |
| `MCParts` | 18 pages of 2 bytes, 2 processes, 7 calls; 3 files, 2 descriptors each, 7 blocks of 2 bytes, 4 calls; heap of 8 units; lines of up to 5 characters, 6 processes; patterns of up to 3, texts of up to 6 characters | memory, files, heap, shell, `grep` |

Parts that share no state are checked side by side in one run: the variable `part`
says which of them moves, and the variables of the others keep their initial
values. Nothing is lost by it, since none reads what another writes. `MCSleep` puts
together what depends on `sleep()` and `wakeup()`, the crashing log with it, `MCDev` the liveness of the
devices, `MCParts` the sequential code with its failures.

Why the bounds suffice: each makes the contended case happen and leaves no room
for more of the same. Two locks and a handler on each of two CPUs give nesting,
contention and interruption at once; two threads on two harts meet each other's
trap registers and change places. Three table entries are init, a parent and a
child; two CPUs let them exit together. Three buffers for four blocks force
recycling past a pin, and two users with two pins can exhaust them. Rings of one to three characters with counters modulo twice
the size are full, empty and wrapped within a few steps. A FIFO of three is what
the three senders that bypass one another need. Seven descriptors hold two
requests with one descriptor to spare, so a third caller fails half-way through
`alloc3_desc()`, and indices modulo 14 wrap. With two logged blocks a crash falls
before, between and after the writes of each phase. In `MCFs` the calls start from a
fresh disk and from one with a directory in a directory, so that two processes can
create, link, remove, enter and leave the same names while the power fails; four
inodes run out, and so do three table entries. In `MCParts` 18 pages are too few for two processes after an
`exec()`, so that each allocation of each call fails in some behaviour; a file of 10
bytes reaches from the direct into the indirect blocks; seven disk blocks do not
hold two such files. With one bitmap block per data block the bound of
`TransactionFits` is met at its worst.

Symmetry is used for CPUs, processes, blocks and values wherever the module treats
them alike, and in no run that checks liveness. `MCVirtio`'s view leaves out what
is never read again: consumed ring entries, headers of free descriptors, `idx[0]`
of a finished call, and the last transfer, which each transfer overwrites.
`MCPipe`, `MCFsFreed` and `MCParts` switch deadlock checking off because the modelled life ends:
all pipe ends closed, all calls of the bound made, the input read.

### Fairness

* `Log!LogFairness`: runnable processes are scheduled (weak fairness of the steps of
  `begin_op()`, `log_write()`, `commit()`, recovery), and an operation is a finite
  piece of code (strong fairness of `end_op()`). Crashes and `kill()` are not fair.
* `Proc!Fairness`: each `scheduler()` loop visits the whole table round and round
  (strong fairness of picking a process that is runnable again and again); a time
  slice is far longer than a step of a system call (strong fairness of a thread's
  kernel steps); timer interrupts stay pending (strong fairness of `yield()`);
  `user/init.c` calls `wait()` for ever.
* `MCDev!UartFairness`: a writer inside the kernel runs on, the handler runs while
  the interrupt is pending, the device transmits what it was given (weak fairness);
  the handler gets `uart_tx_lock`, and finds the register idle, if it can again and
  again (strong fairness: critical sections are short and other senders finite).
* `MCDev!ClockFairness`: timer interrupts keep coming and get `tickslock`, a woken
  sleeper gets it too (strong fairness); a process that holds it goes on (weak).

`ZombieReaped` carries a proviso, that forking stops some day. It is needed:
`wait()` returns the first zombie of the table, so a later one can wait for ever
while entries before it are reused. `OutputDrains` has one too: `printf()` and
received characters, whose echo bypasses the ring, must stop some day, for they may
find the register idle each time before `uartstart()` does.

### Findings

* `proc.c:539`: `kill(0)` marks an unused process table entry as killed, and
  `allocproc()` hands it out so (`MCProcKill`).
* `fs.c:326`: `iput()` does not test the counts again after it has freed an inode and
  released its lock. A `create()` that is given the same inode meanwhile and fails gives
  up one reference of two, the first process then the last one, and the inode stays
  allocated with no link and no reference, although the comment (`fs.c:303-304`) says
  that it is freed with its last reference (`MCFsFreed`).

Two more observations, which the passing runs are stated around:

* `log.c:197`: `log_write()` panics at `log.size - 1` blocks while `begin_op()`
  (`log.c:119`) reserves up to `LOGSIZE`, and `mkfs` makes `log.size` equal to
  `LOGSIZE`. Operations that used the whole `MAXOPBLOCKS` that `param.h` grants would
  reach the panic; set `OpBlocks` to `MAXOPBLOCKS` in `MCLogSpace.cfg` to see it.
  Operations one block below do not.
* `pipe.c:73`: a writer killed in the middle of a write does not wake the readers of
  what it has written; `NobodyStranded` excepts this case.

## 4. Proofs

Eight modules hold the theorems; TLAPS checks them for any constants that satisfy the
named assumptions of the modules they extend (`LogSizes`, `BioConstants`,
`PipeConstants`, `ProcConstants`, `VirtioConstants`, `SpinlockConstants`,
`TrapConstants`, `ClockConstants`, `UartConstants`, `ConsoleConstants`), which TLC
evaluates for the instances it checks. Each proof has the same plan: an inductive
invariant, one lemma per action (or per group of actions that touch the same
variables) that it is preserved, and the properties from the invariant; a refinement
proof adds one lemma per action that the step is one of the abstract specification, or
a stutter.

| module | about | theorems |
|---|---|---|
| `Rings` | arithmetic and contents of ring buffers with wrapping counters | lemmas only |
| `LogProofs` | `Log` | `TypeCorrect`, `PinsCorrect`, `NoOpDuringCommitCorrect`, `QuietIsDurableCorrect`, `ReservationSufficesCorrect`, `LogRefinesTxnDisk` |
| `BioProofs` | `Bio` | `RefcntExactCorrect`, `PanicsOnlyWhenFullCorrect`, `CacheRefinesBlockStore` |
| `PipeProofs` | `Pipe` | `NoUseAfterFreeCorrect`, `NobodyStrandedCorrect`, `PipeRefinesQueue` |
| `ProcProofs` | `Proc` | `StackInUseCorrect`, `WaitNotMissedCorrect` |
| `VirtioProofs` | `Virtio` | `DescsAccountedCorrect`, `SleepersJustifiedCorrect`, `DiskRefinesAtomic` |
| `CpuProofs` | `Spinlock`, `Trap` | `TypeCorrect`, `SpinlockMutex`, `SpinlockHolding`, `SpinlockNoSelfDeadlock`, `SpinlockInterruptsRestored`, `VectorMatchesModeCorrect`, `ResumesWhereInterruptedCorrect` |
| `DevProofs` | `Clock`, `Uart`, `Console` | `SleepsExactlyCorrect`, `FifoNeverOverrunCorrect`, `UartRefinesQueue`, `ReaderAwakeCorrect`, `ConsoleRefinesLines` |

**LogProofs.** Assumed: positive sizes with `OpBlocks <= MAXOPBLOCKS <= LOGSIZE`,
finitely many processes. The inductive invariant is

    IInv == LogTypeOK /\ Headers /\ Protocol /\ PinsMatchLog /\ Cache /\ LogBlocks

* `Headers`: `lh` and the on-disk header have no duplicates and fit the log, and
  how the two are related at each step of commit and recovery.
* `Protocol`: `outstanding` counts the operations under way, one committer at most,
  and where it is.
* `Cache`: an unpinned, unmodified cached block equals the disk. This is what makes
  recycling harmless.
* `LogBlocks`: during commit the log blocks up to `tail` (all of them after
  `write_log()`) equal the cached blocks they stand for.

None of the properties is inductive by itself: pins need to know that `lh` has no
duplicates, recycling needs `Cache`, installation needs `LogBlocks`. From `IInv`
follow `TypeCorrect`, `PinsCorrect`, `NoOpDuringCommitCorrect`,
`QuietIsDurableCorrect` and the refinement `LogRefinesTxnDisk`: the header write of
`commit()` is `TxnDisk`'s `Commit`, installing is a stutter because replaying an
already installed block changes nothing (`InstallIdempotent`), erasing the header is
a stutter because everything is installed (`EraseInstalled`), and a crash maps to
`Crash` at every step.

`ReservationSufficesCorrect` needs more of the constants (`LogRoom`): an operation leaves
at least one block of its reservation, `MAXOPBLOCKS < LOGSIZE`, and the on-disk log has
`LOGSIZE` blocks with its header, as `mkfs` makes it. That is the assumption `MCLogSpace`
runs at the edge of; without it the property is false (section 3). The invariant added is
`Reserved`: the blocks the operations may still add are counted as a set of tokens
(`Unused`, one for each block an operation may still pass to `log_write()`), and the log
with all tokens spent `Fits`. The bound is not the one `begin_op()` tests. An operation that
starts alone finds an empty log, because the last one out has committed it; one that joins
others shares with at least one of them what both leave unused. Counting a set instead of
adding up numbers is what keeps induction over the processes out of the proof.

**Rings.** Pipe, console, UART and virtio all keep a ring of `P` entries under counters
that wrap at `M`, a multiple of `P`, and index it with `counter % P`. The module states
once what this needs: how the distance `Ahead` changes when a counter moves, that the
entries in between have different indices (`Slot`), and that the sequence of them
(`Run`) grows, shrinks and splits as a queue does. `M % P = 0` is essential, and holds in
the code because both are powers of two.

**BioProofs.** Assumed: finitely many users; their number, the pins and the buffers are
independent. Invariant:

    BioInv == TypeOK /\ Counted /\ Full /\ CachedOnce /\ Working /\ Locking /\ Held /\ Data

`Counted` is the reference count's meaning, `CachedOnce` that no block has two buffers,
`Locking` and `Held` tie sleep-locks to the locations of their owners, and `Data` says
that a valid buffer which is neither locked nor pinned has what the disk has: without it
recycling would lose data. When every buffer is referenced, each is some user's or
pinned, so users and pinned buffers are as many as the buffers (`AllReferenced`); `Full`
keeps this true after the panic, since a reference is dropped only under `bcache.lock`. In the refinement a bget(),
a recycling or a write to disk changes no block's content, and only the client's store
changes the abstract memory.

**PipeProofs.** Assumed: `UINT` is a multiple of `PIPESIZE` and larger. Invariant:

    PipeInv == TypeOK /\ Locked /\ Ends /\ ClosedOnce /\ Sleepers /\ Bounded

`Sleepers` is `NobodyStranded` for the states in which somebody is inside `pi->lock`: the
sleeper's condition holds, or the process that has just changed it will still call
`wakeup()`. `ClosedOnce` says that the last closer of an end is the only one.

**ProcProofs.** Assumed: a table of at least one entry. Invariant:

    ProcInv == TypeOK /\ Stacks /\ Locks /\ Locals /\ Forks /\ Parents /\ Exiting /\ Scanning /\ Sleeping

`Stacks` and `Locks` read off the locations who is on which stack and who has which
lock; `StackInUse` follows. For `WaitNotMissed` the loops need invariants of their own:
what `reparent()`, `wakeup()` and the scan of `wait()` have passed already (`Exiting`,
`Scanning`), and that init, which may inherit a zombie while it sleeps, is about to be
woken (`Sleeping`).

**VirtioProofs.** Assumed: at least three descriptors, 16-bit indices a multiple of the
ring's size. Invariant:

    VirtioInv == TypeOK /\ Linked /\ Apart /\ Accounted /\ Described /\ Callers
                 /\ AvailRing /\ InDevice /\ UsedRing /\ Interrupt /\ Starved

The request of a process is followed through the chain of its three descriptors
(`Linked`, `Apart`, `Accounted`), `disk.info` (`Described`), and the place where its head
is: the available ring, the device, or the used ring, each at most once. The rings cannot
overflow because the heads in them are different descriptors. In the refinement the
device's transfer is the abstract `Transfer`; everything else that the driver, the
handler and the rings do is a stutter between `Call` and `Return`.

**CpuProofs, spinlocks.** Assumed: `NLOCK` natural, `NoCpu` not a CPU. The invariant is

    IInv == TypeOK /\ Ownership /\ Argument /\ Nesting /\ Enable

`Ownership` ties `locked`, `lcpu` and the history variable `has` together at every
location of `acquire()` and `release()`; `Argument` says which lock a call in
progress is about; `Nesting` makes `noff` the number of locks and bare `push_off()`s
in force on the CPU; `Enable` says what `sie` and `intena` are at each depth. From it:
`SpinlockMutex`, `SpinlockHolding`, `SpinlockNoSelfDeadlock`,
`SpinlockInterruptsRestored`.

**CpuProofs, traps.** Assumed: `Sched` is not a process, and there is a user program counter.
The invariant `TrapInv` has, beside the types, one part per place where a program
counter can be:

* `Remembers`: of a process wherever it is. From `usertrap()` to `sret` the trapframe
  has the address to resume at (after the `ecall` for a system call); from
  `kerneltrap()`'s entry to its end its locals have the interrupted place, which is
  always one where the kernel has interrupts on.
* `OnHart`: of a process on a hart. `sepc` is still the trap's own until it is saved, and
  already the trapframe's between `w_sepc()` and `sret`; in between interrupts are off;
  `stvec` is `uservec` only in the places `UserVector`, and always in `UserBound`: user
  space and the way to it after `w_stvec()`.
* `OffHart`: of a process that waits for a hart. It gave it up in `sleep()` or `yield()`;
  one that yielded in `kerneltrap()` had interrupts off and gets them back off, which is
  what keeps `sepc` and `sstatus` safe between their restoration and `sret`.

No process is on two harts. Lemmas `Moves`, `Leaves` and `Loops` say once what a step of
one hart leaves alone; each action is then a lemma about the process it moves. Results:
`VectorMatchesModeCorrect` (an invariant) and `ResumesWhereInterruptedCorrect` (an action
property, from the same invariant).

**DevProofs, the clock.** Assumed: a call ends before `ticks` has gone all the way round
(`MaxSleep + Lag < TickUint`). `SleepsExactly` is about real elapsed ticks, the code
computes `ticks - ticks0` in unsigned arithmetic; the invariant adds `ElapsedIsSince`, that
the two agree for every process in the loop, `TicksLocked`, that `tickslock` is held from
the test to `sleep()`, so that no tick comes between, and `StillShort`, that a sleeper's time
is not up. The lemmas `WrapDiff` and `WrapTick` do the arithmetic. Result:
`SleepsExactlyCorrect`.

**DevProofs, the UART.** Assumed: `TxUint` a multiple of the ring's size, and a FIFO of at
least three characters. Invariant: `UartInv == UartTypes /\ TxLocked /\ ThreeAtMost /\
TxBounded`. `FifoNeverOverrun` is not inductive: `ThreeAtMost` counts with the characters
in the FIFO everyone who has seen the register idle and not written it yet. They are at
most one in `printf()`, one in the echo of the handler, and one in `uartstart()`, since
that one holds `uart_tx_lock` (`TxLocked`); and they have seen an empty FIFO.

**DevProofs, the console.** Invariant: `ConsInv == ConsTypes /\ ConsBounded /\ LineOpen /\
FullGiven /\ Asleep`. `LineOpen`, that the unfinished line contains no newline, is what
makes `C('U')`'s loop, which stops at a newline, erase exactly that line; `FullGiven` is why
a full ring never blocks. In the refinement the committed text and the open line are two
neighbouring runs of the same ring (`RunConcat`, `RunPrefix`).

Only model-checked:

* everything about liveness (`SleeperWoken`, `ZombieReaped`, `OutputDrains`, `SleepEnds`),
  which the provers cannot do;
* `Mem`, `File`, `Shell`, `Umalloc` and `Grep`, which compute with recursive operators
  (page loops, block lists, parsing, free lists, matching), about which they cannot
  reason either;
* `Fs`: its invariants count directory entries against link counts over the whole tree.

## 5. Not modelled

* Boot (`entry.S`, `start.c`, `main.c`), the kernel's own page table (`kvmmake()`),
  register handshakes of the drivers, `printf.c`, `string.c`, `procdump()`, the
  assembly save areas: straight-line code that runs once, or formatting.
* The table of `syscall.c` and fetching arguments: a call's arguments are chosen
  freely in the models.
* Device files and `sys_fstat()`: no state of their own.
* The shell's `cd`, a failing `malloc()` in the shell (the code does not test for
  it), and a failing `fork1()` in `main()`, which ends the shell.
* `user/usertests.c`, `user/grind.c` and the remaining user programs: tests, and
  clients of the kernel without state that others depend on.
* Starvation of a spinlock: the test-and-set loop promises no fairness.
