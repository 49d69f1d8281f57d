----------------------------- MODULE PipeProofs -----------------------------
(***************************************************************************)
(* A pipe is a queue, is freed once and after its last user, and strands   *)
(* no sleeper: for any number of processes, any size of pipe and any       *)
(* length of the reads and writes.                                         *)
(***************************************************************************)
EXTENDS Pipe, Rings, TLAPS, SequenceTheorems

Inside == {"write", "read", "copy", "copied"}
Reading == {"read", "copy", "copied", "sleep_nread", "again_read"}
Writing == {"write", "sleep_nwrite", "again_write"}

\* pi->lock is held by the process between its acquire() and its release().
Locked == \A p \in Procs : lock = p <=> pc[p] \in Inside
\* Who uses an end has it open; the last one to close it is alone in
\* pipeclose(), and after that the end is closed for good.
Ends ==
  /\ \A p \in Procs : (pc[p] \in Reading => p \in readers) /\ (pc[p] \in Writing => p \in writers)
  /\ readers # {} => readopen
  /\ writers # {} => writeopen
  /\ freed = (~readopen /\ ~writeopen)
ClosedOnce ==
  \A p \in Procs :
    /\ pc[p] = "close_read" => readers = {} /\ readopen /\ \A q \in Procs : pc[q] = "close_read" => q = p
    /\ pc[p] = "close_write" => writers = {} /\ writeopen /\ \A q \in Procs : pc[q] = "close_write" => q = p
\* A sleeper's condition holds, or the process that has just changed it is
\* still inside and wakes the sleepers before it leaves.
Sleepers ==
  \A p \in Procs :
    /\ pc[p] = "sleep_nwrite" =>
         (full /\ readopen) \/ \E q \in Procs : pc[q] \in {"copy", "copied"}
    /\ pc[p] = "sleep_nread" /\ ~cut =>
         (empty /\ writeopen) \/ \E q \in Procs : pc[q] = "write"
Bounded == Length <= PIPESIZE

PipeInv == TypeOK /\ Locked /\ Ends /\ ClosedOnce /\ Sleepers /\ Bounded

-----------------------------------------------------------------------------
\* The distance from r to w, for counters that wrap at UINT.
Distance(r, w) == (w + UINT - r) % UINT

(* Where the counters wrap.                                                *)
LEMMA Wraps ==
  ASSUME NEW r \in 0..UINT - 1, NEW w \in 0..UINT - 1
  PROVE /\ Distance(r, w) = IF w >= r THEN w - r ELSE w + UINT - r
        /\ (r + 1) % UINT = IF r = UINT - 1 THEN 0 ELSE r + 1
        /\ (r + PIPESIZE) % UINT = IF r + PIPESIZE < UINT THEN r + PIPESIZE ELSE r + PIPESIZE - UINT
  <1>0. UINT \in Nat \ {0} /\ PIPESIZE \in Nat /\ UINT > PIPESIZE
    BY PipeConstants
  <1>1. ASSUME NEW x \in 0..2 * UINT - 1 PROVE x % UINT = IF x < UINT THEN x ELSE x - UINT
    <2>1. CASE x < UINT
      <3>1. x \in 0..UINT - 1
        BY <1>0, <2>1
      <3> QED BY <1>0, <2>1, <3>1, ModSmall
    <2>2. CASE x >= UINT
      <3>1. x \in UINT..2 * UINT - 1
        BY <1>0, <2>2
      <3>2. ~(x < UINT)
        BY <1>0, <2>2
      <3> QED BY <1>0, <3>1, <3>2, ModOnce
    <2> QED BY <1>0, <2>1, <2>2
  <1>2. PICK x \in 0..2 * UINT - 1 : x = w + UINT - r
    BY <1>0
  <1>3. PICK y \in 0..2 * UINT - 1 : y = r + 1
    BY <1>0
  <1>4. PICK z \in 0..2 * UINT - 1 : z = r + PIPESIZE
    BY <1>0
  <1>5. Distance(r, w) = IF w >= r THEN w - r ELSE w + UINT - r
    BY <1>0, <1>1, <1>2 DEF Distance
  <1>6. (r + 1) % UINT = IF r = UINT - 1 THEN 0 ELSE r + 1
    BY <1>0, <1>1, <1>3
  <1>7. (r + PIPESIZE) % UINT = IF r + PIPESIZE < UINT THEN r + PIPESIZE ELSE r + PIPESIZE - UINT
    BY <1>0, <1>1, <1>4
  <1> QED BY <1>5, <1>6, <1>7

(* full and empty in terms of the number of bytes in the pipe.             *)
LEMMA LengthTells ==
  ASSUME TypeOK
  PROVE /\ Length \in 0..UINT - 1
        /\ full <=> Length = PIPESIZE
        /\ empty <=> Length = 0
  <1>0. UINT \in Nat /\ PIPESIZE \in Nat /\ UINT > PIPESIZE /\ nread \in 0..UINT - 1 /\ nwrite \in 0..UINT - 1
    BY PipeConstants DEF TypeOK
  <1>1. Length = IF nwrite >= nread THEN nwrite - nread ELSE nwrite + UINT - nread
    BY <1>0, Wraps DEF Length, Distance
  <1>2. (nread + PIPESIZE) % UINT = IF nread + PIPESIZE < UINT THEN nread + PIPESIZE ELSE nread + PIPESIZE - UINT
    BY ZenonT(30), <1>0, Wraps
  <1>3. Length \in 0..UINT - 1
    BY <1>0, <1>1
  <1>4. full <=> Length = PIPESIZE
    BY <1>0, <1>1, <1>2 DEF full
  <1>5. empty <=> Length = 0
    BY <1>0, <1>1 DEF empty
  <1> QED BY <1>3, <1>4, <1>5

(* A byte written, and a byte read.                                        *)
LEMMA LengthMoves ==
  ASSUME TypeOK
  PROVE /\ Length < UINT - 1 /\ nwrite' = (nwrite + 1) % UINT /\ nread' = nread =>
             nwrite' \in 0..UINT - 1 /\ Length' = Length + 1
        /\ Length > 0 /\ nread' = (nread + 1) % UINT /\ nwrite' = nwrite =>
             nread' \in 0..UINT - 1 /\ Length' = Length - 1
  <1>0. UINT \in Nat /\ UINT > 0 /\ nread \in 0..UINT - 1 /\ nwrite \in 0..UINT - 1
    BY PipeConstants DEF TypeOK
  <1>1. Length = IF nwrite >= nread THEN nwrite - nread ELSE nwrite + UINT - nread
    BY <1>0, Wraps DEF Length, Distance
  <1>2. ASSUME Length < UINT - 1, nwrite' = (nwrite + 1) % UINT, nread' = nread
        PROVE nwrite' \in 0..UINT - 1 /\ Length' = Length + 1
    <2>1. nwrite' = IF nwrite = UINT - 1 THEN 0 ELSE nwrite + 1
      BY ZenonT(30), <1>0, <1>2, Wraps
    <2>2. nwrite' \in 0..UINT - 1 /\ nread' \in 0..UINT - 1
      BY <1>0, <1>2, <2>1
    <2>3. Length' = IF nwrite' >= nread' THEN nwrite' - nread' ELSE nwrite' + UINT - nread'
      BY <2>2, Wraps DEF Length, Distance
    <2> QED BY <1>0, <1>1, <1>2, <2>1, <2>2, <2>3
  <1>3. ASSUME Length > 0, nread' = (nread + 1) % UINT, nwrite' = nwrite
        PROVE nread' \in 0..UINT - 1 /\ Length' = Length - 1
    <2>1. nread' = IF nread = UINT - 1 THEN 0 ELSE nread + 1
      BY <1>0, <1>3, Wraps
    <2>2. nwrite' \in 0..UINT - 1 /\ nread' \in 0..UINT - 1
      BY <1>0, <1>3, <2>1
    <2>3. Length' = IF nwrite' >= nread' THEN nwrite' - nread' ELSE nwrite' + UINT - nread'
      BY <2>2, Wraps DEF Length, Distance
    <2> QED BY <1>0, <1>1, <1>3, <2>1, <2>2, <2>3
  <1> QED BY <1>2, <1>3

\* The index in pi->data of the k-th byte after nread.
Cell(k) == (nread + k - 1) % PIPESIZE

(* Wherever the counters wrap, the next byte goes after the last one, over *)
(* none that is still to be read, and reading one moves the others up.     *)
LEMMA Cells ==
  ASSUME TypeOK, Bounded
  PROVE /\ \A k \in 1..PIPESIZE : Cell(k) \in 0..PIPESIZE - 1
        /\ nwrite % PIPESIZE \in 0..PIPESIZE - 1 /\ nread % PIPESIZE = Cell(1)
        /\ nwrite % PIPESIZE = Cell(Length + 1)
        /\ Length < PIPESIZE => \A k \in 1..Length : Cell(k) # nwrite % PIPESIZE
        /\ nread' = (nread + 1) % UINT => \A k \in 1..PIPESIZE : Cell(k)' = Cell(k + 1)
  <1>0. /\ UINT \in Nat /\ PIPESIZE \in Nat \ {0} /\ UINT > PIPESIZE /\ UINT % PIPESIZE = 0
        /\ nread \in 0..UINT - 1 /\ nwrite \in 0..UINT - 1
    BY PipeConstants DEF TypeOK
  <1>1. Length = IF nwrite >= nread THEN nwrite - nread ELSE nwrite + UINT - nread
    BY <1>0, Wraps DEF Length, Distance
  <1>2. Length \in 0..PIPESIZE
    BY <1>0, LengthTells DEF Bounded
  <1>3. ASSUME NEW k \in 1..PIPESIZE PROVE Cell(k) \in 0..PIPESIZE - 1
    <2>1. nread + k - 1 \in Nat
      BY <1>0
    <2> QED BY <1>0, <2>1, DivMod DEF Cell
  <1>4. nwrite % PIPESIZE \in 0..PIPESIZE - 1
    BY <1>0, DivMod
  <1>5. nread % PIPESIZE = Cell(1)
    <2>1. nread + 1 - 1 = nread
      BY <1>0
    <2> QED BY <2>1 DEF Cell
  <1>6. nwrite % PIPESIZE = Cell(Length + 1)
    <2>1. PICK n \in Nat : n = nread + (Length + 1) - 1 /\ (n = nwrite \/ n = nwrite + UINT)
      <3>1. nread + (Length + 1) - 1 \in Nat
        BY <1>0, <1>2
      <3>2. nread + (Length + 1) - 1 = nwrite \/ nread + (Length + 1) - 1 = nwrite + UINT
        BY <1>0, <1>1, <1>2
      <3> QED BY <3>1, <3>2
    <2>2. (nwrite + UINT) % PIPESIZE = nwrite % PIPESIZE
      <3>1. nwrite \in Nat
        BY <1>0
      <3> QED BY ZenonT(30), <1>0, <3>1, ModShift
    <2> QED BY <2>1, <2>2 DEF Cell
  <1>7. ASSUME Length < PIPESIZE, NEW k \in 1..Length PROVE Cell(k) # Cell(Length + 1)
    <2>1. PICK x \in Nat : x = nread + k - 1
      BY <1>0, <1>2
    <2>2. PICK d \in 1..PIPESIZE - 1 : x + d = nread + (Length + 1) - 1
      <3>1. Length + 1 - k \in 1..PIPESIZE - 1 /\ x + (Length + 1 - k) = nread + (Length + 1) - 1
        BY <1>0, <1>2, <1>7, <2>1
      <3> QED BY <1>0, <1>2, <3>1
    <2>3. (x + d) % PIPESIZE # x % PIPESIZE
      BY ZenonT(30), <1>0, ModDiffer
    <2> QED BY <2>1, <2>2, <2>3 DEF Cell
  <1>8. ASSUME nread' = (nread + 1) % UINT, NEW k \in 1..PIPESIZE PROVE Cell(k)' = Cell(k + 1)
    <2>1. nread' = IF nread = UINT - 1 THEN 0 ELSE nread + 1
      BY ZenonT(30), <1>0, <1>8, Wraps
    <2>2. CASE nread = UINT - 1
      <3>1. PICK x \in Nat : x = k - 1 /\ x = nread' + k - 1 /\ x + UINT = nread + (k + 1) - 1
        BY <1>0, <2>1, <2>2
      <3>2. (x + UINT) % PIPESIZE = x % PIPESIZE
        BY ZenonT(30), <1>0, ModShift
      <3> QED BY <3>1, <3>2 DEF Cell
    <2>3. CASE nread # UINT - 1
      <3>1. nread' + k - 1 = nread + (k + 1) - 1
        BY <1>0, <2>1, <2>3
      <3> QED BY <3>1 DEF Cell
    <2> QED BY <2>2, <2>3
  <1> QED BY <1>3, <1>4, <1>5, <1>6, <1>7, <1>8

-----------------------------------------------------------------------------
(* pipealloc() establishes the invariant.                                  *)
LEMMA PipeInitially == Init => PipeInv
  <1> SUFFICES ASSUME Init PROVE PipeInv
    OBVIOUS
  <1>0. UINT \in Nat /\ UINT > 0 /\ PIPESIZE \in Nat /\ MAXN \in Nat /\ NoProc \notin Procs
    BY PipeConstants
  <1>1. TypeOK
    <2>1. pc \in [Procs -> Locations] /\ left \in [Procs -> 0..MAXN] /\ killed \in [Procs -> BOOLEAN]
      BY <1>0 DEF Init, Locations
    <2>2. nread \in 0..UINT - 1 /\ nwrite \in 0..UINT - 1
      BY <1>0 DEF Init
    <2>3. {readopen, writeopen, freed, cut} \subseteq BOOLEAN
      BY ZenonT(30) DEF Init
    <2> QED BY <2>1, <2>2, <2>3 DEF Init, TypeOK
  <1>2. Bounded
    <2>1. Length = 0
      BY <1>1, LengthTells DEF Init, empty
    <2> QED BY <1>0, <2>1 DEF Bounded
  <1>3. Locked /\ Ends
    BY ZenonT(30), <1>0 DEF Init, Locked, Ends, Inside, Reading, Writing
  <1>4. ClosedOnce /\ Sleepers
    BY DEF Init, ClosedOnce, Sleepers
  <1> QED BY <1>1, <1>2, <1>3, <1>4 DEF PipeInv

(* Steps that leave the counters alone.                                    *)
LEMMA SameLength ==
  ASSUME PipeInv, UNCHANGED <<nread, nwrite>>
  PROVE Bounded' /\ (full' <=> full) /\ (empty' <=> empty)
  BY DEF PipeInv, Bounded, Length, full, empty

(* A process takes pi->lock: pipewrite(), piperead() or the end of sleep(). *)
LEMMA Enters ==
  ASSUME PipeInv, NEW p \in Procs, NEW a \in {"read", "write"}, enter(p, a),
         pc[p] \in {"out", "again_read", "again_write"}, left' \in [Procs -> 0..MAXN],
         a = "read" => p \in readers, a = "write" => p \in writers
  PROVE PipeInv'
  <1>0. TypeOK /\ Locked /\ Ends /\ ClosedOnce /\ Sleepers /\ Bounded
    BY DEF PipeInv
  <1>1. /\ lock = NoProc /\ lock' = p /\ pc' = [pc EXCEPT ![p] = a]
        /\ UNCHANGED <<data, nread, nwrite, readopen, writeopen, freed, readers, writers, ch, killed, cut>>
    BY DEF enter, ends
  <1>2. TypeOK'
    BY <1>0, <1>1 DEF TypeOK, Locations
  <1>3. Locked'
    BY <1>0, <1>1, PipeConstants DEF Locked, TypeOK, Inside
  <1>4. Ends'
    BY <1>0, <1>1 DEF Ends, TypeOK, Reading, Writing
  <1>5. ClosedOnce'
    BY <1>0, <1>1 DEF ClosedOnce, TypeOK
  <1>6. Bounded' /\ (full' <=> full) /\ (empty' <=> empty)
    BY <1>1, SameLength
  <1>7. Sleepers'
    BY SMTT(30), <1>0, <1>1, <1>6 DEF Sleepers, TypeOK
  <1> QED BY <1>2, <1>3, <1>4, <1>5, <1>6, <1>7 DEF PipeInv

(* Every action that takes pi->lock.                                       *)
LEMMA EntersStep ==
  ASSUME PipeInv, NEW p \in Procs, pipewrite(p) \/ piperead(p) \/ sleep_returns(p)
  PROVE PipeInv'
  <1>0. TypeOK /\ Ends
    BY DEF PipeInv
  <1>1. left' \in [Procs -> 0..MAXN]
    BY <1>0 DEF pipewrite, piperead, sleep_returns, TypeOK
  <1>2. CASE pipewrite(p)
    BY <1>1, <1>2, Enters DEF pipewrite
  <1>3. CASE piperead(p)
    BY <1>1, <1>3, Enters DEF piperead
  <1>4. CASE pc[p] = "again_read" /\ enter(p, "read")
    BY <1>0, <1>1, <1>4, Enters DEF Ends, Reading
  <1>5. CASE pc[p] = "again_write" /\ enter(p, "write")
    BY <1>0, <1>1, <1>5, Enters DEF Ends, Writing
  <1> QED BY <1>2, <1>3, <1>4, <1>5 DEF sleep_returns

(* A process that leaves without a wakeup has not changed what sleepers    *)
(* wait for, or is a killed writer.                                        *)
LEMMA Leaves ==
  ASSUME PipeInv, NEW p \in Procs, lock = p, lock' = NoProc, NEW a \in {"out", "sleep_nread"},
         pc[p] \in {"read", "write"}, pc' = [pc EXCEPT ![p] = a],
         left' \in [Procs -> 0..MAXN], killed' \in [Procs -> BOOLEAN], cut' \in BOOLEAN, cut => cut',
         UNCHANGED <<data, nread, nwrite, readopen, writeopen, freed, readers, writers, ch>>,
         a = "sleep_nread" => pc[p] = "read" /\ empty /\ writeopen,
         pc[p] = "write" /\ ~cut' => empty /\ writeopen
  PROVE PipeInv'
  <1>0. TypeOK /\ Locked /\ Ends /\ ClosedOnce /\ Sleepers /\ Bounded
    BY DEF PipeInv
  <1>2. TypeOK'
    BY <1>0 DEF TypeOK, Locations
  <1>3. Locked'
    BY <1>0, PipeConstants DEF Locked, TypeOK, Inside
  <1>4. Ends'
    BY <1>0 DEF Ends, TypeOK, Reading, Writing
  <1>5. ClosedOnce'
    BY <1>0 DEF ClosedOnce, TypeOK
  <1>6. Bounded' /\ (full' <=> full) /\ (empty' <=> empty)
    BY SameLength
  <1>7. Sleepers'
    <2> SUFFICES ASSUME NEW q \in Procs
                 PROVE /\ pc'[q] = "sleep_nwrite" => (full /\ readopen) \/ \E r \in Procs : pc'[r] \in {"copy", "copied"}
                       /\ pc'[q] = "sleep_nread" /\ ~cut' => (empty /\ writeopen) \/ \E r \in Procs : pc'[r] = "write"
      BY <1>6 DEF Sleepers
    <2>1. \A r \in Procs : pc[r] \in {"copy", "copied"} => r # p /\ pc'[r] = pc[r]
      BY <1>0 DEF TypeOK
    <2>2. pc'[q] = "sleep_nwrite" => pc[q] = "sleep_nwrite"
      BY <1>0 DEF TypeOK
    <2>3. \A r \in Procs : pc[r] = "write" => r = p
      BY <1>0 DEF Locked, Inside
    <2>4. pc'[q] = "sleep_nread" /\ ~cut' => (empty /\ writeopen)
      <3>1. CASE q = p
        BY <1>0, <3>1 DEF TypeOK
      <3>2. CASE q # p
        BY <1>0, <2>3, <3>2 DEF Sleepers, TypeOK
      <3> QED BY <3>1, <3>2
    <2> QED BY <1>0, <2>1, <2>2, <2>4 DEF Sleepers
  <1> QED BY <1>2, <1>3, <1>4, <1>5, <1>6, <1>7 DEF PipeInv

(* A killed writer, a killed reader and a reader that goes to sleep.       *)
LEMMA LeavesStep ==
  ASSUME PipeInv, NEW p \in Procs, write_aborts(p) \/ read_aborts(p) \/ read_sleeps(p)
  PROVE PipeInv'
  <1>0. TypeOK /\ Ends
    BY DEF PipeInv
  <1>1. /\ lock = p /\ lock' = NoProc /\ left' \in [Procs -> 0..MAXN] /\ killed' \in [Procs -> BOOLEAN]
        /\ UNCHANGED <<data, nread, nwrite, readopen, writeopen, freed, readers, writers, ch>>
    <2>0. left \in [Procs -> 0..MAXN] /\ killed \in [Procs -> BOOLEAN] /\ 0 \in 0..MAXN
      BY <1>0, PipeConstants DEF TypeOK
    <2>1. CASE write_aborts(p) \/ read_aborts(p)
      <3>1. in(p, "write") \/ in(p, "read")
        BY <2>1 DEF write_aborts, read_aborts
      <3>2. return(p)
        BY <2>1 DEF write_aborts, read_aborts
      <3> QED BY <2>0, <3>1, <3>2 DEF return, in, ends
    <2>2. CASE read_sleeps(p)
      BY <2>0, <2>2 DEF read_sleeps, late_kill, in, ends
    <2> QED BY <2>1, <2>2
  <1>2. CASE write_aborts(p)
    <2>1. pc[p] = "write" /\ pc' = [pc EXCEPT ![p] = "out"] /\ cut' = (cut \/ ~empty)
      BY <1>2 DEF write_aborts, in
    <2>2. writeopen
      BY <1>0, <2>1 DEF Ends, Writing
    <2>3. cut' \in BOOLEAN /\ (cut => cut') /\ (~cut' => empty)
      BY ZenonT(30), <1>0, <2>1 DEF TypeOK
    <2> QED BY ZenonT(30), <1>1, <2>1, <2>2, <2>3, Leaves
  <1>3. CASE read_aborts(p)
    <2>1. pc[p] = "read" /\ pc' = [pc EXCEPT ![p] = "out"] /\ cut' = cut
      BY <1>3 DEF read_aborts, in
    <2>2. cut' \in BOOLEAN
      BY <1>0, <2>1 DEF TypeOK
    <2> QED BY ZenonT(30), <1>1, <2>1, <2>2, Leaves
  <1>4. CASE read_sleeps(p)
    <2>1. pc[p] = "read" /\ pc' = [pc EXCEPT ![p] = "sleep_nread"] /\ cut' = cut /\ empty /\ writeopen
      BY <1>4 DEF read_sleeps, in
    <2>2. cut' \in BOOLEAN
      BY <1>0, <2>1 DEF TypeOK
    <2> QED BY ZenonT(30), <1>1, <2>1, <2>2, Leaves
  <1> QED BY <1>2, <1>3, <1>4

(* What wakeup() does to the processes.                                    *)
LEMMA Wakeup ==
  ASSUME TypeOK, NEW p \in Procs, NEW s \in {"sleep_nread", "sleep_nwrite"}, NEW a \in Locations, wakeup(s, p, a)
  PROVE /\ pc' \in [Procs -> Locations] /\ pc'[p] = a
        /\ \A q \in Procs \ {p} : pc[q] # s => pc'[q] = pc[q]
        /\ \A q \in Procs \ {p} : pc[q] = s => pc'[q] = IF s = "sleep_nread" THEN "again_read" ELSE "again_write"
  BY DEF TypeOK, wakeup, Locations

(* A process leaves pi->lock with a wakeup.                                *)
LEMMA Wakes ==
  ASSUME PipeInv, NEW p \in Procs, lock = p, lock' = NoProc,
         NEW s \in {"sleep_nread", "sleep_nwrite"}, NEW a \in {"out", "sleep_nwrite"}, wakeup(s, p, a),
         left' \in [Procs -> 0..MAXN], killed' \in [Procs -> BOOLEAN],
         UNCHANGED <<data, nread, nwrite, readopen, writeopen, freed, readers, writers, ch, cut>>,
         s = "sleep_nread" => pc[p] = "write",
         s = "sleep_nwrite" => pc[p] # "write",
         a = "sleep_nwrite" => pc[p] = "write" /\ full /\ readopen
  PROVE PipeInv'
  <1>0. TypeOK /\ Locked /\ Ends /\ ClosedOnce /\ Sleepers /\ Bounded
    BY DEF PipeInv
  <1>1. /\ pc' \in [Procs -> Locations] /\ pc'[p] = a
        /\ \A q \in Procs \ {p} : pc[q] # s => pc'[q] = pc[q]
        /\ \A q \in Procs \ {p} : pc[q] = s => pc'[q] = IF s = "sleep_nread" THEN "again_read" ELSE "again_write"
    BY <1>0, Wakeup DEF Locations
  <1>2. TypeOK'
    BY <1>0, <1>1 DEF TypeOK
  <1>3. Locked'
    BY <1>0, <1>1, PipeConstants DEF Locked, Inside
  <1>4. Ends'
    BY <1>0, <1>1 DEF Ends, Reading, Writing
  <1>5. ClosedOnce'
    BY <1>0, <1>1 DEF ClosedOnce
  <1>6. Bounded' /\ (full' <=> full) /\ (empty' <=> empty)
    BY SameLength
  <1>7. Sleepers'
    <2>1. \A q \in Procs : pc[q] \in Inside => q = p
      BY <1>0 DEF Locked
    <2>2. ASSUME NEW q \in Procs, pc'[q] = "sleep_nwrite" PROVE full /\ readopen
      <3>1. CASE q = p
        BY <1>1, <2>2, <3>1
      <3>2. CASE q # p
        <4>1. pc[q] = "sleep_nwrite" /\ s = "sleep_nread"
          BY SMTT(30), <1>1, <2>2, <3>2
        <4> QED BY <1>0, <2>1, <4>1 DEF Sleepers, Inside
      <3> QED BY <3>1, <3>2
    <2>3. ASSUME NEW q \in Procs, pc'[q] = "sleep_nread", ~cut PROVE empty /\ writeopen
      <3>1. q # p
        BY <1>1, <2>3
      <3>2. pc[q] = "sleep_nread" /\ s = "sleep_nwrite"
        BY <1>1, <2>3, <3>1
      <3> QED BY <1>0, <2>1, <2>3, <3>2 DEF Sleepers, Inside
    <2> QED BY <1>6, <2>2, <2>3 DEF Sleepers
  <1> QED BY <1>2, <1>3, <1>4, <1>5, <1>6, <1>7 DEF PipeInv

(* A writer that sleeps, and the ends of the two loops.                    *)
LEMMA WakesStep ==
  ASSUME PipeInv, NEW p \in Procs, write_sleeps(p) \/ write_ends(p) \/ read_ends(p)
  PROVE PipeInv'
  <1>0. TypeOK
    BY DEF PipeInv
  <1>1. /\ lock = p /\ lock' = NoProc /\ left' \in [Procs -> 0..MAXN] /\ killed' \in [Procs -> BOOLEAN]
        /\ UNCHANGED <<data, nread, nwrite, readopen, writeopen, freed, readers, writers, ch, cut>>
    <2>0. left \in [Procs -> 0..MAXN] /\ killed \in [Procs -> BOOLEAN] /\ 0 \in 0..MAXN
      BY <1>0, PipeConstants DEF TypeOK
    <2>1. CASE write_ends(p) \/ read_ends(p)
      <3>1. lock = p
        BY SMTT(30), <2>1 DEF write_ends, read_ends, in
      <3>2. return(p) /\ UNCHANGED cut
        BY <2>1 DEF write_ends, read_ends
      <3> QED BY SMTT(30), <2>0, <3>1, <3>2 DEF return, ends
    <2>2. CASE write_sleeps(p)
      BY <2>0, <2>2 DEF write_sleeps, late_kill, in, ends
    <2> QED BY SMTT(30), <2>1, <2>2
  <1>2. CASE write_sleeps(p)
    <2>1. pc[p] = "write" /\ wakeup("sleep_nread", p, "sleep_nwrite") /\ full /\ readopen
      BY <1>2 DEF write_sleeps, in
    <2> QED BY <1>1, <2>1, Wakes
  <1>3. CASE write_ends(p)
    <2>1. pc[p] = "write" /\ wakeup("sleep_nread", p, "out")
      BY <1>3 DEF write_ends, in
    <2> QED BY <1>1, <2>1, Wakes
  <1>4. CASE read_ends(p)
    <2>1. pc[p] \in {"read", "copy", "copied"} /\ wakeup("sleep_nwrite", p, "out")
      BY <1>4 DEF read_ends, in
    <2> QED BY SMTT(30), <1>1, <2>1, Wakes
  <1> QED BY <1>2, <1>3, <1>4

(* A byte is written.                                                      *)
LEMMA WriteByte ==
  ASSUME PipeInv, NEW p \in Procs, write_byte(p)
  PROVE PipeInv' /\ Length' = Length + 1 /\ Length < PIPESIZE
  <1>0. TypeOK /\ Locked /\ Ends /\ ClosedOnce /\ Sleepers /\ Bounded
    BY SMTT(30) DEF PipeInv
  <1>1. /\ lock = p /\ pc[p] = "write" /\ ~full /\ nwrite' = (nwrite + 1) % UINT
        /\ UNCHANGED <<lock, nread, readopen, writeopen, freed, readers, writers, pc, ch, killed, cut>>
    BY DEF write_byte, in, ends
  <1>2. PICK v \in Bytes : data' = [data EXCEPT ![nwrite % PIPESIZE] = v]
    BY ZenonT(30) DEF write_byte
  <1>3. Length < PIPESIZE
    <2>1. Length # PIPESIZE /\ Length \in 0..UINT - 1
      BY <1>0, <1>1, LengthTells
    <2> QED BY <1>0, <2>1, PipeConstants DEF Bounded
  <1>4. nwrite' \in 0..UINT - 1 /\ Length' = Length + 1
    <2>1. Length < UINT - 1
      BY <1>0, <1>3, LengthTells, PipeConstants
    <2> QED BY <1>0, <1>1, <2>1, LengthMoves
  <1>5. Bounded'
    BY SMTT(30), <1>0, <1>3, <1>4, LengthTells, PipeConstants DEF Bounded
  <1>6. TypeOK'
    <2>1. data' \in [0..PIPESIZE - 1 -> Bytes]
      BY ZenonT(30), <1>0, <1>2 DEF TypeOK
    <2>2. left' \in [Procs -> 0..MAXN]
      BY <1>0, PipeConstants DEF write_byte, TypeOK
    <2> QED BY SMTT(30), <1>0, <1>1, <1>4, <2>1, <2>2 DEF TypeOK
  <1>7. Locked' /\ Ends' /\ ClosedOnce'
    BY <1>0, <1>1 DEF Locked, Ends, ClosedOnce
  <1>8. Sleepers'
    <2>1. \A q \in Procs : pc[q] \in Inside => q = p
      BY <1>0, <1>1 DEF Locked
    <2>2. \A q \in Procs : pc[q] # "sleep_nwrite"
      BY <1>0, <1>1, <2>1 DEF Sleepers, Inside
    <2> QED BY <1>1, <2>2 DEF Sleepers
  <1> QED BY SMTT(30), <1>3, <1>4, <1>5, <1>6, <1>7, <1>8 DEF PipeInv

(* A byte is read.                                                         *)
LEMMA ReadByte ==
  ASSUME PipeInv, NEW p \in Procs, read_byte(p)
  PROVE PipeInv' /\ Length' = Length - 1 /\ Length > 0
  <1>0. TypeOK /\ Locked /\ Ends /\ ClosedOnce /\ Sleepers /\ Bounded
    BY DEF PipeInv
  <1>1. /\ lock = p /\ pc[p] \in {"read", "copy"} /\ ~empty /\ nread' = (nread + 1) % UINT
        /\ ch' = data[nread % PIPESIZE]
        /\ UNCHANGED <<lock, data, nwrite, readopen, writeopen, freed, readers, writers, killed, cut>>
    BY DEF read_byte, in, ends
  <1>2. PICK a \in {"copy", "copied"} : pc' = [pc EXCEPT ![p] = a]
    BY DEF read_byte
  <1>3. Length > 0
    <2>1. Length # 0 /\ Length \in 0..UINT - 1
      BY <1>0, <1>1, LengthTells
    <2> QED BY <2>1, PipeConstants
  <1>4. nread' \in 0..UINT - 1 /\ Length' = Length - 1
    BY <1>0, <1>1, <1>3, LengthMoves
  <1>5. Bounded'
    BY SMTT(30), <1>0, <1>3, <1>4, LengthTells, PipeConstants DEF Bounded
  <1>6. TypeOK'
    <2>1. nread % PIPESIZE \in 0..PIPESIZE - 1
      <3>1. nread \in Nat
        BY SMTT(30), <1>0, PipeConstants DEF TypeOK
      <3> QED BY SMTT(30), <3>1, PipeConstants, DivMod
    <2>2. ch' \in Bytes
      BY SMTT(30), <1>0, <1>1, <2>1 DEF TypeOK
    <2>3. left' \in [Procs -> 0..MAXN]
      <3>1. left[p] > 0 /\ (left' = [left EXCEPT ![p] = @ - 1] \/ left' = left)
        BY DEF read_byte
      <3> QED BY SMTT(30), <1>0, <3>1, PipeConstants DEF TypeOK
    <2>4. pc' \in [Procs -> Locations]
      BY SMTT(30), <1>0, <1>2 DEF TypeOK, Locations
    <2> QED BY SMTT(30), <1>0, <1>1, <1>4, <2>2, <2>3, <2>4 DEF TypeOK
  <1>7. Locked'
    BY SMTT(30), <1>0, <1>1, <1>2 DEF Locked, TypeOK, Inside
  <1>8. Ends'
    BY SMTT(30), <1>0, <1>1, <1>2 DEF Ends, TypeOK, Reading, Writing
  <1>9. ClosedOnce'
    BY SMTT(30), <1>0, <1>1, <1>2 DEF ClosedOnce, TypeOK
  <1>10. Sleepers'
    <2>1. \A q \in Procs : pc[q] \in Inside => q = p
      BY <1>0, <1>1 DEF Locked
    <2>2. \A q \in Procs : pc[q] = "sleep_nread" => cut
      BY <1>0, <1>1, <2>1 DEF Sleepers, Inside
    <2>3. pc'[p] \in {"copy", "copied"}
      BY <1>0, <1>2 DEF TypeOK
    <2>4. \A q \in Procs : pc'[q] = "sleep_nread" => pc[q] = "sleep_nread"
      BY SMTT(30), <1>0, <1>2 DEF TypeOK
    <2> QED BY <1>1, <2>2, <2>3, <2>4 DEF Sleepers
  <1> QED BY SMTT(30), <1>3, <1>4, <1>5, <1>6, <1>7, <1>8, <1>9, <1>10 DEF PipeInv

(* fileclose(): a process gives its reference up.                          *)
LEMMA Fileclose ==
  ASSUME PipeInv, NEW p \in Procs, fileclose(p)
  PROVE PipeInv'
  <1>0. TypeOK /\ Locked /\ Ends /\ ClosedOnce /\ Sleepers /\ Bounded
    BY DEF PipeInv
  <1>1. /\ pc[p] = "out" /\ UNCHANGED <<lock, data, nread, nwrite, readopen, writeopen, freed, left, ch, killed, cut>>
    BY DEF fileclose, pipe
  <1>2. \/ /\ p \in readers /\ readers' = readers \ {p} /\ writers' = writers
           /\ pc' = [pc EXCEPT ![p] = IF readers = {p} THEN "close_read" ELSE "out"]
        \/ /\ p \in writers /\ writers' = writers \ {p} /\ readers' = readers
           /\ pc' = [pc EXCEPT ![p] = IF writers = {p} THEN "close_write" ELSE "out"]
    BY DEF fileclose
  <1>3. PICK a \in {"out", "close_read", "close_write"} :
          /\ pc' = [pc EXCEPT ![p] = a]
          /\ a = "close_read" => readers = {p} /\ readers' = {} /\ writers' = writers
          /\ a = "close_write" => writers = {p} /\ writers' = {} /\ readers' = readers
    BY <1>2
  <1>4. readers' \subseteq readers /\ writers' \subseteq writers
    BY <1>2
  <1>5. \A q \in Procs \ {p} : (q \in readers' <=> q \in readers) /\ (q \in writers' <=> q \in writers)
    BY SMTT(30), <1>2
  <1>6. TypeOK'
    <2>1. pc' \in [Procs -> Locations]
      BY SMTT(30), <1>0, <1>3 DEF TypeOK, Locations
    <2> QED BY SMTT(30), <1>0, <1>1, <1>4, <2>1 DEF TypeOK
  <1>7. Locked'
    BY <1>0, <1>1, <1>3 DEF Locked, TypeOK, Inside
  <1>8. Ends'
    <2>1. ASSUME NEW q \in Procs
          PROVE (pc'[q] \in Reading => q \in readers') /\ (pc'[q] \in Writing => q \in writers')
      <3>1. CASE q = p
        BY SMTT(30), <1>0, <1>3, <3>1 DEF TypeOK, Reading, Writing
      <3>2. CASE q # p
        BY <1>0, <1>3, <1>5, <3>2 DEF TypeOK, Ends
      <3> QED BY <3>1, <3>2
    <2> QED BY <1>0, <1>1, <1>4, <2>1 DEF Ends
  <1>9. ClosedOnce'
    <2>1. \A q \in Procs \ {p} : pc'[q] = pc[q]
      BY SMTT(30), <1>0, <1>3 DEF TypeOK
    <2>2. pc'[p] = a
      BY <1>0, <1>3 DEF TypeOK
    <2>3. \A q \in Procs : (pc[q] = "close_read" => readers = {}) /\ (pc[q] = "close_write" => writers = {})
      BY <1>0 DEF ClosedOnce
    <2>4. ASSUME NEW q \in Procs, pc'[q] = "close_read"
          PROVE readers' = {} /\ readopen' /\ \A r \in Procs : pc'[r] = "close_read" => r = q
      <3>1. CASE q = p
        BY SMTT(30), <1>0, <1>1, <1>3, <2>1, <2>2, <2>3, <2>4, <3>1 DEF Ends
      <3>2. CASE q # p
        BY SMTT(30), <1>0, <1>1, <1>3, <1>4, <2>1, <2>2, <2>3, <2>4, <3>2 DEF ClosedOnce
      <3> QED BY SMTT(30), <3>1, <3>2
    <2>5. ASSUME NEW q \in Procs, pc'[q] = "close_write"
          PROVE writers' = {} /\ writeopen' /\ \A r \in Procs : pc'[r] = "close_write" => r = q
      <3>1. CASE q = p
        BY SMTT(30), <1>0, <1>1, <1>3, <2>1, <2>2, <2>3, <2>5, <3>1 DEF Ends
      <3>2. CASE q # p
        BY SMTT(30), <1>0, <1>1, <1>3, <1>4, <2>1, <2>2, <2>3, <2>5, <3>2 DEF ClosedOnce
      <3> QED BY <3>1, <3>2
    <2> QED BY SMTT(30), <2>4, <2>5 DEF ClosedOnce
  <1>10. Bounded' /\ (full' <=> full) /\ (empty' <=> empty)
    BY SMTT(30), <1>1, SameLength
  <1>11. Sleepers'
    BY SMTT(30), <1>0, <1>1, <1>3, <1>10 DEF Sleepers, TypeOK
  <1> QED BY SMTT(30), <1>6, <1>7, <1>8, <1>9, <1>10, <1>11 DEF PipeInv

(* pipeclose(): an end is closed, and with the second one the pipe freed.  *)
LEMMA Pipeclose ==
  ASSUME PipeInv, NEW p \in Procs, pipeclose(p)
  PROVE PipeInv'
  <1>0. TypeOK /\ Locked /\ Ends /\ ClosedOnce /\ Sleepers /\ Bounded
    BY DEF PipeInv
  <1>1. PICK s \in {"sleep_nread", "sleep_nwrite"} :
          /\ wakeup(s, p, "out")
          /\ s = "sleep_nread" => pc[p] = "close_write" /\ ~writeopen' /\ readopen' = readopen
          /\ s = "sleep_nwrite" => pc[p] = "close_read" /\ ~readopen' /\ writeopen' = writeopen
          /\ readopen' \in BOOLEAN /\ writeopen' \in BOOLEAN
    BY ZenonT(30), <1>0 DEF pipeclose, TypeOK
  <1>2. /\ lock = NoProc /\ freed' = (~readopen' /\ ~writeopen')
        /\ UNCHANGED <<lock, data, nread, nwrite, readers, writers, left, ch, killed, cut>>
    BY SMTT(30) DEF pipeclose, ends
  <1>3. /\ pc' \in [Procs -> Locations] /\ pc'[p] = "out"
        /\ \A q \in Procs \ {p} : pc[q] # s => pc'[q] = pc[q]
        /\ \A q \in Procs \ {p} : pc[q] = s => pc'[q] = IF s = "sleep_nread" THEN "again_read" ELSE "again_write"
    BY SMTT(30), <1>0, <1>1, Wakeup DEF Locations
  <1>4. TypeOK'
    BY SMTT(30), <1>0, <1>1, <1>2, <1>3 DEF TypeOK
  <1>5. Locked'
    BY <1>0, <1>1, <1>2, <1>3, PipeConstants DEF Locked, Inside
  <1>6. (s = "sleep_nread" => writers = {}) /\ (s = "sleep_nwrite" => readers = {})
    BY SMTT(30), <1>0, <1>1 DEF ClosedOnce
  <1>7. Ends'
    <2>1. \A q \in Procs : (pc'[q] \in Reading => q \in readers) /\ (pc'[q] \in Writing => q \in writers)
      BY SMTT(30), <1>0, <1>3 DEF Ends, Reading, Writing
    <2> QED BY SMTT(30), <1>0, <1>1, <1>2, <1>6, <2>1 DEF Ends
  <1>8. ClosedOnce'
    <2>1. \A q \in Procs : pc'[q] \in {"close_read", "close_write"} => q # p /\ pc[q] = pc'[q]
      BY <1>3
    <2> QED BY <1>0, <1>1, <1>2, <2>1 DEF ClosedOnce
  <1>9. Bounded' /\ (full' <=> full) /\ (empty' <=> empty)
    BY <1>2, SameLength
  <1>10. Sleepers'
    <2>1. \A q \in Procs : pc[q] \notin Inside
      BY <1>0, <1>2, PipeConstants DEF Locked
    <2>2. ASSUME NEW q \in Procs, pc'[q] = "sleep_nwrite" PROVE full /\ readopen'
      <3>1. pc[q] = "sleep_nwrite" /\ s = "sleep_nread"
        BY SMTT(30), <1>3, <2>2
      <3> QED BY SMTT(30), <1>0, <1>1, <2>1, <3>1 DEF Sleepers, Inside
    <2>3. ASSUME NEW q \in Procs, pc'[q] = "sleep_nread", ~cut PROVE empty /\ writeopen'
      <3>1. pc[q] = "sleep_nread" /\ s = "sleep_nwrite"
        BY <1>3, <2>3
      <3> QED BY SMTT(30), <1>0, <1>1, <2>1, <2>3, <3>1 DEF Sleepers, Inside
    <2> QED BY SMTT(30), <1>2, <1>9, <2>2, <2>3 DEF Sleepers
  <1> QED BY SMTT(30), <1>4, <1>5, <1>7, <1>8, <1>9, <1>10 DEF PipeInv

(* kill() of a process anywhere.                                           *)
LEMMA Kill ==
  ASSUME PipeInv, NEW p \in Procs, kill(p)
  PROVE PipeInv'
  <1>0. TypeOK /\ Locked /\ Ends /\ ClosedOnce /\ Sleepers /\ Bounded
    BY DEF PipeInv
  <1>1. /\ killed' = [killed EXCEPT ![p] = TRUE]
        /\ UNCHANGED <<lock, data, nread, nwrite, readopen, writeopen, freed, readers, writers, left, ch, cut>>
    BY DEF kill, pipe, ends
  <1>2. /\ \A q \in Procs \ {p} : pc'[q] = pc[q]
        /\ \/ pc'[p] = pc[p]
           \/ pc[p] = "sleep_nread" /\ pc'[p] = "again_read"
           \/ pc[p] = "sleep_nwrite" /\ pc'[p] = "again_write"
        /\ pc' \in [Procs -> Locations]
    BY SMTT(30), <1>0 DEF kill, TypeOK, Locations
  <1>3. TypeOK'
    BY ZenonT(30), <1>0, <1>1, <1>2 DEF TypeOK
  <1>4. Locked'
    BY SMTT(30), <1>0, <1>1, <1>2 DEF Locked, Inside
  <1>5. Ends'
    BY <1>0, <1>1, <1>2 DEF Ends, Reading, Writing
  <1>6. ClosedOnce'
    BY SMTT(30), <1>0, <1>1, <1>2 DEF ClosedOnce
  <1>7. Bounded' /\ (full' <=> full) /\ (empty' <=> empty)
    BY SMTT(30), <1>1, SameLength
  <1>8. Sleepers'
    <2>1. \A q \in Procs : pc'[q] \in {"sleep_nread", "sleep_nwrite"} => pc[q] = pc'[q]
      BY <1>2
    <2>2. \A q \in Procs : pc[q] \in {"copy", "copied", "write"} => pc'[q] = pc[q]
      BY <1>2
    <2> QED BY <1>0, <1>1, <1>7, <2>1, <2>2 DEF Sleepers
  <1> QED BY <1>3, <1>4, <1>5, <1>6, <1>7, <1>8 DEF PipeInv

(* Every step keeps the invariant.                                         *)
LEMMA PipeStep == PipeInv /\ [Next]_vars => PipeInv'
  <1> SUFFICES ASSUME PipeInv, [Next]_vars PROVE PipeInv'
    BY SMTT(30)
  <1>1. CASE UNCHANGED vars
    BY SMTT(30), <1>1 DEF vars, PipeInv, TypeOK, Locked, Ends, ClosedOnce, Sleepers, Bounded, Length, full, empty
  <1>2. CASE Next
    BY SMTT(30), <1>2, EntersStep, LeavesStep, WakesStep, WriteByte, ReadByte, Fileclose, Pipeclose, Kill DEF Next
  <1> QED BY <1>1, <1>2

(* With any number of processes, nobody is or will come inside a pipe that *)
(* pipeclose() has freed.                                                  *)
THEOREM NoUseAfterFreeCorrect == Spec => []NoUseAfterFree
  <1>1. PipeInv => NoUseAfterFree
    <2> SUFFICES ASSUME PipeInv, freed PROVE readers = {} /\ writers = {} /\ \A p \in Procs : pc[p] = "out"
      BY DEF NoUseAfterFree, PipeInv
    <2>1. ~readopen /\ ~writeopen
      BY ZenonT(30) DEF PipeInv, Ends
    <2>2. readers = {} /\ writers = {}
      BY <2>1 DEF PipeInv, Ends
    <2> QED BY <2>1, <2>2 DEF PipeInv, Ends, ClosedOnce, TypeOK, Locations, Reading, Writing
  <1> QED BY <1>1, PipeInitially, PipeStep, PTL DEF Spec

(* With any number of processes and any size of pipe, nobody sleeps on a   *)
(* condition that no longer holds, once pi->lock is free.                  *)
THEOREM NobodyStrandedCorrect == Spec => []NobodyStranded
  <1>1. PipeInv => NobodyStranded
    BY PipeConstants DEF PipeInv, Locked, Inside, Sleepers, NobodyStranded
  <1> QED BY <1>1, PipeInitially, PipeStep, PTL DEF Spec

-----------------------------------------------------------------------------
(* A function on 1..n is a sequence of length n.                           *)
LEMMA FunctionIsSeq ==
  ASSUME NEW S, NEW n \in Nat, NEW f \in [1..n -> S]
  PROVE f \in Seq(S) /\ Len(f) = n
  OBVIOUS

\* The bytes between nread and nwrite.
ContentsKnown ==
  /\ Length \in 0..PIPESIZE /\ Contents \in Seq(Bytes) /\ Len(Contents) = Length
  /\ \A k \in 1..Length : Contents[k] = data[Cell(k)]

(* The contents of the pipe are a sequence of bytes.                       *)
LEMMA ContentsAre == PipeInv => ContentsKnown
  <1> SUFFICES ASSUME PipeInv PROVE ContentsKnown
    OBVIOUS
  <1>0. TypeOK /\ Bounded
    BY DEF PipeInv
  <1>1. Length \in 0..PIPESIZE
    BY <1>0, LengthTells, PipeConstants DEF Bounded
  <1>2. Contents = [k \in 1..Length |-> data[Cell(k)]]
    BY DEF Contents, Cell
  <1>3. \A k \in 1..Length : data[Cell(k)] \in Bytes
    BY SMTT(30), <1>0, <1>1, Cells, PipeConstants DEF TypeOK
  <1>4. Contents \in [1..Length -> Bytes]
    BY <1>2, <1>3
  <1>5. Contents \in Seq(Bytes) /\ Len(Contents) = Length
    BY <1>1, <1>4, FunctionIsSeq, PipeConstants
  <1> QED BY <1>1, <1>2, <1>5 DEF ContentsKnown

(* So they are after a step.                                               *)
LEMMA ContentsAreNext == PipeInv' => ContentsKnown'
  BY ContentsAre, PTL

(* Writing a byte puts it at the end of the queue ...                      *)
LEMMA WritePuts ==
  ASSUME PipeInv, NEW p \in Procs, write_byte(p)
  PROVE Queue!Put
  <1>0. TypeOK /\ Bounded /\ ContentsKnown
    BY ContentsAre DEF PipeInv
  <1>1. ContentsKnown' /\ Length' = Length + 1 /\ Length < PIPESIZE
    BY SMTT(30), WriteByte, ContentsAreNext
  <1>2. PICK v \in Bytes : data' = [data EXCEPT ![nwrite % PIPESIZE] = v]
    BY ZenonT(30) DEF write_byte
  <1>3. nread' = nread /\ ch' = ch /\ \A k : Cell(k)' = Cell(k)
    BY DEF write_byte, Cell
  <1>4. PICK n \in 0..PIPESIZE - 1 : n = Length
    BY SMTT(30), <1>0, <1>1, PipeConstants DEF ContentsKnown
  <1>5. /\ \A k \in 1..n : Cell(k) \in 0..PIPESIZE - 1 /\ Cell(k) # nwrite % PIPESIZE
        /\ Cell(n + 1) = nwrite % PIPESIZE /\ nwrite % PIPESIZE \in 0..PIPESIZE - 1
    BY SMTT(30), <1>0, <1>1, <1>4, Cells, PipeConstants
  <1>6. /\ \A k \in 1..n : data'[Cell(k)] = data[Cell(k)]
        /\ data'[Cell(n + 1)] = v
    BY SMTT(30), <1>0, <1>2, <1>5 DEF TypeOK
  <1>7. /\ Contents' \in Seq(Bytes) /\ Len(Contents') = n + 1
        /\ \A k \in 1..n : Contents'[k] = Contents[k]
        /\ Contents'[n + 1] = v
    <2>1. Contents' \in Seq(Bytes) /\ Len(Contents') = n + 1
      BY SMTT(30), <1>1, <1>4 DEF ContentsKnown
    <2>2. \A k \in 1..n + 1 : Contents'[k] = data'[Cell(k)]
      BY <1>1, <1>3, <1>4 DEF ContentsKnown
    <2>3. \A k \in 1..n : Contents[k] = data[Cell(k)]
      BY SMTT(30), <1>0, <1>4 DEF ContentsKnown
    <2> QED BY SMTT(30), <1>4, <1>6, <2>1, <2>2, <2>3, PipeConstants
  <1>8. /\ Append(Contents, v) \in Seq(Bytes) /\ Len(Append(Contents, v)) = n + 1
        /\ \A k \in 1..n : Append(Contents, v)[k] = Contents[k]
        /\ Append(Contents, v)[n + 1] = v
    BY SMTT(30), <1>0, <1>4, AppendProperties DEF ContentsKnown
  <1>9. Contents' = Append(Contents, v)
    <2>1. \A k \in 1..n + 1 : k \in 1..n \/ k = n + 1
      BY <1>4, PipeConstants
    <2>2. \A k \in 1..n + 1 : Contents'[k] = Append(Contents, v)[k]
      BY SMTT(30), <1>7, <1>8, <2>1
    <2> QED BY SMTT(30), <1>7, <1>8, <2>2, SeqEqual
  <1> QED BY <1>0, <1>1, <1>3, <1>9 DEF ContentsKnown, Queue!Put

(* ... and reading one takes it from the front.                            *)
LEMMA ReadTakes ==
  ASSUME PipeInv, NEW p \in Procs, read_byte(p)
  PROVE Queue!Take
  <1>0. TypeOK /\ Bounded /\ ContentsKnown
    BY ContentsAre DEF PipeInv
  <1>1. ContentsKnown' /\ Length' = Length - 1 /\ Length > 0
    BY ReadByte, ContentsAreNext
  <1>2. data' = data /\ nread' = (nread + 1) % UINT /\ ch' = data[nread % PIPESIZE]
    BY SMTT(30) DEF read_byte
  <1>3. PICK n \in 1..PIPESIZE : n = Length
    BY SMTT(30), <1>0, <1>1, PipeConstants DEF ContentsKnown
  <1>4. nread % PIPESIZE = Cell(1) /\ \A k \in 1..PIPESIZE : Cell(k)' = Cell(k + 1)
    BY <1>0, <1>2, Cells
  <1>5. Contents # << >> /\ Head(Contents) = Contents[1]
    BY SMTT(30), <1>0, <1>1 DEF ContentsKnown
  <1>6. ch' = Head(Contents)
    BY <1>0, <1>2, <1>3, <1>4, <1>5, PipeConstants DEF ContentsKnown
  <1>7. /\ Tail(Contents) \in Seq(Bytes) /\ Len(Tail(Contents)) = n - 1
        /\ \A k \in 1..n - 1 : Tail(Contents)[k] = Contents[k + 1]
    BY SMTT(30), <1>0, <1>3, <1>5, HeadTailProperties DEF ContentsKnown
  <1>8. /\ Contents' \in Seq(Bytes) /\ Len(Contents') = n - 1
        /\ \A k \in 1..n - 1 : Contents'[k] = Contents[k + 1]
    <2>1. Contents' \in Seq(Bytes) /\ Len(Contents') = n - 1
      BY SMTT(30), <1>1, <1>3 DEF ContentsKnown
    <2>2. ASSUME NEW k \in 1..n - 1 PROVE Contents'[k] = Contents[k + 1]
      <3>1. k \in 1..PIPESIZE /\ k \in 1..Length' /\ k + 1 \in 1..Length
        BY SMTT(30), <1>1, <1>3, PipeConstants
      <3>2. Contents'[k] = data'[Cell(k)']
        BY SMTT(30), <1>1, <3>1 DEF ContentsKnown
      <3>3. Contents[k + 1] = data[Cell(k + 1)]
        BY <1>0, <3>1 DEF ContentsKnown
      <3> QED BY <1>2, <1>4, <3>1, <3>2, <3>3
    <2> QED BY <2>1, <2>2
  <1>9. Contents' = Tail(Contents)
    BY <1>7, <1>8, SeqEqual
  <1> QED BY SMTT(30), <1>5, <1>6, <1>9 DEF Queue!Take

(* With any number of processes, any size of pipe and counters that wrap   *)
(* anywhere, the pipe is a queue.                                          *)
THEOREM PipeRefinesQueue == Spec => PipeIsQueue
  <1>1. Init => Queue!Init
    <2> SUFFICES ASSUME Init PROVE Queue!Init
      OBVIOUS
    <2>1. PipeInv /\ empty
      BY PipeInitially DEF Init, empty
    <2>2. ContentsKnown /\ Length = 0
      BY <2>1, ContentsAre, LengthTells DEF PipeInv
    <2>3. Contents = << >>
      BY SMTT(30), <2>2, EmptySeq DEF ContentsKnown
    <2> QED BY <2>3 DEF Init, Queue!Init
  <1>2. PipeInv /\ [Next]_vars => [Queue!Put \/ Queue!Take]_(Queue!vars)
    <2> SUFFICES ASSUME PipeInv, [Next]_vars PROVE [Queue!Put \/ Queue!Take]_(Queue!vars)
      OBVIOUS
    <2>1. CASE \E p \in Procs : write_byte(p)
      BY <2>1, WritePuts
    <2>2. CASE \E p \in Procs : read_byte(p)
      BY <2>2, ReadTakes
    <2>3. CASE UNCHANGED <<nread, nwrite, data, ch>>
      BY SMTT(30), <2>3 DEF Queue!vars, Contents, Length
    <2>4. CASE UNCHANGED vars
      BY SMTT(30), <2>3, <2>4 DEF vars
    <2>5. ASSUME NEW p \in Procs,
                 \/ pipewrite(p) \/ write_aborts(p) \/ write_sleeps(p) \/ write_ends(p)
                 \/ piperead(p) \/ read_aborts(p) \/ read_sleeps(p) \/ read_ends(p)
                 \/ sleep_returns(p) \/ fileclose(p) \/ pipeclose(p) \/ kill(p)
          PROVE UNCHANGED <<nread, nwrite, data, ch>>
      BY <2>5 DEF pipewrite, write_aborts, write_sleeps, write_ends, piperead, read_aborts, read_sleeps,
                  read_ends, sleep_returns, fileclose, pipeclose, kill, enter, return, pipe
    <2> QED BY SMTT(30), <2>1, <2>2, <2>3, <2>4, <2>5 DEF Next
  <1> QED BY <1>1, <1>2, PipeInitially, PipeStep, PTL DEF Spec, PipeIsQueue, Queue!Spec
=============================================================================
