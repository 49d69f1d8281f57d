-------------------------------- MODULE File --------------------------------
(***************************************************************************)
(* Open files and their contents: kernel/file.c, the block and contents    *)
(* layers of kernel/fs.c (balloc, bfree, bmap, itrunc, readi, writei) and  *)
(* the descriptor calls of kernel/sysfile.c.                               *)
(*                                                                         *)
(* A file table entry is shared by the descriptors that dup() and fork()   *)
(* made of it, with its offset.  A write is cut into pieces, each a        *)
(* transaction under the inode's lock, and other processes run between     *)
(* two pieces.  As in Mem, a routine of fs.c is an operator on a frame:    *)
(* the blocks and one inode.  A block is a vector of numbers: bytes of     *)
(* data or block addresses.                                                *)
(*                                                                         *)
(* A copy from the user that fails half way leaves its first bytes in the  *)
(* buffer, and the buffer out of the log: torn holds what the disk has.    *)
(***************************************************************************)
EXTENDS Integers, Sequences, FiniteSets, TLC

CONSTANTS
  Users,                  \* processes
  NFILE, NOFILE,
  Inodes, FirstInode,     \* numbers above 0; the first is the one that mkfs fills
  Image,                  \* with these bytes
  NBLOCKS,                \* data blocks of the disk; block 0 means none
  BSIZE, NDIRECT, NINDIRECT,
  BPB,                    \* blocks per bitmap block
  MAXOPBLOCKS,
  Values,                 \* bytes that are written
  Sizes,                  \* arguments n of read() and write()
  MaxFileCalls            \* bound on the calls

MAXFILE == NDIRECT + NINDIRECT

VARIABLES
  ofile,    \* p->ofile, entries of the file table or 0
  file,     \* ftable.file
  bits,     \* the bitmap: blocks in use
  blk,      \* contents of the blocks, as bread() returns them
  torn,     \* the blocks whose buffer is not what the disk has, with that
  ino,      \* size and addrs of the inodes
  wcall,    \* the write() each process is in
  logged,   \* how many blocks the last piece of a write put into the log
  may,      \* history: the bytes that each byte of an inode may be
  ncalls

filevars == <<ofile, file, bits, blk, torn, ino, wcall, logged, may, ncalls>>

Cells == 0..(IF BSIZE > NINDIRECT THEN BSIZE ELSE NINDIRECT) - 1
Zero == [c \in Cells |-> 0]
NoInode == 0                  \* of a file that is a pipe
NoFile == [ref |-> 0, ip |-> FirstInode, off |-> 0, r |-> FALSE, w |-> FALSE]
NoWrite == [fd |-> 0, i |-> 0, n |-> 0, v |-> 0, good |-> 0]

Less(a, b) == IF a < b THEN a ELSE b

\* mkfs: iappend() takes block after block for the image, and balloc() marks
\* the blocks below freeblock.
mk_new(x) == [x EXCEPT !.got = x.freeblock, !.freeblock = @ + 1]
mk_slot(x, k) ==
  IF x.addrs[k] # 0 THEN [x EXCEPT !.got = x.addrs[k]]
  ELSE [mk_new(x) EXCEPT !.addrs[k] = x.freeblock]
mk_entry(x, ind, k) ==
  IF x.blk[ind][k] # 0 THEN [x EXCEPT !.got = x.blk[ind][k]]
  ELSE [mk_new(x) EXCEPT !.blk[ind][k] = x.freeblock]
mk_indirect(x, k) == mk_entry(x, x.got, k)
RECURSIVE iappend(_, _), iappend_block(_, _)
iappend_block(x, bytes) ==
  LET at == x.size % BSIZE
      n1 == Less(Len(bytes), BSIZE - at) IN
  iappend([x EXCEPT !.blk[x.got] = [c \in Cells |-> IF c \in at..at + n1 - 1 THEN bytes[c - at + 1] ELSE @[c]],
                    !.size = @ + n1], SubSeq(bytes, n1 + 1, Len(bytes)))
iappend(x, bytes) ==
  IF bytes = <<>> THEN x
  ELSE iappend_block(IF x.size \div BSIZE < NDIRECT THEN mk_slot(x, x.size \div BSIZE)
                     ELSE mk_indirect(mk_slot(x, NDIRECT), (x.size \div BSIZE) - NDIRECT), bytes)

NoBlocks == [k \in 0..NDIRECT |-> 0]
mkfs(x) ==
  /\ bits = 1..x.freeblock - 1
  /\ blk = x.blk
  /\ ino = [ip \in Inodes |-> IF ip = FirstInode THEN [size |-> x.size, addrs |-> x.addrs]
                             ELSE [size |-> 0, addrs |-> NoBlocks]]
FileInit ==
  /\ mkfs(iappend([blk |-> [b \in 1..NBLOCKS |-> Zero], freeblock |-> 1, got |-> 0, size |-> 0, addrs |-> NoBlocks], Image))
  /\ may = [ip \in Inodes |-> IF ip = FirstInode THEN [k \in 1..Len(Image) |-> {Image[k]}] ELSE <<>>]
  /\ ofile = [u \in Users |-> [fd \in 1..NOFILE |-> 0]]
  /\ file = [f \in 1..NFILE |-> NoFile]
  /\ torn = <<>>
  /\ wcall = [u \in Users |-> NoWrite]
  /\ logged = 0 /\ ncalls = 0

-----------------------------------------------------------------------------
(* Blocks.                                                                 *)

Frame_(ip) == [bits |-> bits, blk |-> blk, torn |-> torn, size |-> ino[ip].size, addrs |-> ino[ip].addrs,
               log |-> {}, got |-> 0, tot |-> 0]

log_write(x, b) == [x EXCEPT !.log = @ \union {<<"block", b>>}, !.torn = [c \in DOMAIN @ \ {b} |-> x.torn[c]]]

\* First fit; the block is cleared by bzero().
bzero(x, b) == [log_write(x, b) EXCEPT !.blk[b] = Zero]
balloc(x) ==
  LET unused == {b \in 1..NBLOCKS : b \notin x.bits}
      b == CHOOSE c \in unused : \A d \in unused : c <= d IN
  IF unused = {} THEN [x EXCEPT !.got = 0]
  ELSE bzero([x EXCEPT !.bits = @ \union {b}, !.got = b, !.log = @ \union {<<"bitmap", b \div BPB>>}], b)

bmap_direct(y, k) == IF y.got = 0 THEN y ELSE [y EXCEPT !.addrs[k] = y.got]
bmap_slot(x, k) == IF x.addrs[k] # 0 THEN [x EXCEPT !.got = x.addrs[k]] ELSE bmap_direct(balloc(x), k)
bmap_entry(z, ind, k) == IF z.got = 0 THEN z ELSE [log_write(z, ind) EXCEPT !.blk[ind][k] = z.got]
bmap_indirect(y, k) ==
  IF y.got = 0 THEN y
  ELSE IF y.blk[y.got][k] # 0 THEN [y EXCEPT !.got = y.blk[y.got][k]]
  ELSE bmap_entry(balloc(y), y.got, k)
bmap(x, bn) == IF bn < NDIRECT THEN bmap_slot(x, bn) ELSE bmap_indirect(bmap_slot(x, NDIRECT), bn - NDIRECT)

\* The blocks an inode holds.
Entries(x, ind) == {x.blk[ind][k] : k \in 0..NINDIRECT - 1} \ {0}
Holds(x) == ({x.addrs[k] : k \in 0..NDIRECT} \ {0})
            \union (IF x.addrs[NDIRECT] = 0 THEN {} ELSE Entries(x, x.addrs[NDIRECT]))

bfree(x, S) == [x EXCEPT !.bits = @ \ S]
itrunc_leaky(x) == [bfree(x, Holds(x) \ {x.addrs[NDIRECT]}) EXCEPT !.addrs = NoBlocks, !.size = 0]
itrunc(x) == [bfree(x, Holds(x)) EXCEPT !.addrs = NoBlocks, !.size = 0]

-----------------------------------------------------------------------------
(* Contents.                                                               *)

\* The bytes that readi() copies out.
RECURSIVE readi_from(_, _, _), readi_block(_, _, _)
readi_block(y, off, n) ==
  LET m == Less(n, BSIZE - (off % BSIZE)) IN
  IF y.got = 0 THEN <<>>
  ELSE [i \in 1..m |-> y.blk[y.got][(off % BSIZE) + i - 1]] \o readi_from(y, off + m, n - m)
readi_from(x, off, n) == IF n = 0 THEN <<>> ELSE readi_block(bmap(x, off \div BSIZE), off, n)
readi(x, off, n) == IF off > x.size THEN <<>> ELSE readi_from(x, off, Less(n, x.size - off))

\* writei() of n bytes v, the first good of which can be copied in.
Copied(y, off, m, v) ==
  [y EXCEPT !.blk[y.got] = [c \in Cells |-> IF c \in (off % BSIZE)..(off % BSIZE) + m - 1 THEN v ELSE @[c]]]
Torn(y, b) == [y EXCEPT !.torn = IF b \in DOMAIN @ THEN @ ELSE (b :> y.blk[b]) @@ @]
RECURSIVE writei_from(_, _, _, _, _), writei_block(_, _, _, _, _)
writei_block(y, off, n, good, v) ==
  LET m == Less(n - y.tot, BSIZE - (off % BSIZE)) IN
  IF y.got = 0 THEN y
  ELSE IF y.tot + m > good THEN Copied(Torn(y, y.got), off, good - y.tot, v)
  ELSE writei_from([log_write(Copied(y, off, m, v), y.got) EXCEPT !.tot = @ + m], off + m, n, good, v)
writei_from(x, off, n, good, v) ==
  IF x.tot >= n THEN x ELSE writei_block(bmap(x, off \div BSIZE), off, n, good, v)
grown_to(x, off) == [x EXCEPT !.size = IF off + x.tot > @ THEN off + x.tot ELSE @, !.log = @ \union {<<"inode", 0>>}]
writei(x, off, n, good, v) ==
  IF off > x.size \/ off + n > MAXFILE * BSIZE THEN [x EXCEPT !.tot = -1]
  ELSE grown_to(writei_from(x, off, n, good, v), off)

-----------------------------------------------------------------------------
(* Descriptors.                                                            *)

Fresh(S) == CHOOSE x \in S : \A y \in S : x <= y
FreeFiles == {f \in 1..NFILE : file[f].ref = 0}
FreeIn(o) == {fd \in 1..NOFILE : o[fd] = 0}
FreeFds(u) == FreeIn(ofile[u])
fdalloc(o, f) == IF FreeIn(o) = {} THEN o ELSE [o EXCEPT ![Fresh(FreeIn(o))] = f]
filedup(fl, f) == [fl EXCEPT ![f].ref = @ + 1]
Called(u) == wcall[u] = NoWrite /\ ncalls < MaxFileCalls /\ ncalls' = ncalls + 1

\* The references of one process less: fileclose() for each fd of S.
Closed(u, S) ==
  [f \in 1..NFILE |->
    LET left == file[f].ref - Cardinality({fd \in S : ofile[u][fd] = f}) IN
    IF left = 0 THEN NoFile ELSE [file[f] EXCEPT !.ref = left]]

\* sys_open() of an existing file; O_TRUNC discards its contents.
open(u, ip, r, w, trunc) ==
  LET f == Fresh(FreeFiles)
      x == itrunc(Frame_(ip)) IN
  /\ Called(u)
  /\ FreeFiles # {} /\ FreeFds(u) # {}
  /\ ofile' = [ofile EXCEPT ![u] = fdalloc(@, f)]
  /\ file' = [file EXCEPT ![f] = [ref |-> 1, ip |-> ip, off |-> 0, r |-> r, w |-> w]]
  /\ IF trunc THEN /\ bits' = x.bits
                   /\ ino' = [ino EXCEPT ![ip] = [size |-> x.size, addrs |-> x.addrs]]
                   /\ may' = [may EXCEPT ![ip] = <<>>]
     ELSE UNCHANGED <<bits, ino, may>>
  /\ UNCHANGED <<blk, torn, wcall, logged>>

dup(u, fd) ==
  /\ Called(u)
  /\ ofile[u][fd] # 0 /\ FreeFds(u) # {}
  /\ ofile' = [ofile EXCEPT ![u] = fdalloc(@, ofile[u][fd])]
  /\ file' = filedup(file, ofile[u][fd])
  /\ UNCHANGED <<bits, blk, torn, ino, wcall, logged, may>>

close(u, fd) ==
  /\ Called(u)
  /\ ofile[u][fd] # 0
  /\ ofile' = [ofile EXCEPT ![u][fd] = 0]
  /\ file' = Closed(u, {fd})
  /\ UNCHANGED <<bits, blk, torn, ino, wcall, logged, may>>

\* sys_pipe(): two files and two descriptors.  When a descriptor is missing,
\* or the copyout of the two fails, the files are closed and the descriptors
\* that were taken are given back.
Pipe(fl, rf, wf) ==
  [fl EXCEPT ![rf] = [ref |-> 1, ip |-> NoInode, off |-> 0, r |-> TRUE, w |-> FALSE],
             ![wf] = [ref |-> 1, ip |-> NoInode, off |-> 0, r |-> FALSE, w |-> TRUE]]
fds_back(o, S) == [fd \in 1..NOFILE |-> IF o[fd] \in S THEN 0 ELSE o[fd]]
sys_pipe(u, copied) ==
  LET rf == Fresh(FreeFiles)
      wf == Fresh(FreeFiles \ {rf})
      o == fdalloc(fdalloc(ofile[u], rf), wf) IN
  /\ Called(u)
  /\ Cardinality(FreeFiles) >= 2
  /\ IF copied /\ Cardinality(FreeFds(u)) >= 2
     THEN ofile' = [ofile EXCEPT ![u] = o] /\ file' = Pipe(file, rf, wf)
     ELSE /\ ofile' = [ofile EXCEPT ![u] = fds_back(o, {rf, wf})]
          /\ file' = [Pipe(file, rf, wf) EXCEPT ![rf] = NoFile, ![wf] = NoFile]
  /\ UNCHANGED <<bits, blk, torn, ino, wcall, logged, may>>

\* fork() into a process without files, and exit().
fork_files(u, t) ==
  /\ Called(u)
  /\ u # t /\ wcall[t] = NoWrite /\ FreeFds(t) = 1..NOFILE
  /\ ofile' = [ofile EXCEPT ![t] = ofile[u]]
  /\ file' = [f \in 1..NFILE |-> [file[f] EXCEPT !.ref = @ + Cardinality({fd \in 1..NOFILE : ofile[u][fd] = f})]]
  /\ UNCHANGED <<bits, blk, torn, ino, wcall, logged, may>>
exit_files(u) ==
  /\ Called(u)
  /\ FreeFds(u) # 1..NOFILE
  /\ ofile' = [ofile EXCEPT ![u] = [fd \in 1..NOFILE |-> 0]]
  /\ file' = Closed(u, 1..NOFILE)
  /\ UNCHANGED <<bits, blk, torn, ino, wcall, logged, may>>

fileread(u, fd, n) ==
  LET f == file[ofile[u][fd]] IN
  /\ Called(u)
  /\ ofile[u][fd] # 0
  /\ f.r /\ f.ip # NoInode      \* module Pipe has the others
  /\ file' = [file EXCEPT ![ofile[u][fd]].off = @ + Len(readi(Frame_(f.ip), f.off, n))]
  /\ UNCHANGED <<ofile, bits, blk, torn, ino, wcall, logged, may>>

sys_write(u, fd, n, v, good) ==
  /\ Called(u)
  /\ ofile[u][fd] # 0 /\ file[ofile[u][fd]].w /\ file[ofile[u][fd]].ip # NoInode
  /\ wcall' = [wcall EXCEPT ![u] = [fd |-> fd, i |-> 0, n |-> n, v |-> v, good |-> good]]
  /\ UNCHANGED <<ofile, file, bits, blk, torn, ino, logged, may>>

\* The bytes a piece may leave: the tot that it reports are v, and of the
\* block at which a copy failed some may be.
MayBe(s, off, tot, size, v) ==
  [k \in 1..size |-> IF k \in off + 1..off + tot THEN {v} ELSE IF k > off + tot THEN s[k] \union {v} ELSE s[k]]

piece_max_slop == ((MAXOPBLOCKS - 1 - 1) \div 2) * BSIZE
piece_max == ((MAXOPBLOCKS - 1 - 1 - 2) \div 2) * BSIZE

\* A piece of filewrite(): one transaction.
wrote(u, f, x, n1) ==
  LET ip == file[f].ip
      w == wcall[u]
      r == x.tot IN
  /\ file' = IF r > 0 THEN [file EXCEPT ![f].off = @ + r] ELSE file
  /\ bits' = x.bits /\ blk' = x.blk /\ torn' = x.torn
  /\ ino' = [ino EXCEPT ![ip] = [size |-> x.size, addrs |-> x.addrs]]
  /\ logged' = Cardinality(x.log)
  /\ may' = IF r < 0 THEN may
            ELSE [may EXCEPT ![ip] = IF r = n1 THEN [k \in 1..x.size |-> IF k \in file[f].off + 1..file[f].off + r
                                                                         THEN {w.v} ELSE @[k]]
                                     ELSE MayBe(@, file[f].off, r, x.size, w.v)]
  /\ wcall' = [wcall EXCEPT ![u] = IF r = n1 /\ w.i + r < w.n THEN [w EXCEPT !.i = @ + r, !.good = @ - r] ELSE NoWrite]
  /\ UNCHANGED <<ofile, ncalls>>
filewrite(u) ==
  LET w == wcall[u]
      f == ofile[u][w.fd]
      n1 == Less(w.n - w.i, piece_max) IN
  /\ w.n > 0
  /\ wrote(u, f, writei(Frame_(file[f].ip), file[f].off, n1, w.good, w.v), n1)

\* bget() recycles the buffer of a block that nothing pins.
recycle(b) ==
  /\ b \in DOMAIN torn
  /\ blk' = [blk EXCEPT ![b] = torn[b]]
  /\ torn' = [c \in DOMAIN torn \ {b} |-> torn[c]]
  /\ UNCHANGED <<ofile, file, bits, ino, wcall, logged, may, ncalls>>

FileNext ==
  \/ \E u \in Users :
       \/ \E ip \in Inodes, r, w, trunc \in BOOLEAN : (r \/ w) /\ open(u, ip, r, w, trunc)
       \/ \E fd \in 1..NOFILE :
            \/ dup(u, fd)
            \/ close(u, fd)
            \/ \E n \in Sizes : fileread(u, fd, n)
            \/ \E n \in Sizes, v \in Values : \E good \in {0, 1, n} : sys_write(u, fd, n, v, good)
       \/ \E copied \in BOOLEAN : sys_pipe(u, copied)
       \/ \E t \in Users : fork_files(u, t)
       \/ exit_files(u)
       \/ filewrite(u)
  \/ \E b \in 1..NBLOCKS : recycle(b)

-----------------------------------------------------------------------------
(* What holds.                                                             *)

(* However descriptors are shared, writes cut and interleaved, the disk    *)
(* full and copies failed half way: a file table entry counts exactly the  *)
(* descriptors that share it; the bitmap marks exactly the blocks inodes   *)
(* hold, each held once; and readi() returns at every offset exactly the   *)
(* bytes there are up to the size, each one that was last written there,   *)
(* and has no block to allocate.                                           *)
FilesExact ==
  LET In(ip) == Frame_(ip) IN
  /\ \A f \in 1..NFILE : file[f].ref = Cardinality({<<u, fd>> \in Users \X (1..NOFILE) : ofile[u][fd] = f})
  /\ bits = UNION {Holds(In(ip)) : ip \in Inodes}
  /\ Cardinality(bits) = Cardinality({<<ip, b>> \in Inodes \X (1..NBLOCKS) : b \in Holds(In(ip))})
  /\ \A ip \in Inodes :
       /\ Len(may[ip]) = ino[ip].size
       /\ \A off \in 0..ino[ip].size - 1 : bmap(In(ip), off \div BSIZE).log = {}
       /\ \A off \in 0..MAXFILE * BSIZE, n \in Sizes :
            LET got == readi(In(ip), off, n) IN
            /\ Len(got) = IF off > ino[ip].size THEN 0 ELSE Less(n, ino[ip].size - off)
            /\ \A i \in 1..Len(got) : got[i] \in may[ip][off + i]

(* A piece of a write puts at most MAXOPBLOCKS distinct blocks into the    *)
(* log, even unaligned, with every bitmap bit in a block of its own and    *)
(* the indirect block new: filewrite()'s cut fits what begin_op()          *)
(* reserves.                                                               *)
TransactionFits == logged <= MAXOPBLOCKS
=============================================================================
