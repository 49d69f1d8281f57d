--------------------------------- MODULE Fs ---------------------------------
(***************************************************************************)
(* kernel/fs.c and kernel/sysfile.c: the inode table, directories, path    *)
(* names and the system calls that change the name space, with power       *)
(* failures.                                                               *)
(*                                                                         *)
(* cache is the file system as the running kernel sees it, disk the part   *)
(* the log has committed: end_op() of the last operation under way commits *)
(* everything at once (module Log shows that it may be seen so), and a     *)
(* crash loses the rest.  A directory is its entries by name; block        *)
(* allocation belongs to module File, so that "the disk is full" is a      *)
(* choice here.  A critical section of itable.lock, or of one inode's      *)
(* sleep-lock, is one action; a sleep-lock kept across actions is in lock. *)
(* An inode table entry stands under its inode number, since iget() never  *)
(* gives an inode two entries.                                             *)
(***************************************************************************)
EXTENDS Naturals, Sequences, FiniteSets, FiniteSetsExt

CONSTANTS
  Procs,
  NINODES,     \* the on-disk inodes are 1..NINODES - 1
  NINODE,      \* param.h: entries of the inode table
  Names,       \* of files and directories, "." and ".." apart
  Calls,       \* records [op, path, new]: the system calls they make, a path being
               \* a record [abs, elems]
  NoProc,
  MaxCalls,    \* bound: the system calls of a behaviour
  FORMATTED,   \* inodes that mkfs has made: a root and up to FORMATTED - 1 files
  Trees        \* other disks to start from, as an earlier boot has left them

ROOTINO == 1
None == 0
Inums == 1..NINODES - 1
AllNames == Names \union {".", ".."}
NoEnts == [n \in AllNames |-> None]
NoPath == [abs |-> FALSE, elems |-> <<>>]
FreeInode == [type |-> "0", nlink |-> 0, ents |-> NoEnts]
FreeEntry == [ref |-> 0, valid |-> FALSE, type |-> "0", nlink |-> 0]

VARIABLES
  disk,        \* the committed inodes with their directory entries
  cache,       \* the same with the operations under way
  itab,        \* itable: what ref counts, valid, and the copy of the disk inode
  lock,        \* ip->lock
  cwd,         \* p->cwd
  ofile,       \* p->ofile, reduced to one descriptor: its f->ip
  loc,         \* the system call in progress: its place and its pointers
  panic,       \* the message the machine halted with
  lost,        \* history: named by a directory when its inode was freed
  leaked,      \* history: unlinked but allocated when the power failed
  strayed,     \* history: ".." of a removed directory was followed
  budget       \* system calls still to be made: a bound on the exploration

vars == <<disk, cache, itab, lock, cwd, ofile, loc, panic, lost, leaked, strayed, budget>>

\* cur, ip, dp and puts hold the inodes the call has a reference to.
Idle == [pc |-> "idle", op |-> "none", path |-> <<>>, new |-> NoPath, name |-> ".",
         cur |-> None, ip |-> None, dp |-> None, puts |-> <<>>, ret |-> "idle"]

at(p, a) == loc[p].pc = a /\ panic = "none"
goto(p, l) == loc' = [loc EXCEPT ![p] = l]

\* A local frame l on its way through iput() of the inodes in s, then to r.
Putting(l, s, r) == [l EXCEPT !.pc = "iput", !.puts = s, !.ret = r]

\* mkfs: a root directory with "." and "..", and the first k names given to files.
Nth(k) == CHOOSE f \in [2..k -> Names] : \A i, j \in 2..k : f[i] = f[j] => i = j
Formatted(k) ==
  [i \in Inums |->
    CASE i = ROOTINO ->
           [type |-> "DIR", nlink |-> 1,
            ents |-> [n \in AllNames |->
              IF n \in {".", ".."} THEN ROOTINO
              ELSE IF \E j \in 2..k : Nth(k)[j] = n THEN CHOOSE j \in 2..k : Nth(k)[j] = n ELSE None]]
      [] i \in 2..k -> [FreeInode EXCEPT !.type = "FILE", !.nlink = 1]
      [] OTHER -> FreeInode]

\* iinit() and userinit(): every process starts in the root directory.
BootTable == [i \in Inums |-> IF i = ROOTINO THEN [FreeEntry EXCEPT !.ref = Cardinality(Procs)] ELSE FreeEntry]
Unlocked == [i \in Inums |-> NoProc]
AtRoot == [p \in Procs |-> ROOTINO]
NoFiles == [p \in Procs |-> None]

Init ==
  /\ disk \in Trees \union {Formatted(k) : k \in 1..FORMATTED}
  /\ cache = disk
  /\ itab = BootTable /\ lock = Unlocked /\ cwd = AtRoot /\ ofile = NoFiles
  /\ loc = [p \in Procs |-> Idle]
  /\ panic = "none"
  /\ lost = {} /\ leaked = {} /\ strayed = FALSE /\ budget = MaxCalls

-----------------------------------------------------------------------------
(* The inode table.                                                        *)

iget_uncounted(t, i) ==
  IF t[i].ref > 0 THEN t ELSE [t EXCEPT ![i] = [FreeEntry EXCEPT !.ref = 1]]
iget(t, i) ==
  IF t[i].ref > 0 THEN [t EXCEPT ![i].ref = @ + 1] ELSE [t EXCEPT ![i] = [FreeEntry EXCEPT !.ref = 1]]

\* iget(i) finds i in the table, or an entry for it.
HasEntry(i) == itab[i].ref > 0 \/ Cardinality({j \in Inums : itab[j].ref > 0}) < NINODE

\* ilock()'s reading of the inode, when the lock is taken.
loaded(t, i) ==
  IF t[i].valid THEN t
  ELSE [t EXCEPT ![i] = [ref |-> @.ref, valid |-> TRUE,
                         type |-> cache[i].type, nlink |-> cache[i].nlink]]

\* Mutant of dropped: the last reference is never given up.
dropped_not(t, i) == IF t[i].ref = 1 THEN t ELSE [t EXCEPT ![i].ref = @ - 1]
\* An entry whose count reaches 0 may be recycled; its fields are not read again.
dropped(t, i) == IF t[i].ref = 1 THEN [t EXCEPT ![i] = FreeEntry] ELSE [t EXCEPT ![i].ref = @ - 1]

\* iupdate() of a new link count.
linked(t, i, n) == [t EXCEPT ![i].nlink = n]
iupdate(d, t, i) == [d EXCEPT ![i].nlink = t[i].nlink, ![i].type = t[i].type]

iunlock(L, i) == [L EXCEPT ![i] = NoProc]

\* dirlink() of a name that dirlookup() did not find, with room for the entry.
dirlink(d, dp, n, i) == [d EXCEPT ![dp].ents[n] = i]

\* The inode p is about to ilock(), or None.
Wants(p) ==
  LET l == loc[p] IN
  CASE l.pc = "namex" /\ l.path # <<>> -> l.cur
    [] l.pc \in {"link", "link_bad", "unlink_entry", "create_new", "create_found", "open", "chdir"} -> l.ip
    [] l.pc \in {"link_entry", "unlink", "create"} -> l.dp
    [] OTHER -> None

\* ilock(Wants(p)) succeeds, or halts the machine.
CanLock(p) == Wants(p) # None /\ lock[Wants(p)] = NoProc /\ loaded(itab, Wants(p))[Wants(p)].type # "0"
ilock_panic(p) ==
  /\ panic = "none"
  /\ Wants(p) # None /\ lock[Wants(p)] = NoProc
  /\ loaded(itab, Wants(p))[Wants(p)].type = "0"
  /\ panic' = "ilock: no type"
  /\ UNCHANGED <<disk, cache, itab, lock, cwd, ofile, loc, lost, leaked, strayed, budget>>

\* The frame l when iput() of the first of its inodes returns.
given_up(l) ==
  IF Len(l.puts) > 1 THEN [l EXCEPT !.pc = "iput", !.puts = Tail(@)]
                     ELSE [l EXCEPT !.pc = l.ret, !.puts = <<>>, !.ret = "idle"]

\* iput() frees the inode: no links and no other references.
last_but_shared(t, i) == t[i].valid /\ t[i].nlink = 0
last(t, i) == t[i].ref = 1 /\ t[i].valid /\ t[i].nlink = 0

(* iput(), under itable.lock: the last reference to an unlinked inode takes  *)
(* its lock and frees it, any other is given up.                             *)
iput(p) ==
  LET l == loc[p]  i == Head(l.puts) IN
  /\ at(p, "iput") /\ l.puts # <<>>
  /\ IF last(itab, i)
     THEN /\ lock[i] = NoProc
          /\ lock' = [lock EXCEPT ![i] = p]
          /\ goto(p, [l EXCEPT !.pc = "iput_free"])
          /\ UNCHANGED itab
     ELSE /\ itab' = dropped(itab, i)
          /\ goto(p, given_up(l))
          /\ UNCHANGED lock
  /\ UNCHANGED <<disk, cache, cwd, ofile, panic, lost, leaked, strayed, budget>>

(* itrunc(ip), ip->type = 0, iupdate(ip).                                    *)
iput_free(p) ==
  LET i == Head(loc[p].puts) IN
  /\ at(p, "iput_free")
  /\ cache' = [cache EXCEPT ![i] = FreeInode]
  /\ itab' = [itab EXCEPT ![i].type = "0"]
  /\ lost' = (lost \union {cache[i].ents[n] : n \in Names}) \ {i, None}
  /\ leaked' = leaked \ {i}
  /\ goto(p, [loc[p] EXCEPT !.pc = "iput_unlock"])
  /\ UNCHANGED <<disk, lock, cwd, ofile, panic, strayed, budget>>

(* ip->valid = 0, releasesleep().                                            *)
iput_unlock(p) ==
  LET i == Head(loc[p].puts) IN
  /\ at(p, "iput_unlock")
  /\ itab' = [itab EXCEPT ![i].valid = FALSE]
  /\ lock' = [lock EXCEPT ![i] = NoProc]
  /\ goto(p, [loc[p] EXCEPT !.pc = "iput_drop"])
  /\ UNCHANGED <<disk, cache, cwd, ofile, panic, lost, leaked, strayed, budget>>

(* ip->ref--, under itable.lock again.                                       *)
iput_drop(p) ==
  LET i == Head(loc[p].puts) IN
  /\ at(p, "iput_drop")
  /\ itab' = dropped(itab, i)
  /\ leaked' = IF itab[i].ref = 1 /\ cache[i].type # "0" /\ cache[i].nlink = 0 THEN leaked \union {i} ELSE leaked
  /\ goto(p, given_up(loc[p]))
  /\ UNCHANGED <<disk, cache, lock, cwd, ofile, panic, lost, strayed, budget>>

-----------------------------------------------------------------------------
(* Path names.                                                             *)

OfParent(l) == l.op \in {"unlink", "creat", "mkdir", "mknod"} \/ (l.op = "link" /\ l.ip # None)

\* namex() of path y starts, with the inode table as t.
Walking(p, l, y) == [l EXCEPT !.pc = "namex", !.path = y.elems, !.cur = IF y.abs THEN ROOTINO ELSE cwd[p]]
walk_from(p, t, y) == iget(t, IF y.abs THEN ROOTINO ELSE cwd[p])

\* Where the callers of namei() and nameiparent() go on, and where on failure.
Found(l) ==
  IF OfParent(l)
  THEN [l EXCEPT !.pc = CASE l.op = "unlink" -> "unlink" [] l.op = "link" -> "link_entry" [] OTHER -> "create",
                 !.name = Head(l.path), !.path = <<>>, !.dp = l.cur, !.cur = None]
  ELSE [l EXCEPT !.pc = l.op, !.ip = l.cur, !.cur = None]
NotFound(l) == IF l.op = "link" /\ l.ip # None THEN "link_bad" ELSE "end_op"

\* dirlookup() follows ".." out of a directory that rmdir has removed.
Strays(t, d, n) == strayed \/ (n = ".." /\ t[d].nlink = 0)

\* The inode p's next step looks up and will iget(), or None.
Gets(p) ==
  LET l == loc[p] IN
  CASE l.pc = "namex" /\ l.path # <<>> ->
         IF loaded(itab, l.cur)[l.cur].type = "DIR" /\ ~(OfParent(l) /\ Len(l.path) = 1)
         THEN cache[l.cur].ents[Head(l.path)] ELSE None
    [] l.pc = "link" -> IF l.new.abs /\ loaded(itab, l.ip)[l.ip].type # "DIR" THEN ROOTINO ELSE None
    [] l.pc \in {"link_entry", "create"} -> cache[l.dp].ents[l.name]
    [] l.pc = "unlink" -> IF l.name \in {".", ".."} THEN None ELSE cache[l.dp].ents[l.name]
    [] l.pc = "ialloc" -> l.cur
    [] OTHER -> None

CanGet(p) == Gets(p) # None => HasEntry(Gets(p))

(* iget() halts the machine: in the step p is about to take, or in the       *)
(* namex() of a call's absolute path.                                        *)
iget_panic(p) ==
  /\ panic = "none"
  /\ \/ (Wants(p) # None => CanLock(p)) /\ ~CanGet(p)
     \/ at(p, "idle") /\ budget > 0 /\ ~HasEntry(ROOTINO) /\ \E c \in Calls : c.path.abs
  /\ panic' = "iget: no inodes"
  /\ UNCHANGED <<disk, cache, itab, lock, cwd, ofile, loc, lost, leaked, strayed, budget>>

(* One round of the loop of namex(): ilock, the checks, dirlookup, iunlock;  *)
(* then iput() of the directory just searched.                               *)
namex(p) ==
  LET l == loc[p]
      i == l.cur
      next == cache[i].ents[Head(l.path)] IN
  /\ at(p, "namex") /\ l.path # <<>> /\ CanLock(p) /\ CanGet(p)
  /\ CASE loaded(itab, i)[i].type # "DIR" ->
           /\ itab' = loaded(itab, i)
           /\ goto(p, Putting([l EXCEPT !.path = <<>>, !.cur = None], <<i>>, NotFound(l)))
       [] OTHER ->
           IF OfParent(l) /\ Len(l.path) = 1
           THEN itab' = loaded(itab, i) /\ goto(p, Found(l))
           ELSE IF next = None
           THEN /\ itab' = loaded(itab, i)
                /\ goto(p, Putting([l EXCEPT !.path = <<>>, !.cur = None], <<i>>, NotFound(l)))
           ELSE /\ itab' = iget(loaded(itab, i), next)
                /\ goto(p, Putting([l EXCEPT !.path = Tail(@), !.cur = next], <<i>>, "namex"))
  /\ strayed' = Strays(loaded(itab, i), i, Head(l.path))
  /\ UNCHANGED <<disk, cache, lock, cwd, ofile, panic, lost, leaked, budget>>

\* The path is used up: namei() has its inode, nameiparent() nothing to return.
namex_end(p) ==
  LET l == loc[p] IN
  /\ at(p, "namex") /\ l.path = <<>>
  /\ goto(p, IF OfParent(l) THEN Putting([l EXCEPT !.cur = None], <<l.cur>>, NotFound(l)) ELSE Found(l))
  /\ UNCHANGED <<disk, cache, itab, lock, cwd, ofile, panic, lost, leaked, strayed, budget>>

-----------------------------------------------------------------------------
(* System calls.                                                           *)

\* begin_op() and the start of the first path.
syscall(p) ==
  /\ at(p, "idle")
  /\ budget > 0 /\ budget' = budget - 1
  /\ \E c \in Calls :
       /\ c.path.abs => HasEntry(ROOTINO)
       /\ goto(p, Walking(p, [Idle EXCEPT !.op = c.op, !.new = c.new], c.path))
       /\ itab' = walk_from(p, itab, c.path)
  /\ UNCHANGED <<disk, cache, lock, cwd, ofile, panic, lost, leaked, strayed>>

\* fileclose() of the last reference to an open file.
close(p) ==
  /\ at(p, "idle") /\ ofile[p] # None
  /\ ofile' = [ofile EXCEPT ![p] = None]
  /\ goto(p, Putting([Idle EXCEPT !.op = "close"], <<ofile[p]>>, "end_op"))
  /\ UNCHANGED <<disk, cache, itab, lock, cwd, panic, lost, leaked, strayed, budget>>

end_op_alone(p) ==
  /\ at(p, "end_op")
  /\ disk' = cache
  /\ goto(p, Idle)
  /\ UNCHANGED <<cache, itab, lock, cwd, ofile, panic, lost, leaked, strayed, budget>>

\* end_op(): the last operation under way commits.
end_op(p) ==
  /\ at(p, "end_op")
  /\ disk' = IF \A q \in Procs \ {p} : loc[q].pc = "idle" THEN cache ELSE disk
  /\ goto(p, Idle)
  /\ UNCHANGED <<cache, itab, lock, cwd, ofile, panic, lost, leaked, strayed, budget>>

\* sys_link(): count the new link first, then look for the directory.
link(p) ==
  LET l == loc[p]
      t == loaded(itab, l.ip)
      u == linked(t, l.ip, t[l.ip].nlink + 1) IN
  /\ at(p, "link") /\ CanLock(p) /\ CanGet(p)
  /\ IF t[l.ip].type = "DIR"
     THEN /\ itab' = t
          /\ goto(p, Putting([l EXCEPT !.ip = None], <<l.ip>>, "end_op"))
          /\ UNCHANGED cache
     ELSE /\ itab' = walk_from(p, u, l.new)
          /\ cache' = iupdate(cache, u, l.ip)
          /\ goto(p, Walking(p, [l EXCEPT !.new = NoPath], l.new))
  /\ UNCHANGED <<disk, lock, cwd, ofile, panic, lost, leaked, strayed, budget>>

\* dirlink() of the new name; a name that exists is put while dp is locked.
link_entry(p) ==
  LET l == loc[p]
      t == loaded(itab, l.dp)
      old == cache[l.dp].ents[l.name] IN
  /\ at(p, "link_entry") /\ CanLock(p) /\ CanGet(p)
  /\ IF old # None
     THEN /\ itab' = iget(t, old)
          /\ lock' = [lock EXCEPT ![l.dp] = p]
          /\ goto(p, Putting(l, <<old>>, "unlock_dp"))
          /\ UNCHANGED cache
     ELSE /\ itab' = t /\ UNCHANGED lock
          /\ \/ /\ cache' = dirlink(cache, l.dp, l.name, l.ip)
                /\ goto(p, Putting([l EXCEPT !.dp = None, !.ip = None], <<l.dp, l.ip>>, "end_op"))
             \/ /\ goto(p, Putting([l EXCEPT !.dp = None], <<l.dp>>, "link_bad"))
                /\ UNCHANGED cache
  /\ strayed' = Strays(t, l.dp, l.name)
  /\ UNCHANGED <<disk, cwd, ofile, panic, lost, leaked, budget>>

link_bad(p) ==
  LET l == loc[p]
      t == loaded(itab, l.ip)
      u == linked(t, l.ip, t[l.ip].nlink - 1) IN
  /\ at(p, "link_bad") /\ CanLock(p)
  /\ itab' = u /\ cache' = iupdate(cache, u, l.ip)
  /\ goto(p, Putting([l EXCEPT !.ip = None], <<l.ip>>, "end_op"))
  /\ UNCHANGED <<disk, lock, cwd, ofile, panic, lost, leaked, strayed, budget>>

unlock_dp_forgets(p) ==
  LET l == loc[p] IN
  /\ at(p, "unlock_dp")
  /\ UNCHANGED lock
  /\ goto(p, Putting([l EXCEPT !.dp = None], <<l.dp>>, IF l.op = "link" THEN "link_bad" ELSE "end_op"))
  /\ UNCHANGED <<disk, cache, itab, cwd, ofile, panic, lost, leaked, strayed, budget>>

\* iunlockput(dp) at the end of a failed call.
unlock_dp(p) ==
  LET l == loc[p] IN
  /\ at(p, "unlock_dp")
  /\ lock' = iunlock(lock, l.dp)
  /\ goto(p, Putting([l EXCEPT !.dp = None], <<l.dp>>, IF l.op = "link" THEN "link_bad" ELSE "end_op"))
  /\ UNCHANGED <<disk, cache, itab, cwd, ofile, panic, lost, leaked, strayed, budget>>

\* sys_unlink(): both locks are held while the entry goes.
unlink(p) ==
  LET l == loc[p]
      t == loaded(itab, l.dp)
      i == cache[l.dp].ents[l.name] IN
  /\ at(p, "unlink") /\ CanLock(p) /\ CanGet(p)
  /\ IF l.name \in {".", ".."} \/ i = None
     THEN /\ itab' = t /\ UNCHANGED lock
          /\ goto(p, Putting([l EXCEPT !.dp = None], <<l.dp>>, "end_op"))
     ELSE /\ itab' = iget(t, i)
          /\ lock' = [lock EXCEPT ![l.dp] = p]
          /\ goto(p, [l EXCEPT !.pc = "unlink_entry", !.ip = i])
  /\ UNCHANGED <<disk, cache, cwd, ofile, panic, lost, leaked, strayed, budget>>

unlink_entry(p) ==
  LET l == loc[p]
      t == loaded(itab, l.ip)
      dir == t[l.ip].type = "DIR"
      u == IF dir THEN linked(t, l.dp, t[l.dp].nlink - 1) ELSE t IN
  /\ at(p, "unlink_entry") /\ CanLock(p) /\ t[l.ip].nlink >= 1
  /\ IF dir /\ \E n \in Names : cache[l.ip].ents[n] # None
     THEN /\ itab' = t
          /\ goto(p, Putting([l EXCEPT !.ip = None], <<l.ip>>, "unlock_dp"))
          /\ UNCHANGED <<cache, lock>>
     ELSE /\ itab' = u
          /\ cache' = [iupdate(cache, u, l.dp) EXCEPT ![l.dp].ents[l.name] = None]
          /\ lock' = [iunlock(lock, l.dp) EXCEPT ![l.ip] = p]
          /\ goto(p, Putting([l EXCEPT !.dp = None], <<l.dp>>, "unlink_count"))
  /\ UNCHANGED <<disk, cwd, ofile, panic, lost, leaked, strayed, budget>>

unlink_count(p) ==
  LET l == loc[p]  u == linked(itab, l.ip, itab[l.ip].nlink - 1) IN
  /\ at(p, "unlink_count")
  /\ itab' = u /\ cache' = iupdate(cache, u, l.ip)
  /\ lock' = iunlock(lock, l.ip)
  /\ goto(p, Putting([l EXCEPT !.ip = None], <<l.ip>>, "end_op"))
  /\ UNCHANGED <<disk, cwd, ofile, panic, lost, leaked, strayed, budget>>

TypeOf(op) == CASE op = "creat" -> "FILE" [] op = "mkdir" -> "DIR" [] op = "mknod" -> "DEVICE"

\* create(): an existing name is opened below, for a new one ialloc() marks the
\* first free inode.
create(p) ==
  LET l == loc[p]
      t == loaded(itab, l.dp)
      old == cache[l.dp].ents[l.name]
      free == {i \in Inums : cache[i].type = "0"}
      i == CHOOSE j \in free : \A k \in free : j <= k IN
  /\ at(p, "create") /\ CanLock(p) /\ CanGet(p)
  /\ CASE old # None ->
           /\ itab' = iget(t, old)
           /\ goto(p, Putting([l EXCEPT !.dp = None, !.ip = old], <<l.dp>>, "create_found"))
           /\ UNCHANGED <<cache, lock>>
       [] old = None /\ free = {} ->
           /\ itab' = t
           /\ goto(p, Putting([l EXCEPT !.dp = None], <<l.dp>>, "end_op"))
           /\ UNCHANGED <<cache, lock>>
       [] OTHER ->
           /\ itab' = t
           /\ cache' = [cache EXCEPT ![i] = [FreeInode EXCEPT !.type = TypeOf(l.op)]]
           /\ lock' = [lock EXCEPT ![l.dp] = p]
           /\ goto(p, [l EXCEPT !.pc = "ialloc", !.cur = i])
  /\ strayed' = Strays(t, l.dp, l.name)
  /\ UNCHANGED <<disk, cwd, ofile, panic, lost, leaked, budget>>

\* The iget() ialloc() returns with; until then cur is only a number.
ialloc(p) ==
  LET l == loc[p] IN
  /\ at(p, "ialloc") /\ CanGet(p)
  /\ itab' = iget(itab, l.cur)
  /\ goto(p, [l EXCEPT !.pc = "create_new", !.ip = l.cur, !.cur = None])
  /\ UNCHANGED <<disk, cache, lock, cwd, ofile, panic, lost, leaked, strayed, budget>>

\* The new inode's fields and entries, then its name; any dirlink() may find
\* the disk full.
create_new(p) ==
  LET l == loc[p]
      ty == TypeOf(l.op)
      t == linked(loaded(itab, l.ip), l.ip, 1)
      u == IF ty = "DIR" THEN linked(t, l.dp, t[l.dp].nlink + 1) ELSE t
      bad == linked(t, l.ip, 0)
      made(v) == iupdate(cache, v, l.ip)
      dot(v) == dirlink(made(v), l.ip, ".", l.ip)
      dots(v) == dirlink(dot(v), l.ip, "..", l.dp)
      filled == IF ty = "DIR" THEN dots(u) ELSE made(u)
      partial == IF ty = "DIR" THEN {made(bad), dot(bad), dots(bad)} ELSE {made(bad)} IN
  /\ at(p, "create_new") /\ CanLock(p)
  /\ \/ /\ itab' = u
        /\ cache' = iupdate(dirlink(filled, l.dp, l.name, l.ip), u, l.dp)
        /\ lock' = [iunlock(lock, l.dp) EXCEPT ![l.ip] = p]
        /\ goto(p, Putting([l EXCEPT !.dp = None], <<l.dp>>, "created"))
     \/ /\ itab' = bad
        /\ cache' \in partial
        /\ goto(p, Putting([l EXCEPT !.ip = None], <<l.ip>>, "unlock_dp"))
        /\ UNCHANGED lock
  /\ UNCHANGED <<disk, cwd, ofile, panic, lost, leaked, strayed, budget>>

create_found(p) ==
  LET l == loc[p]  t == loaded(itab, l.ip) IN
  /\ at(p, "create_found") /\ CanLock(p)
  /\ itab' = t
  /\ IF l.op = "creat" /\ t[l.ip].type \in {"FILE", "DEVICE"}
     THEN lock' = [lock EXCEPT ![l.ip] = p] /\ goto(p, [l EXCEPT !.pc = "created"])
     ELSE UNCHANGED lock /\ goto(p, Putting([l EXCEPT !.ip = None], <<l.ip>>, "end_op"))
  /\ UNCHANGED <<disk, cache, cwd, ofile, panic, lost, leaked, strayed, budget>>

\* The end of sys_open(), with ip locked: a descriptor, or iunlockput().
opens(p, type) ==
  LET l == loc[p] IN
  \/ /\ ofile[p] = None
     /\ ofile' = [ofile EXCEPT ![p] = l.ip]
     /\ goto(p, [l EXCEPT !.pc = "end_op", !.ip = None])
  \/ /\ ofile[p] # None \/ type = "DEVICE"      \* no descriptor; no such device
     /\ goto(p, Putting([l EXCEPT !.ip = None], <<l.ip>>, "end_op"))
     /\ UNCHANGED ofile

\* What the callers of create() do with its inode.
created(p) ==
  LET l == loc[p] IN
  /\ at(p, "created")
  /\ lock' = iunlock(lock, l.ip)
  /\ IF l.op = "creat" THEN opens(p, itab[l.ip].type)
     ELSE goto(p, Putting([l EXCEPT !.ip = None], <<l.ip>>, "end_op")) /\ UNCHANGED ofile
  /\ UNCHANGED <<disk, cache, itab, cwd, panic, lost, leaked, strayed, budget>>

\* sys_open() without O_CREATE; a directory is refused unless O_RDONLY.
open(p) ==
  LET l == loc[p]  t == loaded(itab, l.ip) IN
  /\ at(p, "open") /\ CanLock(p)
  /\ itab' = t
  /\ \/ opens(p, t[l.ip].type)
     \/ /\ t[l.ip].type = "DIR"
        /\ goto(p, Putting([l EXCEPT !.ip = None], <<l.ip>>, "end_op")) /\ UNCHANGED ofile
  /\ UNCHANGED <<disk, cache, lock, cwd, panic, lost, leaked, strayed, budget>>

chdir(p) ==
  LET l == loc[p]  t == loaded(itab, l.ip) IN
  /\ at(p, "chdir") /\ CanLock(p)
  /\ itab' = t
  /\ IF t[l.ip].type = "DIR"
     THEN /\ cwd' = [cwd EXCEPT ![p] = l.ip]
          /\ goto(p, Putting([l EXCEPT !.ip = None], <<cwd[p]>>, "end_op"))
     ELSE /\ goto(p, Putting([l EXCEPT !.ip = None], <<l.ip>>, "end_op"))
          /\ UNCHANGED cwd
  /\ UNCHANGED <<disk, cache, lock, ofile, panic, lost, leaked, strayed, budget>>

-----------------------------------------------------------------------------
Named(D, i) == {<<d, n>> \in Inums \X Names : D[d].type = "DIR" /\ D[d].ents[n] = i}
\* The directories that are root or have a name, and whose ".." is i.
Children(D, i) ==
  {d \in Inums : D[d].type = "DIR" /\ D[d].ents[".."] = i /\ (d = ROOTINO \/ Named(D, d) # {})}
Links(D, i) == Cardinality(Named(D, i)) + Cardinality(Children(D, i))

(* The power fails at any moment, also after a panic; main() starts over     *)
(* from what the log holds.                                                  *)
Crash ==
  /\ itab' = BootTable /\ lock' = Unlocked /\ cwd' = AtRoot /\ ofile' = NoFiles
  /\ loc' = [p \in Procs |-> Idle]
  /\ panic' = "none"
  /\ cache' = disk
  /\ leaked' = {i \in Inums : disk[i].type # "0" /\ disk[i].nlink = 0}
  /\ lost' = {i \in lost : disk[i].nlink > Links(disk, i)}
  /\ UNCHANGED <<disk, strayed, budget>>

Step(p) ==
  \/ syscall(p) \/ close(p) \/ end_op(p)
  \/ namex(p) \/ namex_end(p)
  \/ iput(p) \/ iput_free(p) \/ iput_unlock(p) \/ iput_drop(p)
  \/ link(p) \/ link_entry(p) \/ link_bad(p) \/ unlock_dp(p)
  \/ unlink(p) \/ unlink_entry(p) \/ unlink_count(p)
  \/ create(p) \/ ialloc(p) \/ create_new(p) \/ create_found(p) \/ created(p)
  \/ open(p) \/ chdir(p)
  \/ ilock_panic(p) \/ iget_panic(p)

Next == Crash \/ \E p \in Procs : Step(p)
Spec == Init /\ [][Next]_vars

-----------------------------------------------------------------------------
TypeOK ==
  /\ \A i \in Inums : /\ {disk[i].type, cache[i].type, itab[i].type} \subseteq {"0", "FILE", "DIR", "DEVICE"}
                      /\ lock[i] \in Procs \union {NoProc}
                      /\ itab[i].ref \in Nat /\ itab[i].nlink \in Nat
  /\ \A p \in Procs : cwd[p] \in Inums /\ ofile[p] \in Inums \union {None}

\* The pointers to inode i that process p has.
Holds(p, i) ==
  LET l == loc[p]
      ptr == [cwd |-> cwd[p], ofile |-> ofile[p], ip |-> l.ip, dp |-> l.dp,
              cur |-> IF l.pc = "ialloc" THEN None ELSE l.cur] IN
  Cardinality({x \in DOMAIN ptr : ptr[x] = i}) + Cardinality({k \in DOMAIN l.puts : l.puts[k] = i})

(* ip->ref counts exactly the current directories, open files and pointers   *)
(* of calls under way, on every path through every system call, the failing  *)
(* ones included: one iput() too few pins the entry for ever, one too many   *)
(* frees an inode in use.                                                    *)
RefsExact ==
  /\ TypeOK
  /\ \A i \in Inums : itab[i].ref = MapThenSumSet(LAMBDA p : Holds(p, i), Procs)

(* The machine halts in ilock(), "no type", only once somebody has followed  *)
(* ".." out of a removed directory, whose parent may be gone too; in iget(), *)
(* "no inodes", only when the pointers that processes have name NINODE       *)
(* inodes, none of the entries being lost to a call that is over; and        *)
(* unlink() never meets its panic "nlink < 1".                               *)
PanicsJustified ==
  /\ panic = "ilock: no type" => strayed
  /\ panic = "iget: no inodes" => Cardinality({i \in Inums : \E p \in Procs : Holds(p, i) > 0}) >= NINODE
  /\ \A p \in Procs : at(p, "unlink_entry") /\ CanLock(p) => loaded(itab, loc[p].ip)[loc[p].ip].nlink >= 1

(* On the committed disk, at every moment a power failure may strike, every  *)
(* entry names an allocated inode and nlink is the number of entries and of  *)
(* ".." that name it.  It is too large only for what was linked into a       *)
(* directory after its removal, which create() and sys_link() do not refuse: *)
(* freeing that directory loses the entry.  When no call is under way, an    *)
(* inode without links and references is free, unless a power failure came   *)
(* between its last unlink and its last iput(), or another process created   *)
(* and removed it between releasesleep() and ref-- of the iput() that had    *)
(* just freed it.                                                            *)
DiskConsistent ==
  /\ \A d \in Inums, n \in Names : disk[d].ents[n] # None => disk[disk[d].ents[n]].type # "0"
  /\ \A i \in Inums : disk[i].type # "0" =>
       /\ disk[i].nlink >= Links(disk, i)
       /\ disk[i].nlink > Links(disk, i) => i \in lost
  /\ (\A p \in Procs : loc[p].pc = "idle") =>
     \A i \in Inums : cache[i].type # "0" /\ cache[i].nlink = 0 /\ itab[i].ref = 0 => i \in leaked

(* fs.c:303-304 of iput(), "If that was the last reference and the inode has *)
(* no links to it, free the inode (and its content) on disk": between calls, *)
(* an allocated inode has a link or a reference.  Power failures apart, it   *)
(* is false: iput() that has just freed an inode still counts as a reference *)
(* after releasesleep(); a process that is given the inode meanwhile, and    *)
(* removes its file again or cannot enter it, drops its reference as one of  *)
(* two, and frees nothing.                                                   *)
FreedWithLastReference ==
  (\A p \in Procs : loc[p].pc = "idle") =>
  \A i \in Inums : cache[i].type # "0" /\ cache[i].nlink = 0 => itab[i].ref > 0

(* No processes wait for inode locks in a circle, a process for itself       *)
(* included, although create() and sys_unlink() hold a directory's lock when *)
(* they take another and iput() may take one under the lock of a directory;  *)
(* and the acquiresleep() in iput(), made under itable.lock, never blocks.   *)
NoLockCycle ==
  /\ \A S \in SUBSET Procs \ {{}} : \E p \in S : Wants(p) = None \/ lock[Wants(p)] \notin S
  /\ \A p \in Procs : at(p, "iput") /\ last(itab, Head(loc[p].puts)) => lock[Head(loc[p].puts)] = NoProc
=============================================================================
