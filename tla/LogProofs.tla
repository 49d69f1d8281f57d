----------------------------- MODULE LogProofs -----------------------------
(***************************************************************************)
(* The safety properties of Log, for any number of processes and blocks    *)
(* and any log size that satisfies the assumptions stated here.            *)
(***************************************************************************)
EXTENDS Log, FiniteSetTheorems, TLAPS

\* The in-memory and on-disk headers name distinct blocks and agree from the
\* commit point until the header is erased.
Headers ==
  /\ \A i, j \in 1..Len(lh) : lh[i] = lh[j] => i = j
  /\ Len(lh) <= LOGSIZE
  /\ step \in {"write_log", "write_head", "install", "reinstall"} => tail <= Len(lh)
  /\ step = "write_head" => tail = 1
  /\ step \in {"install", "erase", "reinstall", "clear"} => dhead = lh
  /\ step \in {"idle", "write_log", "write_head", "finish"} => dhead = << >>
  /\ step \in {"read_head", "finish"} => lh = << >>
  /\ step = "idle" /\ outstanding = 0 => lh = << >>
  /\ \A i, j \in 1..Len(dhead) : dhead[i] = dhead[j] => i = j
  /\ Len(dhead) <= LOGSIZE

\* The commit protocol: who may be where.
Protocol ==
  /\ committing <=> step \in CommitSteps
  /\ outstanding = Cardinality(InOp)
  /\ step # "idle" => InOp = {}
  /\ \A p \in LogProcs : held[p] # NoBuf => logpc[p] = "op"
  /\ \A p, q \in LogProcs : held[p] # NoBuf /\ held[p] = held[q] => p = q

\* A buffer that differs from its home block on disk is pinned or locked.
Cache ==
  /\ \A b \in Blocks : pins[b] > 0 => buf[b] # NoBuf
  /\ \A p \in LogProcs : held[p] # NoBuf => buf[held[p]] # NoBuf
  /\ \A b \in Blocks :
       buf[b] # NoBuf /\ buf[b] # disk[b] => pins[b] > 0 \/ \E p \in LogProcs : held[p] = b

\* What the log blocks on disk hold at each stage.
LogBlocks ==
  /\ step = "write_log" => \A i \in 1..(tail - 1) : dlog[i] = buf[lh[i]]
  /\ step = "write_head" => \A i \in 1..Len(lh) : dlog[i] = buf[lh[i]]
  /\ step = "install" => \A i \in tail..Len(lh) : dlog[i] = buf[lh[i]]
  /\ step \in {"install", "reinstall"} => \A i \in 1..(tail - 1) : disk[lh[i]] = dlog[i]
  /\ step \in {"erase", "clear"} => \A i \in 1..Len(lh) : disk[lh[i]] = dlog[i]
  /\ step \in RecoverySteps => \A b \in Blocks : pins[b] = 0

IInv == LogTypeOK /\ Headers /\ Protocol /\ PinsMatchLog /\ Cache /\ LogBlocks

-----------------------------------------------------------------------------
\* Appending a new element to a sequence of distinct elements.
LEMMA AppendDistinct ==
  ASSUME NEW S, NEW s \in Seq(S), NEW x \in S,
         \A i, j \in 1..Len(s) : s[i] = s[j] => i = j,
         \A i \in 1..Len(s) : s[i] # x
  PROVE  \A i, j \in 1..Len(Append(s, x)) : Append(s, x)[i] = Append(s, x)[j] => i = j
<1> DEFINE t == Append(s, x)
<1>1. /\ Len(t) = Len(s) + 1 /\ Len(s) \in Nat /\ t[Len(s) + 1] = x
      /\ \A i \in 1..Len(s) : t[i] = s[i]
  OBVIOUS
<1> HIDE DEF t
<1>2. SUFFICES ASSUME NEW i \in 1..Len(t), NEW j \in 1..Len(t), t[i] = t[j]
               PROVE  i = j
  BY DEF t
<1>3. (i \in 1..Len(s) \/ i = Len(s) + 1) /\ (j \in 1..Len(s) \/ j = Len(s) + 1)
  BY <1>1
<1> QED  BY <1>1, <1>2, <1>3

\* The elements of a sequence after Append().
LEMMA AppendElements ==
  ASSUME NEW S, NEW s \in Seq(S), NEW x \in S, NEW c
  PROVE  (\E i \in 1..Len(Append(s, x)) : Append(s, x)[i] = c)
           <=> (\E i \in 1..Len(s) : s[i] = c) \/ c = x
<1> DEFINE t == Append(s, x)
<1>1. /\ Len(t) = Len(s) + 1 /\ Len(s) \in Nat /\ t[Len(s) + 1] = x
      /\ \A i \in 1..Len(s) : t[i] = s[i]
  OBVIOUS
<1> HIDE DEF t
<1>2. \A i \in 1..Len(t) : i \in 1..Len(s) \/ i = Len(s) + 1
  BY <1>1
<1>3. Len(s) + 1 \in 1..Len(t) /\ \A i \in 1..Len(s) : i \in 1..Len(t)
  BY <1>1
<1> QED  BY <1>1, <1>2, <1>3 DEF t

\* log.outstanding counts the operations under way.
LEMMA OpsOutstanding ==
  ASSUME IInv
  PROVE  /\ IsFiniteSet(InOp)
         /\ outstanding = 0 <=> InOp = {}
         /\ \A p \in LogProcs : logpc[p] = "op" => outstanding # 0
         /\ \A p \in LogProcs : logpc[p] = "op" /\ outstanding = 1 => InOp = {p}
<1>1. IsFiniteSet(InOp)
  BY LogSizes, FS_Subset DEF InOp
<1>2. outstanding = 0 <=> InOp = {}
  BY <1>1, FS_EmptySet DEF IInv, Protocol
<1>3. outstanding = 1 => \E x : InOp = {x}
  BY Zenon, <1>1, FS_Singleton DEF IInv, Protocol
<1> QED  BY <1>1, <1>2, <1>3 DEF InOp

\* Every action keeps the types; tail stays within the log because the log
\* never grows past LOGSIZE, and pins stay natural because they match the log.
LEMMA TypeInductive == IInv /\ [LogNext]_logvars => LogTypeOK'
<1> SUFFICES ASSUME IInv, [LogNext]_logvars PROVE LogTypeOK'
  OBVIOUS
<1> USE LogSizes DEF IInv, LogTypeOK, Steps, RecoverySteps, CommitSteps, Recovering, diskVars, memVars, procVars, Headers
<1>1. ASSUME NEW p \in LogProcs, begin_op_sleep(p) PROVE LogTypeOK'
  BY <1>1 DEF begin_op_sleep
<1>19. ASSUME NEW p \in LogProcs, begin_op_killed(p) PROVE LogTypeOK'
  BY <1>19 DEF begin_op_killed
<1>2. ASSUME NEW p \in LogProcs, begin_op_enter(p) PROVE LogTypeOK'
  BY <1>2 DEF begin_op_enter
<1>3. ASSUME NEW p \in LogProcs, NEW b \in Blocks, NEW v \in Values, modify(p, b, v) PROVE LogTypeOK'
  BY <1>3 DEF modify
<1>4. ASSUME NEW p \in LogProcs, log_write(p) PROVE LogTypeOK'
  <2>0. held[p] \in Blocks
    BY <1>4 DEF log_write
  <2>1. lh' \in Seq(Blocks) /\ pins' \in [Blocks -> Nat]
    <3>1. CASE held[p] \in Logged
      BY <1>4, <3>1 DEF log_write
    <3>2. CASE held[p] \notin Logged
      <4>1. lh' = Append(lh, held[p]) /\ pins' = [pins EXCEPT ![held[p]] = @ + 1]
        BY <1>4, <3>2 DEF log_write
      <4>2. lh' \in Seq(Blocks)
        BY <2>0, <4>1
      <4>3. pins' \in [Blocks -> Nat]
        BY SMTT(30), <2>0, <4>1
      <4> QED  BY <4>2, <4>3
    <3> QED  BY <3>1, <3>2
  <2>2. held' \in [LogProcs -> Blocks \union {NoBuf}] /\ wrote' \in [LogProcs -> SUBSET Blocks]
    BY <1>4 DEF log_write
  <2> QED  BY SMTT(30), <1>4, <2>1, <2>2 DEF log_write
<1>5. ASSUME NEW p \in LogProcs, end_op_last(p) PROVE LogTypeOK'
  BY <1>5 DEF end_op_last, LastOut
<1>6. ASSUME NEW p \in LogProcs, end_op_others(p) PROVE LogTypeOK'
  <2>1. outstanding # 0
    BY <1>6, OpsOutstanding DEF end_op_others
  <2> QED  BY <1>6, <2>1 DEF end_op_others, wakeup_log
<1>7. ASSUME NEW p \in LogProcs, commit_done(p) PROVE LogTypeOK'
  BY Zenon, <1>7 DEF commit_done, wakeup_log
<1>8. CASE write_log
  BY <1>8 DEF write_log, advance, bread
<1>9. CASE write_head
  BY <1>9 DEF write_head
<1>10. CASE install_trans
  <2>1. lh[tail] \in Blocks /\ tail \in 1..Len(lh)
    BY <1>10 DEF install_trans
  <2>2. pins[lh[tail]] = 1
    BY <1>10, <2>1 DEF install_trans, PinsMatchLog
  <2>3. pins' \in [Blocks -> Nat]
    BY <1>10, <2>1, <2>2 DEF install_trans
  <2> QED  BY SMTT(30), <1>10, <2>1, <2>3 DEF install_trans, advance
<1>11. CASE erase_head
  BY <1>11 DEF erase_head
<1>12. CASE read_head
  BY <1>12 DEF read_head
<1>13. CASE reinstall_trans
  BY SMTT(30), <1>13 DEF reinstall_trans, advance
<1>14. CASE clear_head
  BY <1>14 DEF clear_head
<1>15. ASSUME NEW b \in Blocks, Load(b) PROVE LogTypeOK'
  BY <1>15 DEF Load
<1>16. ASSUME NEW b \in Blocks, Recycle(b) PROVE LogTypeOK'
  BY SMTT(30), <1>16 DEF Recycle
<1>17. CASE Crash
  <2>1. buf' \in [Blocks -> Values \union {NoBuf}] /\ pins' \in [Blocks -> Nat]
    BY <1>17 DEF Crash
  <2>2. /\ logpc' \in [LogProcs -> {"out", "begin", "asleep", "op", "commit"}]
        /\ held' \in [LogProcs -> Blocks \union {NoBuf}]
        /\ wrote' \in [LogProcs -> SUBSET Blocks]
    BY <1>17 DEF Crash
  <2>3. lh' \in Seq(Blocks) /\ tail' \in 1..LOGSIZE /\ outstanding' \in Nat
    BY <1>17 DEF Crash
  <2> QED  BY Zenon, <1>17, <2>1, <2>2, <2>3 DEF Crash
<1>18. CASE UNCHANGED logvars
  BY SMTT(30), <1>18 DEF logvars
<1> QED
  BY ZenonT(30), <1>1, <1>2, <1>3, <1>4, <1>5, <1>6, <1>7, <1>8, <1>9,
     <1>10, <1>11, <1>12, <1>13, <1>14, <1>15, <1>16, <1>17, <1>18, <1>19
  DEF LogNext, ProcNext, CommitNext, RecoverNext

\* The headers agree as the protocol says at every step.
LEMMA HeadersInductive == IInv /\ [LogNext]_logvars => Headers'
<1> SUFFICES ASSUME IInv, [LogNext]_logvars PROVE Headers'
  OBVIOUS
<1> USE LogSizes DEF IInv, Headers, LogTypeOK, Steps, RecoverySteps, CommitSteps, Recovering, diskVars, memVars, procVars
<1>1. ASSUME NEW p \in LogProcs, begin_op_sleep(p) PROVE Headers'
  BY <1>1 DEF begin_op_sleep
<1>19. ASSUME NEW p \in LogProcs, begin_op_killed(p) PROVE Headers'
  BY <1>19 DEF begin_op_killed
<1>2. ASSUME NEW p \in LogProcs, begin_op_enter(p) PROVE Headers'
  BY <1>2 DEF begin_op_enter
<1>3. ASSUME NEW p \in LogProcs, NEW b \in Blocks, NEW v \in Values, modify(p, b, v) PROVE Headers'
  BY <1>3 DEF modify
<1>4. ASSUME NEW p \in LogProcs, log_write(p) PROVE Headers'
  <2>1. /\ held[p] \in Blocks /\ Len(lh) < LOGSIZE /\ logpc[p] = "op"
        /\ UNCHANGED <<dhead, step, tail, outstanding>> /\ lh \in Seq(Blocks)
    BY SMTT(30), <1>4 DEF log_write, TooBig, Protocol
  <2>2. step = "idle" /\ outstanding # 0
    BY SMTT(30), <2>1, OpsOutstanding DEF Protocol, InOp
  <2>3. CASE held[p] \in Logged
    BY <1>4, <2>1, <2>3 DEF log_write
  <2>4. CASE held[p] \notin Logged
    <3>1. lh' = Append(lh, held[p])
      BY <1>4, <2>4 DEF log_write
    <3>2. Len(lh') = Len(lh) + 1
      BY SMTT(30), <2>1, <3>1
    <3>3. \A i, j \in 1..Len(lh') : lh'[i] = lh'[j] => i = j
      <4>1. \A i \in 1..Len(lh) : lh[i] # held[p]
        BY <2>4 DEF Logged
      <4> QED  BY SMTT(30), <2>1, <3>1, <4>1, AppendDistinct
    <3> QED  BY SMTT(30), <2>1, <2>2, <3>2, <3>3
  <2> QED  BY SMTT(30), <2>3, <2>4
<1>5. ASSUME NEW p \in LogProcs, end_op_last(p) PROVE Headers'
  <2>1. step = "idle"
    BY <1>5 DEF end_op_last, LastOut, Protocol, InOp
  <2>2. UNCHANGED <<lh, dhead>> /\ tail' = 1 /\ lh \in Seq(Blocks)
    BY <1>5 DEF end_op_last, LastOut
  <2>3. CASE lh = << >>
    BY SMTT(30), <1>5, <2>1, <2>2, <2>3 DEF end_op_last
  <2>4. CASE lh # << >>
    <3>1. Len(lh) >= 1
      BY SMTT(30), <2>2, <2>4
    <3> QED  BY SMTT(30), <1>5, <2>1, <2>2, <2>4, <3>1 DEF end_op_last
  <2> QED  BY <2>3, <2>4
<1>6. ASSUME NEW p \in LogProcs, end_op_others(p) PROVE Headers'
  BY SMTT(30), <1>6 DEF end_op_others, wakeup_log
<1>7. ASSUME NEW p \in LogProcs, commit_done(p) PROVE Headers'
  BY SMTT(30), <1>7 DEF commit_done, wakeup_log
<1>8. CASE write_log
  BY SMTT(30), <1>8 DEF write_log, advance, bread
<1>9. CASE write_head
  BY SMTT(30), <1>9 DEF write_head
<1>10. CASE install_trans
  BY SMTT(30), <1>10 DEF install_trans, advance
<1>11. CASE erase_head
  BY <1>11 DEF erase_head
<1>12. CASE read_head
  BY <1>12 DEF read_head
<1>13. CASE reinstall_trans
  BY <1>13 DEF reinstall_trans, advance
<1>14. CASE clear_head
  BY <1>14 DEF clear_head
<1>15. ASSUME NEW b \in Blocks, Load(b) PROVE Headers'
  BY SMTT(30), <1>15 DEF Load
<1>16. ASSUME NEW b \in Blocks, Recycle(b) PROVE Headers'
  BY <1>16 DEF Recycle
<1>17. CASE Crash
  BY SMTT(30), <1>17 DEF Crash
<1>18. CASE UNCHANGED logvars
  BY SMTT(30), <1>18 DEF logvars
<1> QED
  BY ZenonT(30), <1>1, <1>2, <1>3, <1>4, <1>5, <1>6, <1>7, <1>8, <1>9,
     <1>10, <1>11, <1>12, <1>13, <1>14, <1>15, <1>16, <1>17, <1>18, <1>19
  DEF LogNext, ProcNext, CommitNext, RecoverNext

\* The commit protocol: an operation and a commit never overlap.
LEMMA ProtocolInductive == IInv /\ [LogNext]_logvars => Protocol'
<1> SUFFICES ASSUME IInv, [LogNext]_logvars PROVE Protocol'
  OBVIOUS
<1> USE LogSizes DEF IInv, Headers, Protocol, InOp, LogTypeOK, Steps, RecoverySteps, CommitSteps, Recovering, diskVars, memVars, procVars
<1>1. ASSUME NEW p \in LogProcs, begin_op_sleep(p) PROVE Protocol'
  BY ZenonT(30), <1>1 DEF begin_op_sleep
<1>19. ASSUME NEW p \in LogProcs, begin_op_killed(p) PROVE Protocol'
  BY ZenonT(30), <1>19 DEF begin_op_killed
<1>2. ASSUME NEW p \in LogProcs, begin_op_enter(p) PROVE Protocol'
  <2>1. /\ logpc[p] # "op" /\ InOp' = InOp \union {p} /\ p \notin InOp
        /\ outstanding' = outstanding + 1
    BY SMTT(30), <1>2 DEF begin_op_enter
  <2>2. Cardinality(InOp') = Cardinality(InOp) + 1
    <3>1. IsFiniteSet(InOp)
      BY SMTT(30), OpsOutstanding
    <3> HIDE DEF InOp
    <3> QED  BY ZenonT(30), <2>1, <3>1, FS_AddElement
  <2>3. step = "idle"
    BY <1>2 DEF begin_op_enter, MustWait
  <2>4. \A q \in LogProcs : logpc[q] = "op" => logpc'[q] = "op"
    BY <1>2 DEF begin_op_enter
  <2> HIDE DEF InOp
  <2> QED  BY SMTT(30), <1>2, <2>1, <2>2, <2>3, <2>4 DEF begin_op_enter
<1>3. ASSUME NEW p \in LogProcs, NEW b \in Blocks, NEW v \in Values, modify(p, b, v) PROVE Protocol'
  BY <1>3 DEF modify
<1>4. ASSUME NEW p \in LogProcs, log_write(p) PROVE Protocol'
  BY SMTT(30), <1>4 DEF log_write, Logged
<1>5. ASSUME NEW p \in LogProcs, end_op_last(p) PROVE Protocol'
  <2>1. InOp = {p} /\ step = "idle" /\ held[p] = NoBuf
    BY Zenon, <1>5, OpsOutstanding DEF end_op_last, LastOut
  <2>2. InOp' = {}
    BY <1>5, <2>1 DEF end_op_last, LastOut
  <2>3. \A q \in LogProcs : held[q] = NoBuf
    BY <2>1
  <2> HIDE DEF InOp
  <2> QED  BY <1>5, <2>2, <2>3, FS_EmptySet DEF end_op_last, LastOut
<1>6. ASSUME NEW p \in LogProcs, end_op_others(p) PROVE Protocol'
  <2>1. /\ InOp' = InOp \ {p} /\ p \in InOp /\ step = "idle" /\ outstanding' = outstanding - 1
        /\ \A q \in LogProcs : q # p => (logpc'[q] = "op" <=> logpc[q] = "op")
    BY SMTT(30), <1>6 DEF end_op_others, wakeup_log
  <2>2. Cardinality(InOp') = Cardinality(InOp) - 1
    <3>1. IsFiniteSet(InOp)
      BY SMTT(30), OpsOutstanding
    <3> HIDE DEF InOp
    <3> QED  BY Zenon, <2>1, <3>1, FS_RemoveElement
  <2> HIDE DEF InOp
  <2> QED  BY Zenon, <1>6, <2>1, <2>2 DEF end_op_others
<1>7. ASSUME NEW p \in LogProcs, commit_done(p) PROVE Protocol'
  BY ZenonT(30), <1>7 DEF commit_done, wakeup_log
<1>8. CASE write_log
  BY <1>8 DEF write_log, advance, bread
<1>9. CASE write_head
  BY <1>9 DEF write_head
<1>10. CASE install_trans
  BY SMTT(30), <1>10 DEF install_trans, advance
<1>11. CASE erase_head
  BY SMTT(30), <1>11 DEF erase_head
<1>12. CASE read_head
  BY SMTT(30), <1>12 DEF read_head
<1>13. CASE reinstall_trans
  BY <1>13 DEF reinstall_trans, advance
<1>14. CASE clear_head
  BY <1>14 DEF clear_head
<1>15. ASSUME NEW b \in Blocks, Load(b) PROVE Protocol'
  BY SMTT(30), <1>15 DEF Load
<1>16. ASSUME NEW b \in Blocks, Recycle(b) PROVE Protocol'
  BY SMTT(30), <1>16 DEF Recycle
<1>17. CASE Crash
  <2>1. InOp' = {} /\ \A p \in LogProcs : held'[p] = NoBuf
    BY SMTT(30), <1>17 DEF Crash
  <2> HIDE DEF InOp
  <2> QED  BY SMTT(30), <1>17, <2>1, FS_EmptySet DEF Crash
<1>18. CASE UNCHANGED logvars
  BY SMTT(30), <1>18 DEF logvars
<1> QED
  BY ZenonT(30), <1>1, <1>2, <1>3, <1>4, <1>5, <1>6, <1>7, <1>8, <1>9,
     <1>10, <1>11, <1>12, <1>13, <1>14, <1>15, <1>16, <1>17, <1>18, <1>19
  DEF LogNext, ProcNext, CommitNext, RecoverNext

\* Pins follow the log through absorption, commit and recovery.
LEMMA PinsInductive == IInv /\ [LogNext]_logvars => PinsMatchLog'
<1> SUFFICES ASSUME IInv, [LogNext]_logvars PROVE PinsMatchLog'
  OBVIOUS
<1> USE LogSizes DEF IInv, Headers, Protocol, InOp, PinsMatchLog, LogTypeOK, Steps, RecoverySteps, CommitSteps, Recovering, diskVars, memVars, procVars
<1>1. ASSUME NEW p \in LogProcs, begin_op_sleep(p) PROVE PinsMatchLog'
  BY SMTT(30), <1>1 DEF begin_op_sleep
<1>19. ASSUME NEW p \in LogProcs, begin_op_killed(p) PROVE PinsMatchLog'
  BY SMTT(30), <1>19 DEF begin_op_killed
<1>2. ASSUME NEW p \in LogProcs, begin_op_enter(p) PROVE PinsMatchLog'
  BY SMTT(30), <1>2 DEF begin_op_enter
<1>3. ASSUME NEW p \in LogProcs, NEW b \in Blocks, NEW v \in Values, modify(p, b, v) PROVE PinsMatchLog'
  BY SMTT(30), <1>3 DEF modify
<1>4. ASSUME NEW p \in LogProcs, log_write(p) PROVE PinsMatchLog'
  <2>1. held[p] \in Blocks /\ step = "idle" /\ step' = step /\ lh \in Seq(Blocks)
    BY <1>4 DEF log_write
  <2>2. \A c \in Blocks : pins[c] = IF c \in Logged THEN 1 ELSE 0
    BY SMTT(30), <2>1 DEF Logged
  <2>3. CASE held[p] \in Logged
    BY SMTT(30), <1>4, <2>1, <2>3 DEF log_write
  <2>4. CASE held[p] \notin Logged
    <3>1. lh' = Append(lh, held[p]) /\ pins' = [pins EXCEPT ![held[p]] = @ + 1]
      BY SMTT(30), <1>4, <2>4 DEF log_write
    <3>2. \A c \in Blocks : (\E i \in 1..Len(lh') : lh'[i] = c) <=> c \in Logged \/ c = held[p]
      <4> TAKE c \in Blocks
      <4>1. (\E i \in 1..Len(lh') : lh'[i] = c)
              <=> (\E i \in 1..Len(lh) : lh[i] = c) \/ c = held[p]
        BY SMTT(30), <2>1, <3>1, AppendElements
      <4>2. c \in Logged <=> \E i \in 1..Len(lh) : lh[i] = c
        BY SMTT(30) DEF Logged
      <4> QED  BY <4>1, <4>2
    <3>3. \A c \in Blocks : pins'[c] = IF c \in Logged \/ c = held[p] THEN 1 ELSE 0
      BY SMTT(30), <2>1, <2>2, <2>4, <3>1
    <3> QED  BY SMTT(30), <2>1, <3>2, <3>3
  <2> QED  BY SMTT(30), <2>3, <2>4
<1>5. ASSUME NEW p \in LogProcs, end_op_last(p) PROVE PinsMatchLog'
  BY SMTT(30), <1>5 DEF end_op_last, LastOut
<1>6. ASSUME NEW p \in LogProcs, end_op_others(p) PROVE PinsMatchLog'
  BY SMTT(30), <1>6 DEF end_op_others, wakeup_log
<1>7. ASSUME NEW p \in LogProcs, commit_done(p) PROVE PinsMatchLog'
  BY <1>7 DEF commit_done, wakeup_log
<1>8. CASE write_log
  BY SMTT(30), <1>8 DEF write_log, advance, bread
<1>9. CASE write_head
  BY <1>9 DEF write_head
<1>10. CASE install_trans
  <2>1. /\ lh[tail] \in Blocks /\ tail \in 1..Len(lh) /\ lh' = lh
        /\ pins' = [pins EXCEPT ![lh[tail]] = @ - 1]
    BY SMTT(30), <1>10 DEF install_trans
  <2>2. \A c \in Blocks :
          pins[c] = IF \E i \in 1..Len(lh) : lh[i] = c /\ i >= tail THEN 1 ELSE 0
    BY SMTT(30), <1>10 DEF install_trans
  <2>3. \A c \in Blocks :
          pins'[c] = IF \E i \in 1..Len(lh) : lh[i] = c /\ i > tail THEN 1 ELSE 0
    <3> TAKE c \in Blocks
    <3>1. CASE c = lh[tail]
      <4>1. ~\E i \in 1..Len(lh) : lh[i] = c /\ i > tail
        BY SMTT(30), <2>1, <3>1
      <4> QED  BY SMTT(30), <2>1, <2>2, <3>1, <4>1
    <3>2. CASE c # lh[tail]
      <4>1. \A i \in 1..Len(lh) : lh[i] = c => (i >= tail <=> i > tail)
        <5>1. tail \in Nat /\ \A i \in 1..Len(lh) : lh[i] = c => i # tail
          BY <2>1, <3>2
        <5> QED  BY SMTT(30), <5>1
      <4>2. (\E i \in 1..Len(lh) : lh[i] = c /\ i >= tail)
              <=> (\E i \in 1..Len(lh) : lh[i] = c /\ i > tail)
        BY SMTT(30), <4>1
      <4>3. pins'[c] = pins[c]
        BY <2>1, <3>2
      <4> QED  BY SMTT(30), <2>2, <4>2, <4>3
    <3> QED  BY <3>1, <3>2
  <2>4. CASE tail < Len(lh)
    <3>1. step' = "install" /\ tail' = tail + 1
      BY <1>10, <2>4 DEF install_trans, advance
    <3>2. \A i \in 1..Len(lh) : i > tail <=> i >= tail'
      BY SMTT(30), <2>1, <3>1
    <3>3. \A c \in Blocks : (\E i \in 1..Len(lh) : lh[i] = c /\ i > tail)
                            <=> (\E i \in 1..Len(lh') : lh'[i] = c /\ i >= tail')
      BY SMTT(30), <2>1, <3>2
    <3> QED  BY SMTT(30), <2>3, <3>1, <3>3
  <2>5. CASE ~(tail < Len(lh))
    <3>1. step' = "erase" /\ \A i \in 1..Len(lh) : ~(i > tail)
      BY SMTT(30), <1>10, <2>1, <2>5 DEF install_trans, advance
    <3> QED  BY SMTT(30), <2>3, <3>1
  <2> QED  BY SMTT(30), <2>4, <2>5
<1>11. CASE erase_head
  BY <1>11 DEF erase_head
<1>12. CASE read_head
  BY SMTT(30), <1>12 DEF read_head
<1>13. CASE reinstall_trans
  BY SMTT(30), <1>13 DEF reinstall_trans, advance
<1>14. CASE clear_head
  BY SMTT(30), <1>14 DEF clear_head
<1>15. ASSUME NEW b \in Blocks, Load(b) PROVE PinsMatchLog'
  BY SMTT(30), <1>15 DEF Load
<1>16. ASSUME NEW b \in Blocks, Recycle(b) PROVE PinsMatchLog'
  BY SMTT(30), <1>16 DEF Recycle
<1>17. CASE Crash
  BY SMTT(30), <1>17 DEF Crash
<1>18. CASE UNCHANGED logvars
  BY SMTT(30), <1>18 DEF logvars
<1> QED
  BY ZenonT(30), <1>1, <1>2, <1>3, <1>4, <1>5, <1>6, <1>7, <1>8, <1>9,
     <1>10, <1>11, <1>12, <1>13, <1>14, <1>15, <1>16, <1>17, <1>18, <1>19
  DEF LogNext, ProcNext, CommitNext, RecoverNext

\* A dirty buffer stays in the cache until it is installed.
LEMMA CacheInductive == IInv /\ [LogNext]_logvars => Cache'
<1> SUFFICES ASSUME IInv, [LogNext]_logvars PROVE Cache'
  OBVIOUS
<1> USE LogSizes DEF IInv, Headers, Protocol, InOp, Cache, LogTypeOK, Steps, RecoverySteps, CommitSteps, Recovering, diskVars, memVars, procVars
<1>1. ASSUME NEW p \in LogProcs, begin_op_sleep(p) PROVE Cache'
  BY SMTT(30), <1>1 DEF begin_op_sleep
<1>19. ASSUME NEW p \in LogProcs, begin_op_killed(p) PROVE Cache'
  BY SMTT(30), <1>19 DEF begin_op_killed
<1>2. ASSUME NEW p \in LogProcs, begin_op_enter(p) PROVE Cache'
  BY SMTT(30), <1>2 DEF begin_op_enter
<1>3. ASSUME NEW p \in LogProcs, NEW b \in Blocks, NEW v \in Values, modify(p, b, v) PROVE Cache'
  BY SMTT(30), <1>3 DEF modify
<1>4. ASSUME NEW p \in LogProcs, log_write(p) PROVE Cache'
  <2>1. /\ held[p] \in Blocks /\ step = "idle" /\ UNCHANGED <<buf, disk>>
        /\ held' = [held EXCEPT ![p] = NoBuf]
    BY SMTT(30), <1>4 DEF log_write
  <2>2. pins'[held[p]] > 0
    <3>1. CASE held[p] \in Logged
      BY SMTT(30), <1>4, <2>1, <3>1 DEF log_write, Logged, PinsMatchLog
    <3>2. CASE held[p] \notin Logged
      BY SMTT(30), <1>4, <2>1, <3>2 DEF log_write
    <3> QED  BY SMTT(30), <3>1, <3>2
  <2>3. \A c \in Blocks : c # held[p] => pins'[c] = pins[c]
    BY SMTT(30), <1>4, <2>1 DEF log_write
  <2>4. \A c \in Blocks : pins'[c] > 0 => buf'[c] # NoBuf
    BY ZenonT(60), <2>1, <2>3
  <2>5. \A q \in LogProcs : held'[q] # NoBuf => held'[q] = held[q]
    BY <2>1
  <2>6. ASSUME NEW c \in Blocks, buf'[c] # NoBuf, buf'[c] # disk'[c]
        PROVE  pins'[c] > 0 \/ \E q \in LogProcs : held'[q] = c
    <3>1. CASE c = held[p]
      BY <2>2, <3>1
    <3>2. CASE c # held[p]
      <4>1. pins[c] > 0 \/ \E q \in LogProcs : q # p /\ held[q] = c
        BY SMTT(30), <2>1, <2>6, <3>2
      <4> QED  BY <2>1, <2>3, <3>2, <4>1
    <3> QED  BY <3>1, <3>2
  <2> QED  BY SMTT(30), <2>1, <2>4, <2>5, <2>6
<1>5. ASSUME NEW p \in LogProcs, end_op_last(p) PROVE Cache'
  BY SMTT(30), <1>5 DEF end_op_last, LastOut
<1>6. ASSUME NEW p \in LogProcs, end_op_others(p) PROVE Cache'
  BY SMTT(30), <1>6 DEF end_op_others, wakeup_log
<1>7. ASSUME NEW p \in LogProcs, commit_done(p) PROVE Cache'
  BY SMTT(30), <1>7 DEF commit_done, wakeup_log
<1>8. CASE write_log
  BY SMTT(30), <1>8 DEF write_log, advance, bread
<1>9. CASE write_head
  BY SMTT(30), <1>9 DEF write_head
<1>10. CASE install_trans
  BY SMTT(30), <1>10 DEF install_trans, advance
<1>11. CASE erase_head
  BY SMTT(30), <1>11 DEF erase_head
<1>12. CASE read_head
  BY SMTT(30), <1>12 DEF read_head
<1>13. CASE reinstall_trans
  BY SMTT(30), <1>13 DEF reinstall_trans, advance
<1>14. CASE clear_head
  BY SMTT(30), <1>14 DEF clear_head
<1>15. ASSUME NEW b \in Blocks, Load(b) PROVE Cache'
  BY SMTT(30), <1>15 DEF Load
<1>16. ASSUME NEW b \in Blocks, Recycle(b) PROVE Cache'
  BY SMTT(30), <1>16 DEF Recycle
<1>17. CASE Crash
  BY SMTT(30), <1>17 DEF Crash
<1>18. CASE UNCHANGED logvars
  BY SMTT(30), <1>18 DEF logvars
<1> QED
  BY ZenonT(30), <1>1, <1>2, <1>3, <1>4, <1>5, <1>6, <1>7, <1>8, <1>9,
     <1>10, <1>11, <1>12, <1>13, <1>14, <1>15, <1>16, <1>17, <1>18, <1>19
  DEF LogNext, ProcNext, CommitNext, RecoverNext

\* The log blocks on disk hold what the buffers held at the commit.
LEMMA LogBlocksInductive == IInv /\ [LogNext]_logvars => LogBlocks'
<1> SUFFICES ASSUME IInv, [LogNext]_logvars PROVE LogBlocks'
  OBVIOUS
<1> USE LogSizes DEF IInv, Headers, Protocol, InOp, LogBlocks, LogTypeOK, Steps, RecoverySteps, CommitSteps, Recovering, diskVars, memVars, procVars
<1>1. ASSUME NEW p \in LogProcs, begin_op_sleep(p) PROVE LogBlocks'
  BY SMTT(30), <1>1 DEF begin_op_sleep
<1>19. ASSUME NEW p \in LogProcs, begin_op_killed(p) PROVE LogBlocks'
  BY SMTT(30), <1>19 DEF begin_op_killed
<1>2. ASSUME NEW p \in LogProcs, begin_op_enter(p) PROVE LogBlocks'
  BY SMTT(30), <1>2 DEF begin_op_enter
<1>3. ASSUME NEW p \in LogProcs, NEW b \in Blocks, NEW v \in Values, modify(p, b, v) PROVE LogBlocks'
  BY SMTT(30), <1>3 DEF modify
<1>4. ASSUME NEW p \in LogProcs, log_write(p) PROVE LogBlocks'
  BY SMTT(30), <1>4 DEF log_write, Logged
<1>5. ASSUME NEW p \in LogProcs, end_op_last(p) PROVE LogBlocks'
  BY SMTT(30), <1>5 DEF end_op_last, LastOut
<1>6. ASSUME NEW p \in LogProcs, end_op_others(p) PROVE LogBlocks'
  BY SMTT(30), <1>6 DEF end_op_others, wakeup_log
<1>7. ASSUME NEW p \in LogProcs, commit_done(p) PROVE LogBlocks'
  BY SMTT(30), <1>7 DEF commit_done, wakeup_log
<1>8. CASE write_log
  BY SMTT(30), <1>8 DEF write_log, advance, bread
<1>9. CASE write_head
  BY SMTT(30), <1>9 DEF write_head
<1>10. CASE install_trans
  <2>1. /\ lh[tail] \in Blocks /\ tail \in 1..Len(lh) /\ lh' = lh /\ dlog' = dlog
        /\ disk' = [disk EXCEPT ![lh[tail]] = dlog[tail]]
        /\ buf' = [buf EXCEPT ![lh[tail]] = dlog[tail]]
    BY SMTT(30), <1>10 DEF install_trans
  <2>2. \A i \in 1..tail : disk'[lh[i]] = dlog[i]
    BY SMTT(30), <1>10, <2>1 DEF install_trans
  <2>3. \A i \in tail..Len(lh) : dlog[i] = buf'[lh[i]]
    BY SMTT(30), <1>10, <2>1 DEF install_trans
  <2>4. CASE tail < Len(lh)
    BY SMTT(30), <1>10, <2>1, <2>2, <2>3, <2>4 DEF install_trans, advance
  <2>5. CASE ~(tail < Len(lh))
    BY SMTT(30), <1>10, <2>1, <2>2, <2>3, <2>5 DEF install_trans, advance
  <2> QED  BY SMTT(30), <2>4, <2>5
<1>11. CASE erase_head
  BY SMTT(30), <1>11 DEF erase_head
<1>12. CASE read_head
  BY SMTT(30), <1>12 DEF read_head
<1>13. CASE reinstall_trans
  BY SMTT(30), <1>13 DEF reinstall_trans, advance
<1>14. CASE clear_head
  BY SMTT(30), <1>14 DEF clear_head
<1>15. ASSUME NEW b \in Blocks, Load(b) PROVE LogBlocks'
  BY SMTT(30), <1>15 DEF Load
<1>16. ASSUME NEW b \in Blocks, Recycle(b) PROVE LogBlocks'
  <2>1. \A i \in 1..Len(lh) :
          step \in {"write_log", "write_head"} \/ (step = "install" /\ i >= tail)
            => lh[i] # b
    <3> SUFFICES ASSUME NEW i \in 1..Len(lh), lh[i] = b,
                        \/ step \in {"write_log", "write_head"}
                        \/ step = "install" /\ i >= tail
                 PROVE  FALSE
      BY SMTT(30)
    <3>1. pins[b] = 1
      BY SMTT(30) DEF PinsMatchLog
    <3> QED  BY SMTT(30), <1>16, <3>1 DEF Recycle
  <2>2. \A c \in Blocks : c # b => buf'[c] = buf[c]
    BY SMTT(30), <1>16 DEF Recycle
  <2>3. UNCHANGED <<dlog, disk, lh, step, tail, pins>>
    BY SMTT(30), <1>16 DEF Recycle
  <2>4. \A i \in 1..Len(lh) : lh[i] \in Blocks
    BY SMTT(30)
  <2>5. \A i \in 1..Len(lh) :
          step \in {"write_log", "write_head"} \/ (step = "install" /\ i >= tail)
            => buf'[lh[i]] = buf[lh[i]]
    BY SMTT(30), <2>1, <2>2, <2>4
  <2>6. Len(lh) \in Nat /\ tail \in Nat /\ tail >= 1
    BY SMTT(30)
  <2>7. step = "write_log" => \A i \in 1..(tail - 1) : dlog[i] = buf'[lh[i]]
    BY SMTT(30), <2>5, <2>6
  <2>8. step = "write_head" => \A i \in 1..Len(lh) : dlog[i] = buf'[lh[i]]
    BY SMTT(30), <2>5
  <2>9. step = "install" => \A i \in tail..Len(lh) : dlog[i] = buf'[lh[i]]
    BY SMTT(30), <2>5, <2>6
  <2> QED  BY SMTT(30), <2>3, <2>7, <2>8, <2>9
<1>17. CASE Crash
  BY SMTT(30), <1>17 DEF Crash
<1>18. CASE UNCHANGED logvars
  BY <1>18 DEF logvars
<1> QED
  BY ZenonT(30), <1>1, <1>2, <1>3, <1>4, <1>5, <1>6, <1>7, <1>8, <1>9,
     <1>10, <1>11, <1>12, <1>13, <1>14, <1>15, <1>16, <1>17, <1>18, <1>19
  DEF LogNext, ProcNext, CommitNext, RecoverNext

\* A new file system, before its first boot, satisfies the invariant.
LEMMA InitIInv == LogInit => IInv
<1> SUFFICES ASSUME LogInit PROVE IInv
  OBVIOUS
<1>1. LogTypeOK
  <2>1. (CHOOSE v \in Values : TRUE) \in Values
    BY LogSizes
  <2>2. dlog \in [1..LOGSIZE -> Values] /\ tail \in 1..LOGSIZE
    BY <2>1, LogSizes DEF LogInit
  <2>3. /\ lh \in Seq(Blocks) /\ dhead \in Seq(Blocks) /\ outstanding \in Nat
        /\ step \in Steps /\ disk \in [Blocks -> Values]
    BY DEF LogInit, Steps, RecoverySteps
  <2>5. committing \in BOOLEAN
    BY Zenon DEF LogInit
  <2>4. /\ buf \in [Blocks -> Values \union {NoBuf}] /\ pins \in [Blocks -> Nat]
        /\ wrote \in [LogProcs -> SUBSET Blocks] /\ held \in [LogProcs -> Blocks \union {NoBuf}]
        /\ logpc \in [LogProcs -> {"out", "begin", "asleep", "op", "commit"}]
    BY DEF LogInit
  <2> QED  BY <2>2, <2>3, <2>4, <2>5 DEF LogTypeOK
<1>2. Headers
  BY LogSizes DEF LogInit, Headers
<1>3. InOp = {}
  BY DEF LogInit, InOp
<1>4. Protocol
  BY <1>3, FS_EmptySet DEF LogInit, Protocol, CommitSteps
<1>5. PinsMatchLog /\ Cache /\ LogBlocks
  BY DEF LogInit, PinsMatchLog, Recovering, RecoverySteps, Cache, LogBlocks
<1> QED  BY <1>1, <1>2, <1>4, <1>5 DEF IInv

\* The inductive invariant holds in every reachable state of log.c, crashes
\* and recoveries included.
LEMMA IInvInvariant == LogSpec => []IInv
<1>1. IInv /\ [LogNext]_logvars => IInv'
  BY TypeInductive, HeadersInductive, ProtocolInductive, PinsInductive,
     CacheInductive, LogBlocksInductive DEF IInv
<1> QED  BY InitIInv, <1>1, PTL DEF LogSpec

\* Every variable of the log model keeps its type: no pin count goes negative
\* and tail never leaves the log.
THEOREM TypeCorrect == LogSpec => []LogTypeOK
  BY IInvInvariant, PTL DEF IInv

\* bpin() and bunpin() match, for any number of processes and blocks.
THEOREM PinsCorrect == LogSpec => []PinsMatchLog
  BY IInvInvariant, PTL DEF IInv

\* end_op() never finds log.committing set and log_write() is always inside a
\* transaction.
THEOREM NoOpDuringCommitCorrect == LogSpec => []NoOpDuringCommit
<1>1. ASSUME IInv PROVE NoOpDuringCommit
  <2> SUFFICES ASSUME NEW p \in LogProcs, logpc[p] = "op"
               PROVE  ~committing /\ outstanding >= 1
    BY DEF NoOpDuringCommit
  <2>1. step = "idle" /\ ~committing
    BY <1>1 DEF IInv, Protocol, InOp, CommitSteps
  <2>2. outstanding # 0 /\ outstanding \in Nat
    BY <1>1, OpsOutstanding DEF IInv, LogTypeOK
  <2> QED  BY <2>1, <2>2
<1> QED  BY IInvInvariant, <1>1, PTL

\* With no operation and no commit under way, what the kernel sees is what a
\* reboot would find.
THEOREM QuietIsDurableCorrect == LogSpec => []QuietIsDurable
<1>1. ASSUME IInv, step = "idle", outstanding = 0 PROVE AfterRecovery = InMemory
  <2>1. dhead = << >> /\ lh = << >> /\ InOp = {}
    BY <1>1, OpsOutstanding DEF IInv, Headers
  <2>2. \A p \in LogProcs : held[p] = NoBuf
    BY <1>1, <2>1 DEF IInv, Protocol, InOp
  <2>3. \A b \in Blocks : pins[b] = 0
    BY <1>1, <2>1 DEF IInv, PinsMatchLog
  <2>4. \A b \in Blocks : buf[b] # NoBuf => buf[b] = disk[b]
    BY <1>1, <2>2, <2>3, LogSizes DEF IInv, Cache
  <2> QED  BY <2>1, <2>4 DEF AfterRecovery, Replay, InMemory, bread
<1>2. IInv => QuietIsDurable
  BY <1>1 DEF QuietIsDurable
<1> QED  BY IInvInvariant, <1>2, PTL

-----------------------------------------------------------------------------
(* The refinement of TxnDisk.                                              *)

\* What replaying a log of distinct blocks gives, block by block.
LEMMA ReplayFacts ==
  ASSUME NEW h \in Seq(Blocks), NEW dl, NEW d,
         \A i, j \in 1..Len(h) : h[i] = h[j] => i = j
  PROVE  /\ \A i \in 1..Len(h) : Replay(h, dl, d)[h[i]] = dl[i]
         /\ \A b \in Blocks : (\A i \in 1..Len(h) : h[i] # b) => Replay(h, dl, d)[b] = d[b]
<1>1. ASSUME NEW i \in 1..Len(h) PROVE Replay(h, dl, d)[h[i]] = dl[i]
  <2>1. h[i] \in Blocks /\ \E k \in 1..Len(h) : h[k] = h[i]
    OBVIOUS
  <2>2. (CHOOSE k \in 1..Len(h) : h[k] = h[i]) = i
    <3> DEFINE k0 == CHOOSE k \in 1..Len(h) : h[k] = h[i]
    <3>1. k0 \in 1..Len(h) /\ h[k0] = h[i]
      BY <2>1
    <3> HIDE DEF k0
    <3>2. k0 = i
      BY <3>1
    <3> QED  BY <3>2 DEF k0
  <2> QED  BY <2>1, <2>2 DEF Replay
<1>2. ASSUME NEW b \in Blocks, \A i \in 1..Len(h) : h[i] # b PROVE Replay(h, dl, d)[b] = d[b]
  BY <1>2 DEF Replay
<1> QED  BY <1>1, <1>2

\* Two replays are equal when they are equal block by block.
LEMMA ReplayEqual ==
  ASSUME NEW h1, NEW dl1, NEW d1, NEW f, f = [b \in Blocks |-> f[b]],
         \A b \in Blocks : Replay(h1, dl1, d1)[b] = f[b]
  PROVE  Replay(h1, dl1, d1) = f
<1>1. Replay(h1, dl1, d1) = [b \in Blocks |-> Replay(h1, dl1, d1)[b]]
  BY DEF Replay
<1> QED  BY <1>1

\* An empty header leaves the disk as it is.
LEMMA ReplayNothing ==
  ASSUME NEW dl, NEW d \in [Blocks -> Values]
  PROVE  Replay(<< >>, dl, d) = d
  BY DEF Replay

\* The initial states of log.c are initial states of the transactional disk.
LEMMA InitRefines == LogInit => Txn!Init
<1> SUFFICES ASSUME LogInit PROVE Txn!Init
  OBVIOUS
<1>1. AfterRecovery = disk /\ disk \in [Blocks -> Values]
  BY ReplayNothing DEF LogInit, AfterRecovery
<1>2. Current = AfterRecovery /\ InOp = {}
  BY DEF LogInit, Current, Recovering, RecoverySteps, InOp
<1> QED  BY <1>1, <1>2 DEF Txn!Init

\* A clean cache shows the disk.
LEMMA CleanCache ==
  ASSUME IInv, NEW b \in Blocks, pins[b] = 0, \A p \in LogProcs : held[p] # b
  PROVE  bread(b) = disk[b]
<1>1. buf[b] # NoBuf /\ buf[b] # disk[b] => FALSE
  BY DEF IInv, Cache
<1> QED  BY <1>1 DEF bread

\* Steps that change neither the disk nor the cache change neither image.
LEMMA SameImages ==
  ASSUME UNCHANGED <<disk, dlog, dhead, buf>>
  PROVE  AfterRecovery' = AfterRecovery /\ InMemory' = InMemory
  BY DEF AfterRecovery, Replay, InMemory, bread

\* Copying a log block home, for the first time or again, does not change what
\* recovery would produce: recovery is idempotent.
LEMMA ReplayInstalled ==
  ASSUME NEW h \in Seq(Blocks), NEW dl, NEW d \in [Blocks -> Values], NEW t \in 1..Len(h)
  PROVE  Replay(h, dl, [d EXCEPT ![h[t]] = dl[t]]) = Replay(h, dl, d)
<1> DEFINE e == [d EXCEPT ![h[t]] = dl[t]]
<1>1. ASSUME NEW b \in Blocks, ~\E i \in 1..Len(h) : h[i] = b PROVE e[b] = d[b]
  BY <1>1
<1> HIDE DEF e
<1>2. Replay(h, dl, e) = Replay(h, dl, d)
  BY <1>1 DEF Replay
<1> QED  BY <1>2 DEF e

\* The same of install_trans(), in a commit or in recovery.
LEMMA InstallIdempotent ==
  ASSUME IInv, dhead = lh, tail \in 1..Len(lh), UNCHANGED <<dlog, dhead>>,
         disk' = [disk EXCEPT ![lh[tail]] = dlog[tail]]
  PROVE  AfterRecovery' = AfterRecovery
<1>1. dhead \in Seq(Blocks) /\ disk \in [Blocks -> Values]
  BY DEF IInv, LogTypeOK
<1>2. Replay(dhead, dlog, [disk EXCEPT ![dhead[tail]] = dlog[tail]]) = Replay(dhead, dlog, disk)
  <2>1. tail \in 1..Len(dhead)
    OBVIOUS
  <2> HIDE DEF IInv
  <2> QED  BY ONLY ZenonT(30), <1>1, <2>1, ReplayInstalled
<1> QED  BY <1>2 DEF AfterRecovery

\* The header write of commit() turns the in-memory image into the durable one.
LEMMA CommitPoint ==
  ASSUME IInv, write_head
  PROVE  AfterRecovery' = InMemory /\ InMemory' = InMemory
<1>1. /\ step = "write_head" /\ dhead' = lh /\ UNCHANGED <<disk, dlog, buf>>
      /\ lh \in Seq(Blocks) /\ \A i, j \in 1..Len(lh) : lh[i] = lh[j] => i = j
  BY DEF write_head, memVars, IInv, LogTypeOK, Headers
<1>2. AfterRecovery' = Replay(lh, dlog, disk)
  BY <1>1 DEF AfterRecovery
<1>3. ASSUME NEW b \in Blocks PROVE Replay(lh, dlog, disk)[b] = InMemory[b]
  <2>1. CASE \E i \in 1..Len(lh) : lh[i] = b
    <3>1. PICK i \in 1..Len(lh) : lh[i] = b
      BY SMTT(30), <2>1
    <3>2. dlog[i] = buf[b]
      BY <1>1, <3>1 DEF IInv, LogBlocks
    <3>3. pins[b] = 1
      BY SMTT(30), <1>1, <3>1 DEF IInv, PinsMatchLog, Recovering, RecoverySteps
    <3>4. buf[b] # NoBuf
      BY SMTT(30), <3>3 DEF IInv, Cache
    <3>5. Replay(lh, dlog, disk)[b] = dlog[i]
      BY SMTT(30), <1>1, <3>1, ReplayFacts
    <3> QED  BY <3>2, <3>4, <3>5 DEF InMemory, bread
  <2>2. CASE \A i \in 1..Len(lh) : lh[i] # b
    <3>1. pins[b] = 0
      BY SMTT(30), <2>2 DEF IInv, PinsMatchLog
    <3>2. \A p \in LogProcs : held[p] # b
      BY SMTT(30), <1>1, LogSizes DEF IInv, Protocol, InOp
    <3>3. bread(b) = disk[b]
      BY <3>1, <3>2, CleanCache
    <3> QED  BY <1>1, <2>2, <3>3, ReplayFacts DEF InMemory
  <2> QED  BY <2>1, <2>2
<1>4. InMemory = [b \in Blocks |-> InMemory[b]]
  BY DEF InMemory
<1>5. Replay(lh, dlog, disk) = InMemory
  BY <1>3, <1>4, ReplayEqual
<1>6. InMemory' = InMemory
  BY <1>1 DEF InMemory, bread
<1> QED  BY SMTT(30), <1>2, <1>5, <1>6

\* Erasing the header once every block is installed changes nothing.
LEMMA EraseInstalled ==
  ASSUME IInv, step \in {"erase", "clear"}, dhead' = << >>, UNCHANGED <<disk, dlog>>
  PROVE  AfterRecovery' = disk /\ AfterRecovery = disk
<1>1. /\ dhead = lh /\ lh \in Seq(Blocks) /\ disk \in [Blocks -> Values]
      /\ \A i, j \in 1..Len(lh) : lh[i] = lh[j] => i = j
      /\ \A i \in 1..Len(lh) : disk[lh[i]] = dlog[i]
  BY SMTT(30) DEF IInv, LogTypeOK, Headers, LogBlocks
<1>2. \A b \in Blocks : Replay(lh, dlog, disk)[b] = disk[b]
  <2>1. /\ \A i \in 1..Len(lh) : Replay(lh, dlog, disk)[lh[i]] = dlog[i]
        /\ \A b \in Blocks :
             (\A i \in 1..Len(lh) : lh[i] # b) => Replay(lh, dlog, disk)[b] = disk[b]
    BY ONLY SMTT(30), <1>1, ReplayFacts
  <2>2. \A i \in 1..Len(lh) : Replay(lh, dlog, disk)[lh[i]] = disk[lh[i]]
    BY ONLY SMTT(30), <1>1, <2>1
  <2>3. ASSUME NEW b \in Blocks, NEW i \in 1..Len(lh), lh[i] = b
        PROVE  Replay(lh, dlog, disk)[b] = disk[b]
    BY ONLY <2>2, <2>3
  <2> QED  BY ONLY ZenonT(30), <2>1, <2>3
<1>3. disk = [b \in Blocks |-> disk[b]]
  BY <1>1
<1>4. AfterRecovery = disk
  BY <1>1, <1>2, <1>3, ReplayEqual DEF AfterRecovery
<1>5. AfterRecovery' = disk
  BY <1>1, ReplayNothing DEF AfterRecovery
<1> QED  BY SMTT(30), <1>4, <1>5

\* Every step of log.c is a step of the transactional disk or leaves it
\* unchanged.
LEMMA StepRefines == IInv /\ IInv' /\ [LogNext]_logvars => [Txn!Next]_(Txn!vars)
<1> SUFFICES ASSUME IInv, IInv', [LogNext]_logvars PROVE Txn!Next \/ UNCHANGED Txn!vars
  BY DEF Txn!vars
<1> DEFINE Stutter == AfterRecovery' = AfterRecovery /\ Current' = Current /\ InOp' = InOp
<1>0. Stutter => UNCHANGED Txn!vars
  BY DEF Txn!vars
<1> USE DEF diskVars, memVars, procVars
<1>1. ASSUME NEW p \in LogProcs, begin_op_sleep(p) PROVE Stutter
  <2>1. InOp' = InOp
    BY <1>1 DEF begin_op_sleep, InOp, IInv, LogTypeOK
  <2> QED  BY SMTT(30), <1>1, <2>1, SameImages DEF begin_op_sleep, Current, Recovering
<1>21. ASSUME NEW p \in LogProcs, begin_op_killed(p) PROVE Stutter
  <2>1. InOp' = InOp
    BY <1>21 DEF begin_op_killed, InOp, IInv, LogTypeOK
  <2> QED  BY SMTT(30), <1>21, <2>1, SameImages DEF begin_op_killed, Current, Recovering
<1>2. ASSUME NEW p \in LogProcs, begin_op_enter(p) PROVE Txn!Begin(p)
  <2>1. p \notin InOp /\ InOp' = InOp \union {p}
    BY <1>2 DEF begin_op_enter, InOp, IInv, LogTypeOK
  <2> QED  BY SMTT(30), <1>2, <2>1, SameImages DEF begin_op_enter, Current, Recovering, Txn!Begin
<1>3. ASSUME NEW p \in LogProcs, NEW b \in Blocks, NEW v \in Values, modify(p, b, v)
      PROVE  Txn!Write(p, b, v)
  <2>1. p \in InOp /\ InOp' = InOp /\ ~Recovering /\ ~Recovering'
    BY SMTT(30), <1>3 DEF modify, InOp, IInv, Protocol, Recovering, RecoverySteps
  <2>2. AfterRecovery' = AfterRecovery
    BY SMTT(30), <1>3 DEF modify, AfterRecovery
  <2>3. InMemory' = [InMemory EXCEPT ![b] = v]
    BY ZenonT(30), <1>3, LogSizes DEF modify, InMemory, bread, IInv, LogTypeOK
  <2> QED  BY SMTT(30), <2>1, <2>2, <2>3 DEF Current, Txn!Write
<1>4. ASSUME NEW p \in LogProcs, log_write(p) PROVE Stutter
  BY Zenon, <1>4, SameImages DEF log_write, Current, Recovering, InOp
<1>5. ASSUME NEW p \in LogProcs, end_op_last(p) PROVE Txn!End(p)
  <2>1. p \in InOp /\ InOp' = InOp \ {p} /\ ~Recovering /\ ~Recovering'
    BY SMTT(30), <1>5 DEF end_op_last, LastOut, InOp, IInv, LogTypeOK, Protocol, Recovering, RecoverySteps
  <2> QED  BY SMTT(30), <1>5, <2>1, SameImages DEF end_op_last, LastOut, Current, Txn!End
<1>6. ASSUME NEW p \in LogProcs, end_op_others(p) PROVE Txn!End(p)
  <2>1. p \in InOp /\ InOp' = InOp \ {p}
    BY <1>6 DEF end_op_others, wakeup_log, InOp, IInv, LogTypeOK
  <2> QED  BY ZenonT(30), <1>6, <2>1, SameImages DEF end_op_others, Current, Recovering, Txn!End
<1>7. ASSUME NEW p \in LogProcs, commit_done(p) PROVE Stutter
  <2>1. InOp' = InOp /\ ~Recovering /\ ~Recovering'
    BY <1>7 DEF commit_done, wakeup_log, InOp, IInv, LogTypeOK, Recovering, RecoverySteps
  <2> QED  BY SMTT(30), <1>7, <2>1, SameImages DEF commit_done, Current
<1>8. ASSUME write_log PROVE Stutter
  <2>1. /\ step = "write_log" /\ tail \in 1..Len(lh) /\ lh[tail] \in Blocks /\ dhead = << >>
        /\ UNCHANGED <<disk, dhead>> /\ InOp' = InOp
        /\ buf' = [buf EXCEPT ![lh[tail]] = bread(lh[tail])]
    BY <1>8 DEF write_log, IInv, LogTypeOK, Headers, InOp
  <2>2. ~Recovering /\ ~Recovering'
    BY <1>8 DEF write_log, advance, Recovering, RecoverySteps
  <2>3. AfterRecovery' = AfterRecovery
    BY ZenonT(30), <2>1, ReplayNothing DEF AfterRecovery, IInv, LogTypeOK
  <2>4. InMemory' = InMemory
    BY SMTT(30), <2>1 DEF InMemory, bread, IInv, LogTypeOK
  <2> QED  BY SMTT(30), <2>1, <2>2, <2>3, <2>4 DEF Current
<1>9. CASE write_head
  <2>1. step = "write_head" /\ step' = "install" /\ InOp' = InOp
    BY <1>9 DEF write_head, InOp
  <2>2. ~Recovering /\ ~Recovering' /\ InOp = {}
    BY <2>1 DEF Recovering, RecoverySteps, IInv, Protocol
  <2> QED  BY <1>9, <2>1, <2>2, CommitPoint DEF Current, Txn!Next, Txn!Commit
<1>10. ASSUME install_trans PROVE Stutter
  <2>1. /\ step = "install" /\ tail \in 1..Len(lh) /\ lh[tail] \in Blocks /\ dhead = lh
        /\ UNCHANGED <<dlog, dhead>> /\ InOp' = InOp
        /\ disk' = [disk EXCEPT ![lh[tail]] = dlog[tail]]
        /\ buf' = [buf EXCEPT ![lh[tail]] = dlog[tail]]
    BY <1>10 DEF install_trans, IInv, LogTypeOK, Headers, InOp
  <2>2. ~Recovering /\ ~Recovering'
    BY <1>10 DEF install_trans, advance, Recovering, RecoverySteps
  <2>3. AfterRecovery' = AfterRecovery
    BY <2>1, InstallIdempotent
  <2>4. dlog[tail] = buf[lh[tail]] /\ dlog[tail] # NoBuf
    <3>1. PinsMatchLog /\ Cache
          /\ (step = "install" => \A i \in tail..Len(lh) : dlog[i] = buf[lh[i]])
      BY Zenon DEF IInv, LogBlocks
    <3>2. step = "install" /\ tail \in 1..Len(lh) /\ lh[tail] \in Blocks /\ Len(lh) \in Nat
      BY SMTT(30), <2>1 DEF IInv, LogTypeOK
    <3>3. tail \in tail..Len(lh) /\ \E i \in 1..Len(lh) : lh[i] = lh[tail] /\ i >= tail
      BY ONLY <3>2
    <3>4. dlog[tail] = buf[lh[tail]]
      BY ONLY <3>1, <3>2, <3>3
    <3>5. pins[lh[tail]] = 1
      BY Zenon, <2>2, <3>1, <3>2, <3>3 DEF PinsMatchLog
    <3>6. buf[lh[tail]] # NoBuf
      BY ONLY SMTT(30), <3>1, <3>2, <3>5 DEF Cache
    <3> QED  BY ONLY <3>4, <3>6
  <2>5. InMemory' = InMemory
    BY SMTT(30), <2>1, <2>4 DEF InMemory, bread, IInv, LogTypeOK
  <2> QED  BY SMTT(30), <2>1, <2>2, <2>3, <2>5 DEF Current
<1>11. ASSUME erase_head PROVE Stutter
  <2>1. /\ step = "erase" /\ dhead' = << >> /\ UNCHANGED <<disk, dlog, buf>> /\ InOp' = InOp
        /\ ~Recovering /\ ~Recovering'
    BY <1>11 DEF erase_head, InOp, Recovering, RecoverySteps
  <2> QED  BY <2>1, EraseInstalled DEF Current, InMemory, bread
<1>12. ASSUME read_head PROVE Stutter
  <2>1. Recovering /\ Recovering'
    BY <1>12 DEF read_head, Recovering, RecoverySteps
  <2> QED  BY <1>12, <2>1, SameImages DEF read_head, Current, InOp
<1>13. ASSUME reinstall_trans PROVE Stutter
  <2>1. /\ step = "reinstall" /\ tail \in 1..Len(lh) /\ dhead = lh
        /\ UNCHANGED <<dlog, dhead>> /\ InOp' = InOp
        /\ disk' = [disk EXCEPT ![lh[tail]] = dlog[tail]]
    BY <1>13 DEF reinstall_trans, IInv, LogTypeOK, Headers, InOp
  <2>2. Recovering /\ Recovering'
    BY <1>13 DEF reinstall_trans, advance, Recovering, RecoverySteps
  <2>3. AfterRecovery' = AfterRecovery
    BY <2>1, InstallIdempotent
  <2> QED  BY SMTT(30), <2>1, <2>2, <2>3 DEF Current
<1>14. ASSUME clear_head PROVE Stutter
  <2>1. /\ step = "clear" /\ dhead' = << >> /\ UNCHANGED <<disk, dlog, buf>> /\ InOp' = InOp
        /\ Recovering /\ ~Recovering'
    BY <1>14 DEF clear_head, InOp, Recovering, RecoverySteps
  <2>2. AfterRecovery' = disk /\ AfterRecovery = disk
    BY <2>1, EraseInstalled
  <2>3. \A b \in Blocks : bread(b) = disk[b]
    <3> SUFFICES ASSUME NEW b \in Blocks PROVE bread(b) = disk[b]
      BY Zenon
    <3>1. pins[b] = 0 /\ \A p \in LogProcs : held[p] # b
      BY ZenonT(30), <2>1, LogSizes DEF IInv, PinsMatchLog, Protocol, InOp
    <3> QED  BY <3>1, CleanCache
  <2>4. InMemory' = disk
    BY <2>1, <2>3 DEF InMemory, bread, IInv, LogTypeOK
  <2> QED  BY <2>1, <2>2, <2>4 DEF Current
<1>15. ASSUME NEW b \in Blocks, Load(b) PROVE Stutter
  <2>1. AfterRecovery' = AfterRecovery /\ InOp' = InOp /\ ~Recovering /\ ~Recovering'
    BY ZenonT(30), <1>15 DEF Load, AfterRecovery, InOp, Recovering
  <2>2. InMemory' = InMemory
    BY <1>15 DEF Load, InMemory, bread, IInv, LogTypeOK
  <2> QED  BY SMTT(30), <2>1, <2>2 DEF Current
<1>16. ASSUME NEW b \in Blocks, Recycle(b) PROVE Stutter
  <2>1. AfterRecovery' = AfterRecovery /\ InOp' = InOp /\ (Recovering <=> Recovering')
    BY ZenonT(30), <1>16 DEF Recycle, AfterRecovery, InOp, Recovering
  <2>2. bread(b) = disk[b]
    BY SMTT(30), <1>16, CleanCache DEF Recycle
  <2>3. InMemory' = InMemory
    BY <1>16, <2>2 DEF Recycle, InMemory, bread, IInv, LogTypeOK
  <2> QED  BY SMTT(30), <2>1, <2>3 DEF Current
<1>17. CASE Crash
  <2>1. AfterRecovery' = AfterRecovery /\ InOp' = {} /\ Recovering'
    BY <1>17 DEF Crash, AfterRecovery, InOp, Recovering, RecoverySteps
  <2> QED  BY <2>1 DEF Current, Txn!Next, Txn!Crash
<1>18. CASE UNCHANGED logvars
  <2>1. Stutter
    BY SMTT(30), <1>18, SameImages DEF logvars, Current, Recovering, InOp
  <2> QED  BY SMTT(30), <1>0, <2>1
<1>19. ASSUME NEW p \in LogProcs, ProcNext(p) PROVE Txn!Next \/ UNCHANGED Txn!vars
  BY SMTT(30), <1>19, <1>0, <1>1, <1>2, <1>3, <1>4, <1>5, <1>6, <1>7, <1>21 DEF ProcNext, Txn!Next
<1>20. CASE CommitNext \/ RecoverNext
  BY <1>20, <1>0, <1>8, <1>9, <1>10, <1>11, <1>12, <1>13, <1>14 DEF CommitNext, RecoverNext
<1> QED
  BY <1>0, <1>15, <1>16, <1>17, <1>18, <1>19, <1>20 DEF LogNext

\* log.c implements the transactional disk: whatever the operations and
\* wherever the crashes, the durable image changes by whole transactions.
THEOREM LogRefinesTxnDisk == LogSpec => TransactionalDisk
<1>1. LogSpec => []IInv
  BY IInvInvariant
<1> QED  BY <1>1, InitRefines, StepRefines, PTL DEF LogSpec, TransactionalDisk, Txn!Spec
-----------------------------------------------------------------------------
(* The space that begin_op() reserves.                                     *)

\* The operations leave room in the log: param.h has LOGSIZE = 3 * MAXOPBLOCKS,
\* mkfs makes the log, its header included, LOGSIZE blocks long, and no
\* operation uses its reservation to the last block.
LogRoom == OpBlocks < MAXOPBLOCKS /\ MAXOPBLOCKS < LOGSIZE /\ LOGSIZE <= NLOG

\* The blocks that the operations under way may still add to the log, as
\* tokens: one for each block an operation has not passed to log_write() yet.
Unused == {u \in InOp \X (1..OpBlocks) : u[2] > Cardinality(wrote[u[1]])}

\* How far the log can fill up: one operation that is alone, or at least two,
\* each of which leaves a part of its reservation.
Fits(n) == n <= OpBlocks \/ n <= LOGSIZE - 2 * (MAXOPBLOCKS - OpBlocks)

\* What an operation has passed to log_write() is in the log, it holds only a
\* block it may still write, and the log has room for what is to come.
Reserved ==
  /\ \A p \in InOp : /\ IsFiniteSet(wrote[p]) /\ wrote[p] \subseteq Logged
                     /\ held[p] # NoBuf =>
                          held[p] \in wrote[p] \/ Cardinality(wrote[p]) < OpBlocks
  /\ step = "idle" => Fits(Len(lh) + Cardinality(Unused))

\* There are at most OpBlocks tokens for each operation under way.
LEMMA UnusedBounded ==
  ASSUME IInv
  PROVE  /\ IsFiniteSet(Unused) /\ Cardinality(Unused) \in Nat
         /\ Cardinality(Unused) <= outstanding * OpBlocks
<1>1. IsFiniteSet(InOp) /\ Cardinality(InOp) = outstanding
  BY Zenon, OpsOutstanding DEF IInv, Protocol
<1>2. IsFiniteSet(1..OpBlocks) /\ Cardinality(1..OpBlocks) = OpBlocks
  BY SMT, FS_Interval, LogSizes
<1>3. /\ IsFiniteSet(InOp \X (1..OpBlocks))
      /\ Cardinality(InOp \X (1..OpBlocks)) = outstanding * OpBlocks
  <2> HIDE DEF InOp
  <2> QED  BY Zenon, <1>1, <1>2, FS_Product
<1>4. Unused \in SUBSET (InOp \X (1..OpBlocks))
  BY Zenon DEF Unused
<1>5. IsFiniteSet(Unused) /\ Cardinality(Unused) <= outstanding * OpBlocks
  BY Zenon, <1>3, <1>4, FS_Subset
<1> QED  BY Zenon, <1>5, FS_CardinalityType

\* A smaller log, or fewer blocks to come, fit as well.
LEMMA FitsLess ==
  ASSUME NEW m \in Nat, NEW n \in Nat, m <= n, Fits(n)
  PROVE  Fits(m)
  BY SMT, LogSizes DEF Fits

\* begin_op() admits an operation that is alone, with an empty log, or one of
\* at least two for which the reservations of all fit in the log.
LEMMA Admitted ==
  ASSUME NEW n \in Nat, NEW k \in Nat, n + (k + 1) * MAXOPBLOCKS <= LOGSIZE, k = 0 => n = 0
  PROVE  Fits(n + (k + 1) * OpBlocks)
<1>1. CASE k = 0
  BY SMT, <1>1, LogSizes DEF Fits
<1>2. CASE k >= 1
  <2> DEFINE d == MAXOPBLOCKS - OpBlocks
  <2>1. d \in Nat /\ MAXOPBLOCKS = OpBlocks + d /\ OpBlocks \in Nat
    BY SMT, LogSizes
  <2> HIDE DEF d
  <2>2. (k + 1) * MAXOPBLOCKS = (k + 1) * OpBlocks + (k + 1) * d
    BY SMT, <2>1
  <2>3. PICK j \in Nat : k = j + 1
    BY SMT, <1>2
  <2>4. (k + 1) * d = 2 * d + j * d /\ j * d \in Nat
    BY SMT, <2>1, <2>3
  <2>5. (k + 1) * OpBlocks \in Nat /\ (k + 1) * d \in Nat
    BY SMT, <2>1
  <2>6. n + (k + 1) * OpBlocks <= LOGSIZE - 2 * d
    <3> DEFINE a == (k + 1) * OpBlocks
               b == (k + 1) * MAXOPBLOCKS
               c == (k + 1) * d
               e == j * d
    <3>1. /\ b = a + c /\ c = 2 * d + e /\ n + b <= LOGSIZE
          /\ a \in Nat /\ c \in Nat /\ e \in Nat /\ d \in Nat /\ LOGSIZE \in Nat
      BY <2>1, <2>2, <2>4, <2>5, LogSizes
    <3> HIDE DEF a, b, c, e
    <3>2. n + a <= LOGSIZE - 2 * d
      BY SMT, <3>1
    <3> QED  BY <3>2 DEF a
  <2> QED  BY <2>6 DEF Fits, d
<1> QED  BY SMT, <1>1, <1>2

\* A step that admits no operation and logs no block keeps what is reserved.
LEMMA ReservedKept ==
  ASSUME IInv, IInv', Reserved, InOp' \subseteq InOp,
         \A p \in InOp' : wrote'[p] = wrote[p] /\ held'[p] = held[p],
         InOp' # {} => lh' = lh,
         step' = "idle" => (step = "idle" /\ lh' = lh) \/ (lh' = << >> /\ InOp' = {})
  PROVE  Reserved'
<1>1. ASSUME NEW p \in InOp'
      PROVE  /\ IsFiniteSet(wrote'[p]) /\ wrote'[p] \subseteq Logged'
             /\ held'[p] # NoBuf => held'[p] \in wrote'[p] \/ Cardinality(wrote'[p]) < OpBlocks
  <2>1. Logged' = Logged
    BY Zenon, <1>1 DEF Logged
  <2> QED  BY Zenon, <1>1, <2>1 DEF Reserved
<1>2. /\ IsFiniteSet(Unused) /\ Cardinality(Unused) \in Nat
      /\ IsFiniteSet(Unused') /\ Cardinality(Unused') \in Nat
  <2>1. (IInv => IsFiniteSet(Unused) /\ Cardinality(Unused) \in Nat)'
    BY UnusedBounded, PTL
  <2> QED  BY <2>1, UnusedBounded
<1>3. Unused' \in SUBSET Unused
  BY ZenonT(30) DEF Unused
<1>4. Cardinality(Unused') <= Cardinality(Unused)
  BY Zenon, <1>2, <1>3, FS_Subset
<1>5. Len(lh) \in Nat /\ Len(lh') \in Nat
  BY DEF IInv, LogTypeOK
<1>6. ASSUME step' = "idle" PROVE Fits(Len(lh') + Cardinality(Unused'))
  <2>1. CASE step = "idle" /\ lh' = lh
    <3>1. Fits(Len(lh) + Cardinality(Unused))
      BY Zenon, <2>1 DEF Reserved
    <3>2. /\ Len(lh') + Cardinality(Unused') <= Len(lh) + Cardinality(Unused)
          /\ Len(lh) + Cardinality(Unused) \in Nat /\ Len(lh') + Cardinality(Unused') \in Nat
      BY ONLY SMT, <1>2, <1>4, <1>5, <2>1
    <3> QED  BY ONLY Zenon, <3>1, <3>2, FitsLess
  <2>2. CASE lh' = << >> /\ InOp' = {}
    <3>1. Unused' = {} /\ Len(lh') = 0
      BY <2>2 DEF Unused
    <3>2. Cardinality(Unused') = 0
      BY Zenon, <3>1, FS_EmptySet
    <3> QED  BY ONLY SMT, <3>1, <3>2, LogSizes DEF Fits
  <2> QED  BY Zenon, <1>6, <2>1, <2>2
<1> QED  BY Zenon, <1>1, <1>6 DEF Reserved

\* begin_op(): the operation gets OpBlocks tokens, and MustWait has made sure
\* that they fit.
LEMMA EnterReserves ==
  ASSUME IInv, IInv', Reserved, NEW p \in LogProcs, begin_op_enter(p)
  PROVE  Reserved'
<1>1. /\ ~MustWait /\ outstanding' = outstanding + 1 /\ lh' = lh /\ held' = held
      /\ wrote' = [wrote EXCEPT ![p] = {}] /\ logpc' = [logpc EXCEPT ![p] = "op"] /\ step' = step
  BY Zenon DEF begin_op_enter
<1>2. /\ wrote \in [LogProcs -> SUBSET Blocks] /\ logpc \in [LogProcs -> {"out", "begin", "asleep", "op", "commit"}]
      /\ Len(lh) \in Nat /\ outstanding \in Nat /\ InOp \subseteq LogProcs
  BY DEF IInv, LogTypeOK, InOp
<1>3. InOp' \subseteq InOp \union {p} /\ wrote'[p] = {} /\ \A q \in LogProcs : q # p => wrote'[q] = wrote[q]
  BY <1>1, <1>2 DEF InOp
<1>4. held[p] = NoBuf
  BY Zenon DEF begin_op_enter, IInv, Protocol
<1>5. ASSUME NEW q \in InOp'
      PROVE  /\ IsFiniteSet(wrote'[q]) /\ wrote'[q] \subseteq Logged'
             /\ held'[q] # NoBuf => held'[q] \in wrote'[q] \/ Cardinality(wrote'[q]) < OpBlocks
  <2>1. Logged' = Logged
    BY Zenon, <1>1 DEF Logged
  <2>2. CASE q = p
    BY Zenon, <1>1, <1>3, <1>4, <2>2, FS_EmptySet
  <2>3. CASE q # p
    BY Zenon, <1>1, <1>2, <1>3, <2>1, <2>3 DEF Reserved
  <2> QED  BY <2>2, <2>3
<1>6. step = "idle"
  BY Zenon DEF begin_op_enter, MustWait, IInv, Protocol, LogTypeOK, Steps, Recovering
<1>7. outstanding = 0 => Len(lh) = 0
  BY <1>6 DEF IInv, Headers
<1>8. Len(lh) + (outstanding + 1) * MAXOPBLOCKS <= LOGSIZE
  BY SMT, <1>1, <1>2, LogSizes DEF MustWait
<1>9. Fits(Len(lh) + (outstanding + 1) * OpBlocks)
  BY Zenon, <1>2, <1>7, <1>8, Admitted
<1>10. /\ Cardinality(Unused') \in Nat /\ Cardinality(Unused') <= (outstanding + 1) * OpBlocks
  <2>1. (IInv => Cardinality(Unused) \in Nat /\ Cardinality(Unused) <= outstanding * OpBlocks)'
    BY UnusedBounded, PTL
  <2> QED  BY Zenon, <1>1, <2>1
<1>11. Fits(Len(lh) + Cardinality(Unused'))
  <2> DEFINE most == (outstanding + 1) * OpBlocks
  <2>1. most \in Nat
    BY SMT, <1>2, LogSizes
  <2>2. Cardinality(Unused') <= most /\ Fits(Len(lh) + most)
    BY Zenon, <1>9, <1>10
  <2> HIDE DEF most
  <2>3. /\ Len(lh) + Cardinality(Unused') <= Len(lh) + most
        /\ Len(lh) + most \in Nat /\ Len(lh) + Cardinality(Unused') \in Nat
    BY ONLY SMT, <1>2, <1>10, <2>1, <2>2
  <2> QED  BY ONLY Zenon, <2>2, <2>3, FitsLess
<1> QED  BY Zenon, <1>1, <1>5, <1>11 DEF Reserved

\* log_write(): a block that is new to the log takes one of its operation's
\* tokens; an absorbed block adds nothing.
LEMMA WriteReserves ==
  ASSUME IInv, IInv', Reserved, NEW p \in LogProcs, log_write(p)
  PROVE  Reserved'
<1> DEFINE b == held[p]
           t == <<p, Cardinality(wrote[p]) + 1>>
<1>1. /\ b # NoBuf /\ logpc' = logpc /\ step' = step
      /\ wrote' = [wrote EXCEPT ![p] = @ \union {b}] /\ held' = [held EXCEPT ![p] = NoBuf]
  BY Zenon DEF log_write
<1>2. /\ wrote \in [LogProcs -> SUBSET Blocks] /\ held \in [LogProcs -> Blocks \union {NoBuf}]
      /\ lh \in Seq(Blocks) /\ InOp \subseteq LogProcs
  BY Zenon DEF IInv, LogTypeOK, InOp
<1>3. InOp' = InOp /\ p \in InOp /\ b \in Blocks
  BY Zenon, <1>1, <1>2 DEF InOp, IInv, Protocol
<1>4. /\ wrote'[p] = wrote[p] \union {b} /\ held'[p] = NoBuf
      /\ \A q \in LogProcs : q # p => wrote'[q] = wrote[q] /\ held'[q] = held[q]
  BY Zenon, <1>1, <1>2
<1>5. IsFiniteSet(wrote[p]) /\ wrote[p] \subseteq Logged /\ (b \in wrote[p] \/ Cardinality(wrote[p]) < OpBlocks)
  BY Zenon, <1>1, <1>3 DEF Reserved
<1>6. /\ IsFiniteSet(wrote'[p]) /\ Cardinality(wrote[p]) \in Nat
      /\ Cardinality(wrote'[p]) = IF b \in wrote[p] THEN Cardinality(wrote[p]) ELSE Cardinality(wrote[p]) + 1
  <2>1. /\ IsFiniteSet(wrote[p] \union {b})
        /\ Cardinality(wrote[p] \union {b}) =
             IF b \in wrote[p] THEN Cardinality(wrote[p]) ELSE Cardinality(wrote[p]) + 1
    BY ONLY Zenon, <1>5, FS_AddElement
  <2>2. Cardinality(wrote[p]) \in Nat
    BY ONLY Zenon, <1>5, FS_CardinalityType
  <2> QED  BY ONLY SMT, <1>4, <2>1, <2>2
<1>7. Logged \union {b} \subseteq Logged'
  <2>1. CASE b \in Logged
    BY Zenon, <2>1 DEF log_write, Logged
  <2>2. CASE b \notin Logged
    <3>1. lh' = Append(lh, b)
      BY Zenon, <2>2 DEF log_write
    <3>2. \A c : (\E i \in 1..Len(lh') : lh'[i] = c) <=> (\E i \in 1..Len(lh) : lh[i] = c) \/ c = b
      <4> HIDE DEF b
      <4>1. lh \in Seq(Blocks) /\ b \in Blocks
        BY <1>2, <1>3
      <4> QED  BY ONLY SMTT(30), <3>1, <4>1, AppendElements
    <3> QED  BY Zenon, <3>2 DEF Logged
  <2> QED  BY <2>1, <2>2
<1>8. ASSUME NEW q \in InOp'
      PROVE  /\ IsFiniteSet(wrote'[q]) /\ wrote'[q] \subseteq Logged'
             /\ held'[q] # NoBuf => held'[q] \in wrote'[q] \/ Cardinality(wrote'[q]) < OpBlocks
  <2>1. CASE q = p
    BY Zenon, <1>4, <1>5, <1>6, <1>7, <2>1
  <2>2. CASE q # p
    BY Zenon, <1>2, <1>3, <1>4, <1>7, <2>2 DEF Reserved
  <2> QED  BY <2>1, <2>2
<1>9. /\ IsFiniteSet(Unused) /\ Cardinality(Unused) \in Nat
      /\ IsFiniteSet(Unused') /\ Cardinality(Unused') \in Nat
  <2>1. (IInv => IsFiniteSet(Unused) /\ Cardinality(Unused) \in Nat)'
    BY UnusedBounded, PTL
  <2> QED  BY <2>1, UnusedBounded
<1>10. Cardinality(wrote'[p]) \in Nat /\ Cardinality(wrote[p]) <= Cardinality(wrote'[p])
  BY SMT, <1>6
<1>11. Unused' \subseteq Unused
  <2> SUFFICES ASSUME NEW u \in Unused' PROVE u \in Unused
    BY Zenon
  <2>1. u \in InOp \X (1..OpBlocks) /\ u[2] > Cardinality(wrote'[u[1]])
    BY Zenon, <1>3 DEF Unused
  <2>2. u[2] \in Int /\ u[1] \in LogProcs
    BY <1>2, <2>1
  <2>3. u[2] > Cardinality(wrote[u[1]])
    <3>1. CASE u[1] = p
      BY SMT, <1>6, <1>10, <2>1, <2>2, <3>1
    <3>2. CASE u[1] # p
      BY Zenon, <1>4, <2>1, <2>2, <3>2
    <3> QED  BY <3>1, <3>2
  <2> QED  BY Zenon, <2>1, <2>3 DEF Unused
<1>12. Len(lh) \in Nat /\ Len(lh') \in Nat
  BY DEF IInv, LogTypeOK
<1>13. Len(lh') + Cardinality(Unused') <= Len(lh) + Cardinality(Unused)
  <2>1. CASE b \in Logged
    <3>1. lh' = lh
      BY Zenon, <2>1 DEF log_write
    <3>2. Cardinality(Unused') <= Cardinality(Unused)
      BY Zenon, <1>9, <1>11, FS_Subset
    <3> QED  BY ONLY SMT, <1>9, <1>12, <3>1, <3>2
  <2>2. CASE b \notin Logged
    <3>1. lh' = Append(lh, b)
      BY Zenon, <2>2 DEF log_write
    <3>2. Len(lh') = Len(lh) + 1
      BY ONLY SMT, <1>2, <1>3, <3>1
    <3>3. b \notin wrote[p] /\ Cardinality(wrote[p]) < OpBlocks
      BY Zenon, <1>5, <2>2
    <3>4. Cardinality(wrote'[p]) = Cardinality(wrote[p]) + 1
      BY Zenon, <1>6, <3>3
    <3>5. Cardinality(wrote[p]) + 1 \in 1..OpBlocks /\ Cardinality(wrote[p]) + 1 > Cardinality(wrote[p])
          /\ ~(Cardinality(wrote[p]) + 1 > Cardinality(wrote'[p]))
      BY ONLY SMT, <1>6, <3>3, <3>4, LogSizes
    <3>6. t \in Unused /\ t \notin Unused'
      BY <1>3, <3>5 DEF Unused
    <3>7. Unused' \in SUBSET (Unused \ {t})
      BY Zenon, <1>11, <3>6
    <3>8. IsFiniteSet(Unused \ {t}) /\ Cardinality(Unused \ {t}) = Cardinality(Unused) - 1
      <4>1. /\ IsFiniteSet(Unused \ {t})
            /\ Cardinality(Unused \ {t}) =
                 IF t \in Unused THEN Cardinality(Unused) - 1 ELSE Cardinality(Unused)
        BY ONLY Zenon, <1>9, FS_RemoveElement
      <4> QED  BY ONLY SMT, <3>6, <4>1
    <3>9. Cardinality(Unused') <= Cardinality(Unused) - 1
      <4>1. Cardinality(Unused') <= Cardinality(Unused \ {t})
        BY ONLY Zenon, <3>7, <3>8, FS_Subset
      <4> QED  BY ONLY SMT, <3>8, <4>1
    <3> QED  BY ONLY SMT, <1>9, <1>12, <3>2, <3>9
  <2> QED  BY <2>1, <2>2
<1>14. ASSUME step' = "idle" PROVE Fits(Len(lh') + Cardinality(Unused'))
  <2>1. Fits(Len(lh) + Cardinality(Unused))
    BY Zenon, <1>1, <1>14 DEF Reserved
  <2>2. Len(lh) + Cardinality(Unused) \in Nat /\ Len(lh') + Cardinality(Unused') \in Nat
    BY ONLY SMT, <1>9, <1>12
  <2> QED  BY ONLY Zenon, <1>13, <2>1, <2>2, FitsLess
<1> QED  BY Zenon, <1>8, <1>14 DEF Reserved

\* Every step of the log keeps the room that its operations need.
LEMMA ReservedInductive == IInv /\ IInv' /\ Reserved /\ [LogNext]_logvars => Reserved'
<1> SUFFICES ASSUME IInv, IInv', Reserved, [LogNext]_logvars PROVE Reserved'
  OBVIOUS
<1> USE Zenon
<1>0. logpc \in [LogProcs -> {"out", "begin", "asleep", "op", "commit"}] /\ held \in [LogProcs -> Blocks \union {NoBuf}]
  BY DEF IInv, LogTypeOK
<1>a. step # "idle" => InOp = {}
  BY DEF IInv, Protocol
<1>1. ASSUME NEW p \in LogProcs, begin_op_sleep(p) PROVE Reserved'
  <2>1. InOp' \subseteq InOp /\ wrote' = wrote /\ held' = held /\ lh' = lh /\ step' = step
    BY <1>0, <1>1 DEF begin_op_sleep, InOp, memVars
  <2> QED  BY <2>1, ReservedKept
<1>2. ASSUME NEW p \in LogProcs, begin_op_enter(p) PROVE Reserved'
  BY <1>2, EnterReserves
<1>3. ASSUME NEW p \in LogProcs, begin_op_killed(p) PROVE Reserved'
  <2>1. InOp' \subseteq InOp /\ wrote' = wrote /\ held' = held /\ lh' = lh /\ step' = step
    BY <1>0, <1>3 DEF begin_op_killed, InOp, memVars
  <2> QED  BY <2>1, ReservedKept
<1>4. ASSUME NEW p \in LogProcs, NEW b \in Blocks, NEW v \in Values, modify(p, b, v) PROVE Reserved'
  <2>1. /\ InOp' = InOp /\ wrote' = wrote /\ lh' = lh /\ step' = step
        /\ held' = [held EXCEPT ![p] = b] /\ (b \in wrote[p] \/ Cardinality(wrote[p]) < OpBlocks)
    BY <1>4 DEF modify, InOp
  <2>2. Unused' = Unused /\ Logged' = Logged
    BY <2>1 DEF Unused, Logged
  <2>3. \A q \in InOp : held'[q] = held[q] \/ (q = p /\ held'[q] = b)
    BY <1>0, <2>1 DEF InOp
  <2> QED  BY <2>1, <2>2, <2>3 DEF Reserved
<1>5. ASSUME NEW p \in LogProcs, log_write(p) PROVE Reserved'
  BY <1>5, WriteReserves
<1>6. ASSUME NEW p \in LogProcs, end_op_last(p) PROVE Reserved'
  <2>1. /\ InOp' \subseteq InOp /\ wrote' = wrote /\ held' = held /\ lh' = lh
        /\ step' # "idle"
    BY <1>0, <1>6 DEF end_op_last, LastOut, InOp
  <2> QED  BY <2>1, ReservedKept
<1>7. ASSUME NEW p \in LogProcs, end_op_others(p) PROVE Reserved'
  <2>1. InOp' \subseteq InOp /\ wrote' = wrote /\ held' = held /\ lh' = lh /\ step' = step
    BY SMT, <1>0, <1>7 DEF end_op_others, wakeup_log, InOp
  <2> QED  BY <2>1, ReservedKept
<1>8. ASSUME NEW p \in LogProcs, commit_done(p) PROVE Reserved'
  <2>1. InOp = {} /\ lh = << >>
    BY <1>8, <1>a DEF commit_done, IInv, Headers
  <2>2. InOp' = {} /\ lh' = << >>
    BY SMT, <1>0, <1>8, <2>1 DEF commit_done, wakeup_log, InOp
  <2> QED  BY <2>2, ReservedKept
<1>9. ASSUME CommitNext PROVE Reserved'
  <2>1. step # "idle" /\ logpc' = logpc /\ step' # "idle"
    BY SMT, <1>9 DEF CommitNext, write_log, write_head, install_trans, erase_head, advance, procVars
  <2>2. InOp' = {}
    BY <1>a, <2>1 DEF InOp
  <2> QED  BY <2>1, <2>2, ReservedKept
<1>10. ASSUME RecoverNext PROVE Reserved'
  <2>1. step # "idle" /\ logpc' = logpc /\ (step' = "idle" => lh' = << >>)
    BY SMT, <1>10 DEF RecoverNext, read_head, reinstall_trans, clear_head, advance, procVars
  <2>2. InOp' = {}
    BY <1>a, <2>1 DEF InOp
  <2> QED  BY <2>1, <2>2, ReservedKept
<1>11. ASSUME NEW b \in Blocks, Load(b) \/ Recycle(b) PROVE Reserved'
  <2>1. InOp' = InOp /\ wrote' = wrote /\ held' = held /\ lh' = lh /\ step' = step
    BY <1>11 DEF Load, Recycle, InOp, procVars
  <2> QED  BY <2>1, ReservedKept
<1>12. CASE Crash
  <2>1. InOp' = {} /\ step' # "idle"
    BY SMT, <1>12 DEF Crash, InOp
  <2> QED  BY <2>1, ReservedKept
<1>13. CASE UNCHANGED logvars
  <2>1. InOp' = InOp /\ wrote' = wrote /\ held' = held /\ lh' = lh /\ step' = step
    BY <1>13 DEF logvars, InOp
  <2> QED  BY <2>1, ReservedKept
<1> QED
  BY <1>1, <1>2, <1>3, <1>4, <1>5, <1>6, <1>7, <1>8, <1>9, <1>10, <1>11, <1>12, <1>13
  DEF LogNext, ProcNext

\* log_write() never panics with "too big a transaction": whatever the number
\* of operations that run at once, begin_op() has kept room for the blocks they
\* write, in lh.block[] and in the on-disk log, which is one block shorter; the
\* test comes before absorption, so this is the case for a block written again
\* too.
THEOREM ReservationSufficesCorrect == ASSUME LogRoom PROVE LogSpec => []ReservationSuffices
<1>1. ASSUME IInv, Reserved PROVE ReservationSuffices
  <2> SUFFICES ASSUME NEW p \in LogProcs, held[p] # NoBuf PROVE ~TooBig
    BY DEF ReservationSuffices
  <2>1. step = "idle"
    BY Zenon, <1>1 DEF IInv, Protocol, InOp
  <2>2. Fits(Len(lh) + Cardinality(Unused))
    BY Zenon, <1>1, <2>1 DEF Reserved
  <2>3. Cardinality(Unused) \in Nat
    BY Zenon, <1>1, UnusedBounded
  <2>4. Len(lh) \in Nat
    BY <1>1 DEF IInv, LogTypeOK
  <2> QED  BY ONLY SMT, LogRoom, <2>2, <2>3, <2>4, LogSizes DEF LogRoom, Fits, TooBig
<1>2. LogInit => Reserved
  <2> SUFFICES ASSUME LogInit PROVE Reserved
    OBVIOUS
  <2>1. InOp = {} /\ step # "idle"
    BY DEF LogInit, InOp
  <2> QED  BY Zenon, <2>1 DEF Reserved
<1>3. LogSpec => []Reserved
  BY <1>2, IInvInvariant, ReservedInductive, PTL DEF LogSpec
<1> QED  BY <1>1, <1>3, IInvInvariant, PTL
=============================================================================
