------------------------------- MODULE Rings --------------------------------
(***************************************************************************)
(* The arithmetic of a ring buffer whose counters are unsigned integers:   *)
(* P entries, a reader and a writer that count modulo M, and entry x % P   *)
(* for counter x.  kernel/pipe.c, kernel/console.c, kernel/uart.c and the  *)
(* rings of kernel/virtio_disk.c work this way.                            *)
(***************************************************************************)
EXTENDS Integers, Sequences, SequenceTheorems, TLAPS

\* How far writer w is ahead of reader r.
Ahead(M, r, w) == (w + M - r) % M
\* The entry k places after the reader's.
Slot(P, r, k) == (r + k) % P
\* A counter of a ring whose counters wrap at a multiple of its size.
Counter(M, P, x) == M \in Nat \ {0} /\ P \in Nat \ {0} /\ M % P = 0 /\ x \in 0..M - 1

-----------------------------------------------------------------------------
(* Quotient and remainder.                                                 *)
LEMMA Division ==
  ASSUME NEW P \in Nat, P > 0, NEW x \in Nat
  PROVE x = P * (x \div P) + (x % P)
  BY SMTT(30)

(* The remainder's range.                                                  *)
LEMMA DivMod ==
  \A P \in Nat \ {0} : \A x \in Nat : x \div P \in Nat /\ x % P \in 0..P - 1 /\ x = P * (x \div P) + (x % P)
  <1> SUFFICES ASSUME NEW P \in Nat \ {0}, NEW x \in Nat
               PROVE x \div P \in Nat /\ x % P \in 0..P - 1 /\ x = P * (x \div P) + (x % P)
    BY ZenonT(30)
  <1>1. x \div P \in Int /\ x % P \in 0..P - 1 /\ x = P * (x \div P) + (x % P)
    <2>1. x \div P \in Int
      OBVIOUS
    <2>2. x % P \in 0..P - 1
      OBVIOUS
    <2>3. x = P * (x \div P) + (x % P)
      <3>1. P \in Nat /\ P > 0
        OBVIOUS
      <3> QED BY <3>1, Division
    <2> QED BY <2>1, <2>2, <2>3
  <1>2. x \div P >= 0
    OBVIOUS
  <1> QED BY <1>1, <1>2

(* A remainder is unique.                                                  *)
LEMMA Unique ==
  \A P \in Nat \ {0} : \A a, b \in Int : \A c, d \in 0..P - 1 : P * a + c = P * b + d => c = d
  <1> SUFFICES ASSUME NEW P \in Nat \ {0}, NEW a \in Int, NEW b \in Int, NEW c \in 0..P - 1, NEW d \in 0..P - 1,
                      P * a + c = P * b + d
               PROVE c = d
    OBVIOUS
  <1>1. \A k \in Int : k >= 1 => P * k >= P
    OBVIOUS
  <1>2. P * (a - b) = d - c /\ P * (b - a) = c - d
    OBVIOUS
  <1>3. ~(a - b >= 1)
    BY <1>1, <1>2
  <1>4. ~(b - a >= 1)
    BY <1>1, <1>2
  <1>5. a = b
    BY <1>3, <1>4
  <1> QED BY <1>5

(* A multiple of the modulus does not change the remainder ...            *)
LEMMA ModShift ==
  \A P \in Nat \ {0} : \A x, y \in Nat : y % P = 0 => (x + y) % P = x % P
  <1> SUFFICES ASSUME NEW P \in Nat \ {0}, NEW x \in Nat, NEW y \in Nat, y % P = 0
               PROVE (x + y) % P = x % P
    BY ZenonT(30)
  <1>1. PICK a \in Nat, c \in 0..P - 1 : a = x \div P /\ c = x % P /\ x = P * a + c
    BY DivMod
  <1>2. PICK b \in Nat : y = P * b
    <2>1. y \div P \in Nat /\ y = P * (y \div P) + (y % P)
      BY DivMod
    <2>2. P * (y \div P) \in Int
      BY <2>1
    <2>3. y = P * (y \div P)
      BY <2>1, <2>2
    <2> QED BY ZenonT(30), <2>1, <2>3
  <1>3. PICK s \in Nat : s = x + y
    OBVIOUS
  <1>4. PICK e \in Nat, d \in 0..P - 1 : e = s \div P /\ d = s % P /\ s = P * e + d
    BY DivMod
  <1>5. P * (a + b) = P * a + P * b
    OBVIOUS
  <1>6. P * e + d = P * (a + b) + c
    <2>1. P * a \in Int /\ P * b \in Int
      OBVIOUS
    <2>2. s = P * a + P * b + c
      BY <1>1, <1>2, <1>3, <2>1
    <2>3. P * a + P * b + c = P * (a + b) + c
      BY <1>5
    <2> QED BY <1>4, <2>2, <2>3
  <1>7. c = d
    BY <1>6, Unique
  <1> QED BY <1>1, <1>3, <1>4, <1>7

(* ... and less than the modulus does.                                     *)
LEMMA ModDiffer ==
  \A P \in Nat \ {0} : \A x \in Nat, d \in 1..P - 1 : (x + d) % P # x % P
  <1> SUFFICES ASSUME NEW P \in Nat \ {0}, NEW x \in Nat, NEW d \in 1..P - 1, (x + d) % P = x % P
               PROVE FALSE
    BY ZenonT(30)
  <1>1. PICK a \in Nat, c \in 0..P - 1 : c = x % P /\ x = P * a + c
    BY ZenonT(30), DivMod
  <1>2. PICK s \in Nat : s = x + d
    OBVIOUS
  <1>3. PICK e \in Nat : e = s \div P /\ s = P * e + c
    <2>1. s \div P \in Nat /\ s % P = c /\ s = P * (s \div P) + (s % P)
      BY ZenonT(30), <1>1, <1>2, DivMod
    <2> QED BY ZenonT(30), <2>1
  <1>4. P * a + d = P * e + 0 /\ d \in 0..P - 1 /\ 0 \in 0..P - 1
    BY <1>1, <1>2, <1>3
  <1>5. d = 0
    BY <1>4, Unique
  <1> QED BY <1>5

(* A number below the modulus is its own remainder ...                     *)
LEMMA ModSmall ==
  \A P \in Nat \ {0} : \A x \in 0..P - 1 : x % P = x
  OBVIOUS

(* ... and one wrap subtracts the modulus.                                 *)
LEMMA ModOnce ==
  \A P \in Nat \ {0} : \A x \in P..2 * P - 1 : x % P = x - P
  OBVIOUS

(* One wrap at most: the remainder of a number below 2M.                   *)
LEMMA ModWrap ==
  ASSUME NEW M \in Nat \ {0}, NEW x \in 0..2 * M - 1
  PROVE x % M = IF x < M THEN x ELSE x - M
  <1>1. CASE x < M
    <2>1. x \in 0..M - 1
      BY <1>1
    <2> QED BY <1>1, <2>1, ModSmall
  <1>2. CASE x >= M
    <2>1. x \in M..2 * M - 1 /\ ~(x < M)
      BY <1>2
    <2> QED BY <2>1, ModOnce
  <1> QED BY <1>1, <1>2

-----------------------------------------------------------------------------
(* Where the counters wrap.                                                *)
LEMMA CounterWraps ==
  ASSUME NEW M \in Nat \ {0}, NEW r \in 0..M - 1, NEW w \in 0..M - 1
  PROVE /\ Ahead(M, r, w) = IF w >= r THEN w - r ELSE w + M - r
        /\ (r + 1) % M = IF r = M - 1 THEN 0 ELSE r + 1
        /\ (w + 1) % M = IF w = M - 1 THEN 0 ELSE w + 1
  <1>1. PICK x \in 0..2 * M - 1 : x = w + M - r
    OBVIOUS
  <1>2. PICK y \in 0..2 * M - 1 : y = r + 1
    OBVIOUS
  <1>3. PICK z \in 0..2 * M - 1 : z = w + 1
    OBVIOUS
  <1>4. Ahead(M, r, w) = IF w >= r THEN w - r ELSE w + M - r
    <2>1. x % M = IF x < M THEN x ELSE x - M
      BY ZenonT(30), ModWrap
    <2> QED BY <1>1, <2>1 DEF Ahead
  <1>5. (r + 1) % M = IF r = M - 1 THEN 0 ELSE r + 1
    <2>1. y % M = IF y < M THEN y ELSE y - M
      BY ZenonT(30), ModWrap
    <2> QED BY <1>2, <2>1
  <1>6. (w + 1) % M = IF w = M - 1 THEN 0 ELSE w + 1
    <2>1. z % M = IF z < M THEN z ELSE z - M
      BY ZenonT(30), ModWrap
    <2> QED BY <1>3, <2>1
  <1> QED BY <1>4, <1>5, <1>6

(* How far the writer is ahead, and how a step of either changes it.       *)
LEMMA AheadMoves ==
  ASSUME NEW M \in Nat \ {0}, NEW r \in 0..M - 1, NEW w \in 0..M - 1
  PROVE /\ Ahead(M, r, w) \in 0..M - 1
        /\ Ahead(M, r, w) = 0 <=> r = w
        /\ (r + 1) % M \in 0..M - 1 /\ (w + 1) % M \in 0..M - 1
        /\ Ahead(M, r, w) < M - 1 => Ahead(M, r, (w + 1) % M) = Ahead(M, r, w) + 1
        /\ Ahead(M, r, w) > 0 => Ahead(M, (r + 1) % M, w) = Ahead(M, r, w) - 1
  <1>1. PICK a \in Int : a = Ahead(M, r, w) /\ a = IF w >= r THEN w - r ELSE w + M - r
    <2>1. (IF w >= r THEN w - r ELSE w + M - r) \in Int
      OBVIOUS
    <2> QED BY ZenonT(30), <2>1, CounterWraps
  <1>2. PICK r1 \in 0..M - 1 : r1 = (r + 1) % M /\ r1 = IF r = M - 1 THEN 0 ELSE r + 1
    <2>1. (IF r = M - 1 THEN 0 ELSE r + 1) \in 0..M - 1
      OBVIOUS
    <2> QED BY <2>1, CounterWraps
  <1>3. PICK w1 \in 0..M - 1 : w1 = (w + 1) % M /\ w1 = IF w = M - 1 THEN 0 ELSE w + 1
    <2>1. (IF w = M - 1 THEN 0 ELSE w + 1) \in 0..M - 1
      OBVIOUS
    <2> QED BY <2>1, CounterWraps
  <1>4. Ahead(M, r, w1) = IF w1 >= r THEN w1 - r ELSE w1 + M - r
    BY CounterWraps
  <1>5. Ahead(M, r1, w) = IF w >= r1 THEN w - r1 ELSE w + M - r1
    BY CounterWraps
  <1>6. a \in 0..M - 1 /\ (a = 0 <=> r = w)
    BY <1>1
  <1>7. a < M - 1 => Ahead(M, r, w1) = a + 1
    BY <1>1, <1>3, <1>4
  <1>8. a > 0 => Ahead(M, r1, w) = a - 1
    BY <1>1, <1>2, <1>5
  <1> QED BY <1>1, <1>2, <1>3, <1>6, <1>7, <1>8

(* The writer is n ahead when it is n steps from the reader.               *)
LEMMA AheadTells ==
  ASSUME NEW M \in Nat \ {0}, NEW r \in 0..M - 1, NEW w \in 0..M - 1, NEW n \in 0..M - 1
  PROVE (r + n) % M \in 0..M - 1 /\ (Ahead(M, r, w) = n <=> w = (r + n) % M)
  <1>1. PICK a \in Int : a = Ahead(M, r, w) /\ a = IF w >= r THEN w - r ELSE w + M - r
    <2>1. (IF w >= r THEN w - r ELSE w + M - r) \in Int
      OBVIOUS
    <2> QED BY ZenonT(30), <2>1, CounterWraps
  <1>2. PICK x \in 0..2 * M - 1 : x = r + n
    OBVIOUS
  <1>3. x % M = IF x < M THEN x ELSE x - M
    BY ZenonT(30), ModWrap
  <1> QED BY <1>1, <1>2, <1>3

(* The writer goes back, not further than the reader.                      *)
LEMMA AheadBack ==
  ASSUME NEW M \in Nat \ {0}, NEW r \in 0..M - 1, NEW w \in 0..M - 1, NEW n \in 0..Ahead(M, r, w)
  PROVE (w + M - n) % M \in 0..M - 1 /\ Ahead(M, r, (w + M - n) % M) = Ahead(M, r, w) - n
  <1>1. PICK a \in 0..M - 1 : a = Ahead(M, r, w) /\ a = IF w >= r THEN w - r ELSE w + M - r
    <2>1. (IF w >= r THEN w - r ELSE w + M - r) \in 0..M - 1
      OBVIOUS
    <2> QED BY <2>1, CounterWraps
  <1>2. n \in 0..a
    BY <1>1
  <1>3. PICK x \in 0..2 * M - 1 : x = w + M - n
    BY <1>2
  <1>4. x % M = IF x < M THEN x ELSE x - M
    BY ZenonT(30), ModWrap
  <1>5. PICK y \in 0..M - 1 : y = x % M
    BY <1>4
  <1>6. Ahead(M, r, y) = IF y >= r THEN y - r ELSE y + M - r
    BY CounterWraps
  <1>7. Ahead(M, r, y) = a - n
    BY <1>1, <1>2, <1>3, <1>4, <1>5, <1>6
  <1> QED BY <1>1, <1>3, <1>5, <1>7

(* Distances add up while they are less than a round.                      *)
LEMMA AheadSum ==
  ASSUME NEW M \in Nat \ {0}, NEW r \in 0..M - 1, NEW w \in 0..M - 1, NEW e \in 0..M - 1,
         Ahead(M, r, w) + Ahead(M, w, e) < M
  PROVE Ahead(M, r, e) = Ahead(M, r, w) + Ahead(M, w, e)
  <1>1. Ahead(M, r, w) = IF w >= r THEN w - r ELSE w + M - r
    BY CounterWraps
  <1>2. Ahead(M, w, e) = IF e >= w THEN e - w ELSE e + M - w
    BY CounterWraps
  <1>3. Ahead(M, r, e) = IF e >= r THEN e - r ELSE e + M - r
    BY CounterWraps
  <1> QED BY <1>1, <1>2, <1>3

(* Different entries have different successors.                            *)
LEMMA SuccDiffer == \A m, n \in Nat : m # n => m + 1 # n + 1
OBVIOUS

(* Different places less than P apart are different entries.               *)
LEMMA SlotsDiffer ==
  ASSUME NEW P \in Nat \ {0}, NEW r \in Nat, NEW j \in Nat, NEW k \in Nat, j < k, k - j < P
  PROVE Slot(P, r, j) # Slot(P, r, k)
  <1>1. PICK x \in Nat : x = r + j
    OBVIOUS
  <1>2. PICK d \in 1..P - 1 : d = k - j
    OBVIOUS
  <1>3. (x + d) % P # x % P
    BY ZenonT(30), ModDiffer
  <1>4. x + d = r + k
    BY <1>1, <1>2
  <1> QED BY <1>1, <1>3, <1>4 DEF Slot

(* The places after a reader are entries of the ring.                      *)
LEMMA SlotIn ==
  ASSUME NEW P \in Nat \ {0}, NEW r \in Nat, NEW k \in Nat
  PROVE Slot(P, r, k) \in 0..P - 1
  <1>1. r + k \in Nat
    OBVIOUS
  <1> QED BY <1>1, DivMod DEF Slot

(* The first place after the reader is the entry the reader is at.         *)
LEMMA SlotFirst ==
  ASSUME NEW P \in Nat \ {0}, NEW r \in Nat
  PROVE r % P = Slot(P, r, 0)
  <1>1. r + 0 = r
    OBVIOUS
  <1> QED BY <1>1 DEF Slot

(* M is a multiple of P: wherever the counters wrap, the writer's entry is *)
(* the one after the last ...                                              *)
LEMMA SlotLast ==
  ASSUME NEW M, NEW P, NEW r, NEW w, Counter(M, P, r), Counter(M, P, w)
  PROVE w % P = Slot(P, r, Ahead(M, r, w))
  <1>0. M \in Nat \ {0} /\ r \in 0..M - 1 /\ w \in 0..M - 1
    BY DEF Counter
  <1>p. P \in Nat \ {0} /\ M % P = 0
    BY DEF Counter
  <1>1. PICK a \in 0..M - 1 : a = Ahead(M, r, w) /\ a = IF w >= r THEN w - r ELSE w + M - r
    <2>1. Ahead(M, r, w) \in 0..M - 1
      BY <1>0, AheadMoves
    <2>2. Ahead(M, r, w) = IF w >= r THEN w - r ELSE w + M - r
      BY ONLY CounterWraps, <1>0
    <2> QED BY ONLY <2>1, <2>2
  <1>2. PICK n \in Nat : n = r + a /\ (n = w \/ n = w + M)
    <2>1. r + a \in Nat /\ (r + a = w \/ r + a = w + M)
      BY <1>0, <1>1
    <2> QED BY <2>1
  <1>3. (w + M) % P = w % P
    <2>1. w \in Nat /\ M \in Nat
      BY <1>0
    <2> QED BY ZenonT(30), <1>0, <1>p, <2>1, ModShift
  <1> QED BY <1>1, <1>2, <1>3 DEF Slot

(* ... and the reader's steps move along the entries.                      *)
LEMMA SlotNext ==
  ASSUME NEW M, NEW P, NEW r, Counter(M, P, r), NEW k \in Nat
  PROVE Slot(P, (r + 1) % M, k) = Slot(P, r, k + 1)
  <1>0. M \in Nat \ {0} /\ r \in 0..M - 1
    BY DEF Counter
  <1>p. P \in Nat \ {0} /\ M % P = 0
    BY DEF Counter
  <1>1. PICK r1 \in 0..M - 1 : r1 = (r + 1) % M /\ r1 = IF r = M - 1 THEN 0 ELSE r + 1
    <2>1. PICK x \in 0..2 * M - 1 : x = r + 1
      BY <1>0
    <2>2. x % M = IF x < M THEN x ELSE x - M
      BY ZenonT(30), <1>0, ModWrap
    <2>3. PICK y \in 0..M - 1 : y = x % M /\ y = IF r = M - 1 THEN 0 ELSE r + 1
      BY <1>0, <2>1, <2>2
    <2> QED BY <2>1, <2>3
  <1>2. CASE r = M - 1
    <2>1. PICK x \in Nat : x = r1 + k /\ x + M = r + (k + 1)
      BY <1>0, <1>1, <1>2
    <2>2. (x + M) % P = x % P
      BY ZenonT(30), <1>0, <1>p, ModShift
    <2> QED BY <1>1, <2>1, <2>2 DEF Slot
  <1>3. CASE r # M - 1
    <2>1. r1 + k = r + (k + 1)
      BY <1>0, <1>1, <1>3
    <2> QED BY <1>1, <2>1 DEF Slot
  <1> QED BY <1>2, <1>3

(* A counter that is k ahead stands for the entry k places after.          *)
LEMMA SlotWrap ==
  ASSUME NEW M, NEW P, NEW r, Counter(M, P, r), NEW k \in 0..M - 1
  PROVE ((r + k) % M) % P = Slot(P, r, k)
  <1>0. M \in Nat \ {0} /\ r \in 0..M - 1
    BY DEF Counter
  <1>p. P \in Nat \ {0} /\ M % P = 0
    BY DEF Counter
  <1>1. PICK x \in 0..2 * M - 1 : x = r + k
    BY <1>0
  <1>2. x % M = IF x < M THEN x ELSE x - M
    BY ZenonT(30), <1>0, ModWrap
  <1>3. CASE x < M
    BY <1>1, <1>2, <1>3 DEF Slot
  <1>4. CASE x >= M
    <2>1. PICK y \in Nat : y = x - M /\ y + M = x
      BY <1>0, <1>4
    <2>2. (y + M) % P = y % P
      BY ZenonT(30), <1>0, <1>p, ModShift
    <2> QED BY <1>1, <1>2, <1>4, <2>1, <2>2 DEF Slot
  <1> QED BY <1>0, <1>3, <1>4

(* Places after the writer's entry are as far after the reader's.          *)
LEMMA SlotShift ==
  ASSUME NEW M, NEW P, NEW r, NEW w, Counter(M, P, r), Counter(M, P, w), NEW k \in Nat
  PROVE Slot(P, w, k) = Slot(P, r, Ahead(M, r, w) + k)
  <1>0. M \in Nat \ {0} /\ r \in 0..M - 1 /\ w \in 0..M - 1
    BY DEF Counter
  <1>p. P \in Nat \ {0} /\ M % P = 0
    BY DEF Counter
  <1>1. PICK a \in 0..M - 1 : a = Ahead(M, r, w) /\ a = IF w >= r THEN w - r ELSE w + M - r
    <2>1. Ahead(M, r, w) \in 0..M - 1
      BY <1>0, AheadMoves
    <2>2. Ahead(M, r, w) = IF w >= r THEN w - r ELSE w + M - r
      BY ONLY CounterWraps, <1>0
    <2> QED BY ONLY <2>1, <2>2
  <1>2. PICK x \in Nat : x = w + k
    BY <1>0
  <1>3. PICK n \in Nat : n = r + (a + k) /\ (n = x \/ n = x + M)
    <2>1. r + (a + k) \in Nat /\ (r + (a + k) = x \/ r + (a + k) = x + M)
      BY <1>0, <1>1, <1>2
    <2> QED BY <2>1
  <1>4. (x + M) % P = x % P
    <2>1. M \in Nat
      BY <1>0
    <2> QED BY ZenonT(30), <1>p, <2>1, ModShift
  <1> QED BY <1>1, <1>2, <1>3, <1>4 DEF Slot

-----------------------------------------------------------------------------
(* The contents of a ring.                                                 *)

\* A ring of P entries, and the n entries from the one of counter r.
Ring(S, P) == [0..P - 1 -> S]
Run(buf, P, r, n) == [i \in 1..n |-> buf[Slot(P, r, i - 1)]]
\* The same, read by counters that wrap at M.
Wrapped(M, P, buf, r, n, f) ==
  Counter(M, P, r) /\ n \in 0..M - 1 /\ f = [i \in 1..n |-> buf[((r + (i - 1)) % M) % P]]
\* n entries, and the reader's next.
FromFront(S, M, P, buf, r, n, r1) ==
  Counter(M, P, r) /\ buf \in Ring(S, P) /\ n \in Nat \ {0} /\ r1 = (r + 1) % M
\* A ring whose writer is n ahead of its reader ...
RingAt(M, P, r, w, n) == Counter(M, P, r) /\ Counter(M, P, w) /\ P < M /\ n = Ahead(M, r, w)
\* ... and is given c after its n-th entry, as there is room.
Stored(S, P, r, n, buf, c, new) ==
  /\ P \in Nat \ {0} /\ r \in Nat /\ n \in Nat /\ n < P
  /\ buf \in Ring(S, P) /\ c \in S /\ new = [buf EXCEPT ![Slot(P, r, n)] = c]

\* n entries of a ring, and m more from the writer's on.
Entries(S, P, buf, r, n) == P \in Nat \ {0} /\ buf \in Ring(S, P) /\ r \in Nat /\ n \in Nat
Joined(S, M, P, buf, r, w, n, m) == RingAt(M, P, r, w, n) /\ buf \in Ring(S, P) /\ m \in Nat

\* The provers are asked for first-order reasoning unless a step says SMT.
USE Zenon

(* A function on 1..n is a sequence of length n.                           *)
LEMMA FunctionSeq == ASSUME NEW S, NEW n \in Nat, NEW f \in [1..n -> S] PROVE f \in Seq(S)
BY SMT

(* It has n elements.                                                      *)
LEMMA FunctionLen == ASSUME NEW f, NEW n \in Nat, f = [i \in 1..n |-> f[i]] PROVE Len(f) = n
BY SMT

(* The entries are a sequence ...                                          *)
LEMMA RunSeq ==
  ASSUME NEW S, NEW P \in Nat \ {0}, NEW buf \in Ring(S, P), NEW r \in Nat, NEW n \in Nat
  PROVE  Run(buf, P, r, n) \in Seq(S)
<1>1. \A i \in 1..n : i - 1 \in Nat
  BY SMT
<1>2. \A i \in 1..n : Slot(P, r, i - 1) \in 0..P - 1
  BY <1>1, SlotIn
<1>3. Run(buf, P, r, n) \in [1..n -> S]
  BY <1>2 DEF Run, Ring
<1> QED  BY <1>3, FunctionSeq

(* ... of length n.                                                        *)
LEMMA RunLen ==
  ASSUME NEW buf, NEW P, NEW r, NEW n \in Nat
  PROVE  Len(Run(buf, P, r, n)) = n
<1>1. Run(buf, P, r, n) = [i \in 1..n |-> Run(buf, P, r, n)[i]]
  BY DEF Run
<1> QED  BY <1>1, FunctionLen

(* An entry stored after the last of them is appended ...                  *)
LEMMA RunAppend ==
  ASSUME NEW S, NEW P, NEW r, NEW n, NEW buf, NEW c, NEW new, Stored(S, P, r, n, buf, c, new)
  PROVE  new \in Ring(S, P) /\ Run(new, P, r, n + 1) = Append(Run(buf, P, r, n), c)
<1>0. P \in Nat \ {0} /\ r \in Nat /\ n \in Nat /\ n < P /\ c \in S /\ buf \in Ring(S, P)
  BY DEF Stored
<1>1. PICK s \in 0..P - 1 : s = Slot(P, r, n)
  BY <1>0, SlotIn
<1>2. new \in Ring(S, P) /\ new[s] = c /\ \A t \in 0..P - 1 : t # s => new[t] = buf[t]
  BY <1>1 DEF Stored, Ring
<1>3. PICK f \in Seq(S) : /\ f = Run(buf, P, r, n) /\ Len(f) = n
                          /\ \A i \in 1..n : f[i] = buf[Slot(P, r, i - 1)]
  <2>1. Run(buf, P, r, n) \in Seq(S)
    BY <1>0, RunSeq
  <2>2. Len(Run(buf, P, r, n)) = n
    BY <1>0, RunLen
  <2>3. \A i \in 1..n : Run(buf, P, r, n)[i] = buf[Slot(P, r, i - 1)]
    BY DEF Run
  <2> QED  BY <2>1, <2>2, <2>3
<1>4. PICK g \in Seq(S) : /\ g = Run(new, P, r, n + 1) /\ Len(g) = n + 1
                          /\ \A i \in 1..n + 1 : g[i] = new[Slot(P, r, i - 1)]
  <2>1. n + 1 \in Nat
    BY SMT, <1>0
  <2>2. Run(new, P, r, n + 1) \in Seq(S)
    BY <1>0, <1>2, <2>1, RunSeq
  <2>3. Len(Run(new, P, r, n + 1)) = n + 1
    BY <2>1, RunLen
  <2>4. \A i \in 1..n + 1 : Run(new, P, r, n + 1)[i] = new[Slot(P, r, i - 1)]
    BY DEF Run
  <2> QED  BY <2>2, <2>3, <2>4
<1>5. \A i \in 1..n : i - 1 \in Nat /\ i - 1 < n /\ n - (i - 1) < P /\ i \in 1..n + 1
  BY SMT, <1>0
<1>6. \A i \in 1..n : Slot(P, r, i - 1) \in 0..P - 1 /\ Slot(P, r, i - 1) # s
  BY <1>0, <1>1, <1>5, SlotIn, SlotsDiffer
<1>7. \A i \in 1..n : g[i] = f[i]
  BY <1>2, <1>3, <1>4, <1>5, <1>6
<1>8. g[n + 1] = c
  <2>1. PICK m \in 1..n + 1 : m = n + 1 /\ m - 1 = n
    BY SMT, <1>0
  <2>2. g[m] = new[Slot(P, r, m - 1)]
    BY <1>4
  <2> QED  BY <1>1, <1>2, <2>1, <2>2
<1>9. /\ Append(f, c) \in Seq(S) /\ Len(Append(f, c)) = n + 1
      /\ \A i \in 1..n : Append(f, c)[i] = f[i]
      /\ Append(f, c)[n + 1] = c
  BY SMT, <1>0, <1>3, AppendProperties
<1>10. \A i \in 1..n + 1 : i \in 1..n \/ i = n + 1
  BY SMT, <1>0
<1>11. \A i \in 1..Len(g) : g[i] = Append(f, c)[i]
  BY <1>4, <1>7, <1>8, <1>9, <1>10
<1>12. g = Append(f, c)
  BY <1>4, <1>9, <1>11, SeqEqual
<1> QED  BY <1>2, <1>3, <1>4, <1>12

(* ... and the first is taken from the front.                              *)
LEMMA RunTail ==
  ASSUME NEW S, NEW M, NEW P, NEW buf, NEW r, NEW n, NEW r1, FromFront(S, M, P, buf, r, n, r1)
  PROVE  /\ Run(buf, P, r, n) # <<>> /\ Head(Run(buf, P, r, n)) = buf[r % P] /\ buf[r % P] \in S
         /\ Run(buf, P, r1, n - 1) = Tail(Run(buf, P, r, n))
<1>c. /\ M \in Nat \ {0} /\ P \in Nat \ {0} /\ r \in 0..M - 1 /\ Counter(M, P, r)
      /\ buf \in Ring(S, P) /\ n \in Nat \ {0}
  BY DEF FromFront, Counter
<1>0. r \in Nat /\ n \in Nat /\ n - 1 \in Nat
  BY SMT, <1>c
<1>1. r1 \in Nat /\ r1 = (r + 1) % M
  <2>1. (r + 1) % M \in 0..M - 1
    BY <1>c, AheadMoves
  <2>2. (r + 1) % M \in Nat
    BY SMT, <1>c, <2>1
  <2> QED  BY <2>2 DEF FromFront
<1>2. PICK f \in Seq(S) : /\ f = Run(buf, P, r, n) /\ Len(f) = n
                          /\ \A i \in 1..n : f[i] = buf[Slot(P, r, i - 1)]
  <2>1. Run(buf, P, r, n) \in Seq(S)
    BY <1>c, <1>0, <1>1, RunSeq
  <2>2. Len(Run(buf, P, r, n)) = n
    BY ZenonT(30), <1>0, RunLen
  <2>3. \A i \in 1..n : Run(buf, P, r, n)[i] = buf[Slot(P, r, i - 1)]
    BY DEF Run
  <2> QED  BY <2>1, <2>2, <2>3
<1>3. PICK g \in Seq(S) : /\ g = Run(buf, P, r1, n - 1) /\ Len(g) = n - 1
                          /\ \A i \in 1..n - 1 : g[i] = buf[Slot(P, r1, i - 1)]
  <2>1. Run(buf, P, r1, n - 1) \in Seq(S)
    BY <1>c, <1>0, <1>1, RunSeq
  <2>2. Len(Run(buf, P, r1, n - 1)) = n - 1
    BY ZenonT(30), <1>0, RunLen
  <2>3. \A i \in 1..n - 1 : Run(buf, P, r1, n - 1)[i] = buf[Slot(P, r1, i - 1)]
    BY DEF Run
  <2> QED  BY <2>1, <2>2, <2>3
<1>4. ASSUME NEW i \in 1..n - 1 PROVE g[i] = f[i + 1]
  <2>1. PICK k \in Nat : k = i - 1
    BY SMT, <1>c
  <2>2. k + 1 = (i + 1) - 1 /\ i + 1 \in 1..n
    BY SMT, <1>c, <2>1
  <2>3. Slot(P, (r + 1) % M, k) = Slot(P, r, k + 1)
    BY SMTT(30), <1>c, SlotNext
  <2>4. g[i] = buf[Slot(P, r1, k)]
    BY <1>3, <2>1
  <2>5. f[i + 1] = buf[Slot(P, r, k + 1)]
    BY <1>2, <2>2
  <2> QED  BY <1>1, <2>3, <2>4, <2>5
<1>7. f[1] = buf[r % P]
  <2>1. 1 \in 1..n /\ 1 - 1 = 0
    BY SMT, <1>c
  <2>2. f[1] = buf[Slot(P, r, 1 - 1)]
    BY <1>2, <2>1
  <2>3. r % P = Slot(P, r, 0)
    BY <1>c, <1>0, SlotFirst
  <2> QED  BY <2>1, <2>2, <2>3
<1>8. f # <<>>
  BY SMT, <1>c, <1>2
<1>9. /\ Head(f) = f[1] /\ Tail(f) \in Seq(S) /\ Len(Tail(f)) = n - 1
      /\ \A i \in 1..n - 1 : Tail(f)[i] = f[i + 1]
  BY SMT, <1>c, <1>2, <1>8, HeadTailProperties
<1>10. g = Tail(f)
  <2>1. Len(g) = Len(Tail(f)) /\ \A i \in 1..Len(g) : g[i] = Tail(f)[i]
    BY <1>3, <1>4, <1>9
  <2> QED  BY SMT, <1>9, <2>1, SeqEqual
<1>11. buf[r % P] \in S
  <2>1. r % P \in 0..P - 1
    BY <1>c, <1>0, DivMod
  <2> QED  BY <1>c, <2>1 DEF Ring
<1> QED  BY <1>2, <1>3, <1>7, <1>8, <1>9, <1>10, <1>11

(* How far the writer of a ring is from being full, and from being empty.  *)
LEMMA RingTells ==
  ASSUME NEW M, NEW P, NEW r, NEW w, NEW n, RingAt(M, P, r, w, n)
  PROVE  /\ n \in 0..M - 1 /\ n \in Nat /\ (n = 0 <=> r = w)
         /\ (r + 1) % M \in 0..M - 1 /\ (w + 1) % M \in 0..M - 1
         /\ n = P <=> w = (r + P) % M
         /\ n < P => Ahead(M, r, (w + 1) % M) = n + 1
         /\ n > 0 => Ahead(M, (r + 1) % M, w) = n - 1
<1>1. M \in Nat \ {0} /\ r \in 0..M - 1 /\ w \in 0..M - 1
  BY DEF RingAt, Counter
<1>2. P \in Nat \ {0} /\ P \in 0..M - 1
  BY SMT DEF RingAt, Counter
<1>3. Ahead(M, r, w) \in 0..M - 1 /\ (Ahead(M, r, w) = 0 <=> r = w)
  BY ONLY SMT, <1>1, AheadMoves
<1>4. (r + 1) % M \in 0..M - 1 /\ (w + 1) % M \in 0..M - 1
  BY ONLY SMT, <1>1, AheadMoves
<1>5. Ahead(M, r, w) = P <=> w = (r + P) % M
  BY ONLY SMT, <1>1, <1>2, AheadTells
<1>6. Ahead(M, r, w) < M - 1 => Ahead(M, r, (w + 1) % M) = Ahead(M, r, w) + 1
  BY ONLY SMT, <1>1, AheadMoves
<1>7. Ahead(M, r, w) > 0 => Ahead(M, (r + 1) % M, w) = Ahead(M, r, w) - 1
  BY ONLY SMT, <1>1, AheadMoves
<1>8. Ahead(M, r, w) \in Nat /\ (Ahead(M, r, w) < P => Ahead(M, r, w) < M - 1)
  BY ONLY SMT, <1>1, <1>2, <1>3
<1>9. n = Ahead(M, r, w)
  BY DEF RingAt
<1> QED  BY <1>3, <1>4, <1>5, <1>6, <1>7, <1>8, <1>9

(* The entry the writer is at is the one after the last: storing there     *)
(* appends.                                                                *)
LEMMA RunStore ==
  ASSUME NEW S, NEW M, NEW P, NEW r, NEW w, NEW n, RingAt(M, P, r, w, n), n < P,
         NEW buf \in Ring(S, P), NEW c \in S
  PROVE  Stored(S, P, r, n, buf, c, [buf EXCEPT ![w % P] = c])
<1>1. P \in Nat \ {0} /\ r \in Nat
  BY SMT DEF RingAt, Counter
<1>2. n \in Nat
  BY RingTells
<1>3. w % P = Slot(P, r, n)
  BY SMT, SlotLast DEF RingAt
<1> QED  BY <1>1, <1>2, <1>3 DEF Stored

(* The code reads the entries by counters that wrap.                       *)
LEMMA RunCounters ==
  ASSUME NEW M, NEW P, NEW buf, NEW r, NEW n, NEW f, Wrapped(M, P, buf, r, n, f)
  PROVE  f = Run(buf, P, r, n)
<1>1. M \in Nat \ {0} /\ n \in 0..M - 1 /\ Counter(M, P, r)
  BY DEF Wrapped, Counter
<1>2. ASSUME NEW i \in 1..n PROVE ((r + (i - 1)) % M) % P = Slot(P, r, i - 1)
  <2>1. PICK k \in 0..M - 1 : k = i - 1
    BY SMT, <1>1
  <2>2. ((r + k) % M) % P = Slot(P, r, k)
    BY SMT, <1>1, SlotWrap
  <2> QED  BY <2>1, <2>2
<1> QED  BY <1>2 DEF Run, Wrapped

(* No entries are the empty sequence.                                      *)
LEMMA RunEmpty == ASSUME NEW buf, NEW P, NEW r PROVE Run(buf, P, r, 0) = << >>
<1>1. Run(buf, P, r, 0) = [i \in 1..0 |-> buf[Slot(P, r, i - 1)]]
  BY DEF Run
<1> QED  BY SMT, <1>1

(* Storing after the n-th entry changes that one ...                       *)
LEMMA StoredAt ==
  ASSUME NEW S, NEW P, NEW r, NEW n, NEW buf, NEW c, NEW new, Stored(S, P, r, n, buf, c, new)
  PROVE  /\ new[Slot(P, r, n)] = c
         /\ \A k \in Nat : k < n => new[Slot(P, r, k)] = buf[Slot(P, r, k)]
<1>0. P \in Nat \ {0} /\ r \in Nat /\ n \in Nat /\ n < P /\ buf \in Ring(S, P)
  BY DEF Stored
<1>1. PICK s \in 0..P - 1 : s = Slot(P, r, n)
  BY <1>0, SlotIn
<1>2. new[s] = c /\ \A t \in 0..P - 1 : t # s => new[t] = buf[t]
  BY <1>1 DEF Stored, Ring
<1>3. \A k \in Nat : k < n => n - k < P
  BY SMT, <1>0
<1>4. \A k \in Nat : k < n => Slot(P, r, k) \in 0..P - 1 /\ Slot(P, r, k) # s
  BY <1>0, <1>1, <1>3, SlotIn, SlotsDiffer
<1> QED  BY <1>1, <1>2, <1>4

(* ... and leaves those before it alone; ...                               *)
LEMMA RunBefore ==
  ASSUME NEW S, NEW P, NEW r, NEW n, NEW buf, NEW c, NEW new, Stored(S, P, r, n, buf, c, new),
         NEW m \in Nat, m <= n
  PROVE  Run(new, P, r, m) = Run(buf, P, r, m)
<1>0. n \in Nat /\ \A k \in Nat : k < n => new[Slot(P, r, k)] = buf[Slot(P, r, k)]
  BY SMT, StoredAt DEF Stored
<1>1. \A i \in 1..m : i - 1 \in Nat /\ i - 1 < n
  BY SMT, <1>0
<1>2. \A i \in 1..m : new[Slot(P, r, i - 1)] = buf[Slot(P, r, i - 1)]
  BY <1>0, <1>1
<1> QED  BY <1>2 DEF Run

(* the last can be dropped.                                                *)
LEMMA RunPrefix ==
  ASSUME NEW S, NEW P, NEW buf, NEW r, NEW n, Entries(S, P, buf, r, n), n > 0
  PROVE  Run(buf, P, r, n - 1) = SubSeq(Run(buf, P, r, n), 1, n - 1)
<1>0. P \in Nat \ {0} /\ r \in Nat /\ n \in Nat /\ n - 1 \in Nat /\ buf \in Ring(S, P)
  BY SMT DEF Entries
<1>1. PICK f \in Seq(S) : /\ f = Run(buf, P, r, n) /\ Len(f) = n
                          /\ \A i \in 1..n : f[i] = buf[Slot(P, r, i - 1)]
  <2>1. Run(buf, P, r, n) \in Seq(S)
    BY <1>0, RunSeq
  <2>2. Len(Run(buf, P, r, n)) = n
    BY <1>0, RunLen
  <2>3. \A i \in 1..n : Run(buf, P, r, n)[i] = buf[Slot(P, r, i - 1)]
    BY DEF Run
  <2> QED  BY <2>1, <2>2, <2>3
<1>2. PICK g \in Seq(S) : /\ g = Run(buf, P, r, n - 1) /\ Len(g) = n - 1
                          /\ \A i \in 1..n - 1 : g[i] = buf[Slot(P, r, i - 1)]
  <2>1. Run(buf, P, r, n - 1) \in Seq(S)
    BY <1>0, RunSeq
  <2>2. Len(Run(buf, P, r, n - 1)) = n - 1
    BY ZenonT(30), <1>0, RunLen
  <2>3. \A i \in 1..n - 1 : Run(buf, P, r, n - 1)[i] = buf[Slot(P, r, i - 1)]
    BY DEF Run
  <2> QED  BY <2>1, <2>2, <2>3
<1>3. \A i \in 1..n - 1 : i \in 1..n
  BY SMT, <1>0
<1>4. \A i \in 1..n - 1 : g[i] = f[i]
  BY <1>1, <1>2, <1>3
<1>5. /\ SubSeq(f, 1, n - 1) \in Seq(S) /\ Len(SubSeq(f, 1, n - 1)) = n - 1
      /\ \A i \in 1..n - 1 : SubSeq(f, 1, n - 1)[i] = f[i]
  BY SMT, <1>0, <1>1
<1>6. g = SubSeq(f, 1, n - 1)
  <2>1. Len(g) = Len(SubSeq(f, 1, n - 1)) /\ \A i \in 1..Len(g) : g[i] = SubSeq(f, 1, n - 1)[i]
    BY <1>2, <1>4, <1>5
  <2> QED  BY SMT, <1>5, <2>1, SeqEqual
<1> QED  BY <1>1, <1>2, <1>6

(* The entries up to the writer's and those from there on follow each      *)
(* other.                                                                  *)
LEMMA RunConcat ==
  ASSUME NEW S, NEW M, NEW P, NEW buf, NEW r, NEW w, NEW n, NEW m, Joined(S, M, P, buf, r, w, n, m)
  PROVE  Run(buf, P, r, n + m) = Run(buf, P, r, n) \o Run(buf, P, w, m)
<1>0. RingAt(M, P, r, w, n) /\ buf \in Ring(S, P) /\ m \in Nat
  BY DEF Joined
<1>a. n \in Nat
  BY <1>0, RingTells
<1>b. P \in Nat \ {0} /\ r \in Nat /\ w \in Nat /\ n + m \in Nat
  BY SMT, <1>0, <1>a DEF RingAt, Counter
<1>1. PICK f \in Seq(S) : /\ f = Run(buf, P, r, n) /\ Len(f) = n
                          /\ \A i \in 1..n : f[i] = buf[Slot(P, r, i - 1)]
  <2>1. Run(buf, P, r, n) \in Seq(S)
    BY <1>0, <1>a, <1>b, RunSeq
  <2>2. Len(Run(buf, P, r, n)) = n
    BY <1>a, RunLen
  <2>3. \A i \in 1..n : Run(buf, P, r, n)[i] = buf[Slot(P, r, i - 1)]
    BY DEF Run
  <2> QED  BY <2>1, <2>2, <2>3
<1>2. PICK g \in Seq(S) : /\ g = Run(buf, P, w, m) /\ Len(g) = m
                          /\ \A i \in 1..m : g[i] = buf[Slot(P, w, i - 1)]
  <2>1. Run(buf, P, w, m) \in Seq(S)
    BY <1>0, <1>b, RunSeq
  <2>2. Len(Run(buf, P, w, m)) = m
    BY <1>0, RunLen
  <2>3. \A i \in 1..m : Run(buf, P, w, m)[i] = buf[Slot(P, w, i - 1)]
    BY DEF Run
  <2> QED  BY <2>1, <2>2, <2>3
<1>3. PICK h \in Seq(S) : /\ h = Run(buf, P, r, n + m) /\ Len(h) = n + m
                          /\ \A i \in 1..n + m : h[i] = buf[Slot(P, r, i - 1)]
  <2>1. Run(buf, P, r, n + m) \in Seq(S)
    BY <1>0, <1>b, RunSeq
  <2>2. Len(Run(buf, P, r, n + m)) = n + m
    BY ZenonT(30), <1>b, RunLen
  <2>3. \A i \in 1..n + m : Run(buf, P, r, n + m)[i] = buf[Slot(P, r, i - 1)]
    BY DEF Run
  <2> QED  BY <2>1, <2>2, <2>3
<1>4. \A i \in 1..n : h[i] = f[i]
  <2>1. \A i \in 1..n : i \in 1..n + m
    BY SMT, <1>0, <1>a
  <2> QED  BY <1>1, <1>3, <2>1
<1>5. ASSUME NEW i \in 1..n + m, ~(i <= n) PROVE h[i] = g[i - n]
  <2>1. PICK k \in Nat : k = i - n - 1 /\ k = (i - n) - 1 /\ i - 1 = n + k
    BY SMT, <1>0, <1>a, <1>5
  <2>2. i - n \in 1..m
    BY SMT, <1>0, <1>a, <1>5
  <2>3. Slot(P, w, k) = Slot(P, r, n + k)
    BY SMT, <1>0, SlotShift DEF RingAt
  <2>4. h[i] = buf[Slot(P, r, i - 1)]
    BY <1>3
  <2>5. g[i - n] = buf[Slot(P, w, (i - n) - 1)]
    BY <1>2, <2>2
  <2> QED  BY <2>1, <2>3, <2>4, <2>5
<1>6. /\ f \o g \in Seq(S) /\ Len(f \o g) = n + m
      /\ \A i \in 1..n + m : (f \o g)[i] = IF i <= n THEN f[i] ELSE g[i - n]
  <2>1. f \o g \in Seq(S) /\ Len(f \o g) = Len(f) + Len(g)
    BY SMT, ConcatProperties
  <2>2. \A i \in 1..Len(f) + Len(g) : (f \o g)[i] = IF i <= Len(f) THEN f[i] ELSE g[i - Len(f)]
    BY SMT, ConcatProperties
  <2> QED  BY <1>1, <1>2, <2>1, <2>2
<1>7. \A i \in 1..n + m : i <= n => i \in 1..n
  BY SMT, <1>0, <1>a
<1>8. \A i \in 1..n + m : h[i] = (f \o g)[i]
  BY <1>4, <1>5, <1>6, <1>7
<1>9. h = f \o g
  <2>1. Len(h) = Len(f \o g) /\ \A i \in 1..Len(h) : h[i] = (f \o g)[i]
    BY <1>3, <1>6, <1>8
  <2> QED  BY SMT, <1>6, <2>1, SeqEqual
<1> QED  BY <1>1, <1>2, <1>3, <1>9
=============================================================================
