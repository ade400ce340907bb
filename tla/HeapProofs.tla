----------------------------- MODULE HeapProofs -----------------------------
(***************************************************************************)
(* Proofs about the allocator, for every word size, chunk size, set of     *)
(* addresses mmap can return and set of requests: the blocks always tile   *)
(* the chunks, none overlaps another, bit 0 tells which ones are free, and *)
(* no call disturbs a block that another call handed out.                  *)
(***************************************************************************)
EXTENDS Heap, SequenceTheorems, TLAPS

-----------------------------------------------------------------------------
(* The free list *)

Elements(s) == {s[i] : i \in 1..Len(s)}
Distinct(s) == \A i, j \in 1..Len(s) : s[i] = s[j] => i = j

(* Unlinking the i-th block leaves the others, each once. *)
LEMMA Unlink ==
  ASSUME NEW S, NEW s \in Seq(S), NEW i \in 1..Len(s), Distinct(s)
  PROVE  /\ RemoveAt(s, i) \in Seq(S)
         /\ Elements(RemoveAt(s, i)) = Elements(s) \ {s[i]}
         /\ Distinct(RemoveAt(s, i))
<1> DEFINE t == RemoveAt(s, i)
           n == Len(s)
<1>1. n \in Nat /\ i \in 1..n
  OBVIOUS
<1>2. PICK a, b : a = SubSeq(s, 1, i - 1) /\ b = SubSeq(s, i + 1, n)
  OBVIOUS
<1>3. /\ a \in Seq(S) /\ Len(a) = i - 1
      /\ \A j \in 1..(i - 1) : a[j] = s[j]
  BY <1>1, <1>2, SubSeqProperties
<1>4. /\ b \in Seq(S) /\ Len(b) = n - i
      /\ \A j \in 1..(n - i) : b[j] = s[i + j]
  <2>1. i + 1 \in 1..(n + 1) /\ n \in i..n
    BY <1>1
  <2> QED
    BY <1>1, <1>2, <2>1, SubSeqProperties
<1>5. t = a \o b
  BY <1>2 DEF RemoveAt
<1>6. /\ t \in Seq(S) /\ Len(t) = n - 1
      /\ \A j \in 1..(n - 1) : t[j] = IF j < i THEN s[j] ELSE s[j + 1]
  <2>1. /\ t \in Seq(S) /\ Len(t) = Len(a) + Len(b)
        /\ \A j \in 1..(Len(a) + Len(b)) : t[j] = IF j <= Len(a) THEN a[j] ELSE b[j - Len(a)]
    <3> HIDE DEF t
    <3> QED
      BY <1>3, <1>4, <1>5, ConcatProperties
  <2>2. Len(t) = n - 1
    BY <1>1, <1>3, <1>4, <2>1
  <2>3. ASSUME NEW j \in 1..(n - 1) PROVE t[j] = IF j < i THEN s[j] ELSE s[j + 1]
    <3>1. j \in 1..(Len(a) + Len(b))
      BY <1>1, <1>3, <1>4
    <3>2. CASE j < i
      BY <1>1, <1>3, <2>1, <3>1, <3>2
    <3>3. CASE j >= i
      <4>1. j - (i - 1) \in 1..(n - i) /\ i + (j - (i - 1)) = j + 1
        BY <1>1, <3>3
      <4>2. t[j] = b[j - (i - 1)]
        BY <1>1, <1>3, <2>1, <3>1, <3>3
      <4> QED
        BY <1>1, <1>4, <3>3, <4>1, <4>2
    <3> QED
      BY <1>1, <3>2, <3>3
  <2> QED
    BY <2>1, <2>2, <2>3
<1> HIDE DEF t
<1>7. Elements(t) = Elements(s) \ {s[i]}
  <2>1. ASSUME NEW x \in Elements(t) PROVE x \in Elements(s) /\ x # s[i]
    <3>1. PICK j \in 1..(n - 1) : x = t[j]
      BY <1>6, <2>1 DEF Elements
    <3>2. j \in 1..n /\ j + 1 \in 1..n
      BY <1>1
    <3> QED
      BY <1>1, <1>6, <3>1, <3>2 DEF Elements, Distinct
  <2>2. ASSUME NEW x \in Elements(s), x # s[i] PROVE x \in Elements(t)
    <3>1. PICK j \in 1..n : x = s[j]
      BY <2>2 DEF Elements
    <3>2. CASE j < i
      <4>1. j \in 1..(n - 1) /\ t[j] = x
        BY <1>1, <1>6, <3>1, <3>2
      <4> QED
        BY <1>6, <4>1 DEF Elements
    <3>3. CASE j > i
      <4>1. j - 1 \in 1..(n - 1) /\ j - 1 + 1 = j /\ ~(j - 1 < i)
        BY <1>1, <3>3
      <4>2. t[j - 1] = x
        BY <1>6, <3>1, <4>1
      <4> QED
        BY <1>6, <4>1, <4>2 DEF Elements
    <3> QED
      BY <1>1, <2>2, <3>1, <3>2, <3>3
  <2> QED
    BY <2>1, <2>2
<1>8. Distinct(t)
  <2> SUFFICES ASSUME NEW j \in 1..(n - 1), NEW k \in 1..(n - 1), t[j] = t[k] PROVE j = k
    BY <1>6 DEF Distinct
  <2>1. j \in 1..n /\ j + 1 \in 1..n /\ k \in 1..n /\ k + 1 \in 1..n
    BY <1>1
  <2>2. (IF j < i THEN j ELSE j + 1) = (IF k < i THEN k ELSE k + 1)
    BY <1>6, <2>1 DEF Distinct
  <2> QED
    BY <1>1, <2>2
<1> QED
  BY <1>6, <1>7, <1>8 DEF t

(* Putting a block at the head of the list. *)
LEMMA Link ==
  ASSUME NEW S, NEW s \in Seq(S), NEW b \in S, Distinct(s), b \notin Elements(s)
  PROVE  /\ <<b>> \o s \in Seq(S)
         /\ Elements(<<b>> \o s) = Elements(s) \cup {b}
         /\ Distinct(<<b>> \o s)
<1> DEFINE t == <<b>> \o s
           n == Len(s)
<1>1. n \in Nat /\ <<b>> \in Seq(S) /\ Len(<<b>>) = 1 /\ <<b>>[1] = b
  OBVIOUS
<1>2. /\ t \in Seq(S) /\ Len(t) = n + 1
      /\ t[1] = b
      /\ \A j \in 1..n : t[j + 1] = s[j]
  <2>1. /\ t \in Seq(S) /\ Len(t) = 1 + n
        /\ \A j \in 1..(1 + n) : t[j] = IF j <= 1 THEN <<b>>[j] ELSE s[j - 1]
    BY <1>1, ConcatProperties
  <2>2. ASSUME NEW j \in 1..n PROVE t[j + 1] = s[j]
    <3>1. j + 1 \in 1..(1 + n) /\ ~(j + 1 <= 1) /\ j + 1 - 1 = j
      BY <1>1
    <3> QED
      BY <2>1, <3>1
  <2> QED
    BY <1>1, <2>1, <2>2
<1>3. \A j \in 1..(n + 1) : j = 1 \/ \E k \in 1..n : j = k + 1 /\ t[j] = s[k]
  <2> SUFFICES ASSUME NEW j \in 1..(n + 1), j # 1 PROVE j - 1 \in 1..n /\ j = (j - 1) + 1
    BY <1>2
  <2> QED
    BY <1>1
<1> HIDE DEF t
<1>4. Elements(t) = Elements(s) \cup {b}
  <2>1. \A j \in 1..n : j + 1 \in 1..(n + 1)
    BY <1>1
  <2>2. 1 \in 1..(n + 1)
    BY <1>1
  <2>3. Elements(t) \subseteq Elements(s) \cup {b}
    <3> SUFFICES ASSUME NEW x \in Elements(t) PROVE x \in Elements(s) \cup {b}
      OBVIOUS
    <3>1. PICK j \in 1..(n + 1) : x = t[j]
      BY <1>2 DEF Elements
    <3> QED
      BY <1>2, <1>3, <3>1 DEF Elements
  <2>4. Elements(s) \cup {b} \subseteq Elements(t)
    BY <1>2, <2>1, <2>2 DEF Elements
  <2> QED
    BY <2>3, <2>4
<1>5. Distinct(t)
  <2> SUFFICES ASSUME NEW j \in 1..(n + 1), NEW k \in 1..(n + 1), t[j] = t[k] PROVE j = k
    BY <1>2 DEF Distinct
  <2>1. \A m \in 1..n : s[m] # b
    BY DEF Elements
  <2>2. CASE j = 1
    BY <1>2, <1>3, <2>1, <2>2
  <2>3. CASE k = 1
    BY <1>2, <1>3, <2>1, <2>3
  <2>4. CASE j # 1 /\ k # 1
    BY <1>3, <2>4 DEF Distinct
  <2> QED
    BY <2>2, <2>3, <2>4
<1> QED
  BY <1>2, <1>4, <1>5 DEF t

-----------------------------------------------------------------------------
(* Blocks B with sizes sz tile the chunks C *)

Behind(C) == {c + Usable : c \in C}

(* Behind a block is a block or a guard. *)
Followed(B, sz, C) == \A b \in B : sz[b] >= 2 /\ b + sz[b] \in B \cup Behind(C)

Apart(B, sz, C) == \A b, c \in B \cup Behind(C) : b < c => b + sz[b] <= c

(* A block lies in one chunk, in front of its guard. *)
Within(B, sz, C) == \A b \in B : \E c \in C : c <= b /\ b + sz[b] <= c + Usable

GuardsEmpty(sz, C) == \A c \in C : sz[c + Usable] = 0

Tiling(B, sz, C) ==
  /\ B \subseteq Addr
  /\ C \subseteq B
  /\ Followed(B, sz, C)
  /\ Apart(B, sz, C)
  /\ Within(B, sz, C)
  /\ GuardsEmpty(sz, C)

(* The sizes after a block is split, merged with the one behind it, or made. *)
Cut(sz, b, k) == [sz EXCEPT ![b] = k, ![b + k] = sz[b] - k]
Joined(sz, b, next) == [sz EXCEPT ![b] = sz[b] + sz[next]]
Made(sz, c) == [sz EXCEPT ![c] = Usable, ![c + Usable] = 0]

LEMMA UsableType == Usable \in Nat /\ Usable >= 2 /\ ChunkUnits = Usable + 4
BY ChunkAssumption DEF Usable, Tail2

LEMMA AddrType == Addr \subseteq Nat \ {0}
<1> SUFFICES ASSUME NEW a \in Addr PROVE a \in Nat \ {0}
  OBVIOUS
<1>1. PICK c \in Bases : a \in c..(c + ChunkUnits - 1)
  BY DEF Addr
<1>2. c \in Nat \ {0} /\ ChunkUnits \in Nat
  BY ChunkAssumption
<1> QED
  BY <1>1, <1>2

(* A chunk holds the addresses from its base to its guard. *)
LEMMA InChunk ==
  ASSUME NEW c \in Bases, NEW a \in Nat, c <= a, a <= c + Usable
  PROVE  a \in Addr
<1>1. c \in Nat /\ a \in c..(c + ChunkUnits - 1)
  BY UsableType, ChunkAssumption
<1> QED
  BY <1>1 DEF Addr

LEMMA BehindType ==
  ASSUME NEW C \in SUBSET Bases
  PROVE  Behind(C) \subseteq Addr
<1> SUFFICES ASSUME NEW c \in C PROVE c + Usable \in Addr
  BY DEF Behind
<1>1. c \in Bases /\ c \in Nat
  BY ChunkAssumption
<1> QED
  BY <1>1, InChunk, UsableType

(* No block is a guard. *)
LEMMA NoBlockIsGuard ==
  ASSUME NEW B, NEW sz, NEW C, Tiling(B, sz, C)
  PROVE  B \cap Behind(C) = {}
<1> SUFFICES ASSUME NEW b \in B, NEW c \in C, b = c + Usable PROVE FALSE
  BY DEF Behind
<1>1. sz[b] = 0 /\ sz[b] >= 2
  BY DEF Tiling, Followed, GuardsEmpty
<1> QED
  BY <1>1

(* A block can be split in two. *)
LEMMA Split ==
  ASSUME NEW C \in SUBSET Bases, NEW sz \in [Addr -> Nat], NEW B, Tiling(B, sz, C),
         NEW b \in B, NEW k \in Nat, k >= 2, k + 2 <= sz[b],
         NEW d, d = b + k
  PROVE  /\ d \in Addr
         /\ d \notin B \cup Behind(C)
         /\ Tiling(B \cup {d}, Cut(sz, b, k), C)
<1> DEFINE new == Cut(sz, b, k)
<1>1. /\ B \subseteq Addr /\ Behind(C) \subseteq Addr /\ Addr \subseteq Nat
      /\ b \in Addr /\ b \in Nat /\ sz[b] \in Nat /\ d \in Nat /\ b # d
  BY BehindType, AddrType DEF Tiling
<1>2. \A a \in B \cup Behind(C) : a \in Nat /\ sz[a] \in Nat
  BY <1>1
<1>3. PICK c \in C : c <= b /\ b + sz[b] <= c + Usable
  BY DEF Tiling, Within
<1>4. c \in Bases /\ c \in Nat
  BY ChunkAssumption
<1>5. d \in Addr
  BY <1>1, <1>3, <1>4, InChunk, UsableType
<1>6. d \notin B \cup Behind(C)
  <2>1. b < d /\ d < b + sz[b]
    BY <1>1
  <2> QED
    BY <1>1, <2>1 DEF Tiling, Apart
<1>7. /\ new \in [Addr -> Nat] /\ new[b] = k /\ new[d] = sz[b] - k
      /\ \A a \in Addr : a # b /\ a # d => new[a] = sz[a]
  BY <1>1, <1>5 DEF Cut
<1>8. \A a \in B \cup Behind(C) : a # b => new[a] = sz[a]
  BY <1>1, <1>6, <1>7
<1>9. new[b] + new[d] = sz[b] /\ d + new[d] = b + sz[b]
  BY <1>1, <1>7
<1> HIDE DEF new
<1>10. Followed(B \cup {d}, new, C)
  <2>1. new[d] >= 2 /\ d + new[d] \in B \cup Behind(C)
    BY <1>1, <1>7, <1>9 DEF Tiling, Followed
  <2>2. new[b] >= 2 /\ b + new[b] = d
    BY <1>1, <1>7
  <2>3. \A a \in B : a # b => new[a] >= 2 /\ a + new[a] \in B \cup Behind(C)
    BY <1>8 DEF Tiling, Followed
  <2> QED
    BY <2>1, <2>2, <2>3 DEF Followed
<1>11. Apart(B \cup {d}, new, C)
  <2>1. ASSUME NEW a \in B \cup Behind(C), a < d PROVE a + new[a] <= d
    <3>1. CASE a = b
      BY <1>1, <1>7, <3>1
    <3>2. CASE a # b
      <4>1. a < b
        <5>1. ~(b < a)
          <6>1. b < a => b + sz[b] <= a
            BY DEF Tiling, Apart
          <6> QED
            BY <1>1, <1>2, <1>7, <1>9, <2>1, <6>1
        <5> QED
          BY <1>1, <1>2, <3>2, <5>1
      <4>2. a + sz[a] <= b
        BY <4>1 DEF Tiling, Apart
      <4> QED
        BY <1>1, <1>2, <1>8, <3>2, <4>2
    <3> QED
      BY <3>1, <3>2
  <2>2. ASSUME NEW a \in B \cup Behind(C), d < a PROVE d + new[d] <= a
    <3>1. b < a
      BY <1>1, <1>2, <2>2
    <3> QED
      BY <1>9, <3>1 DEF Tiling, Apart
  <2>3. ASSUME NEW a \in B \cup Behind(C), NEW e \in B \cup Behind(C), a < e
        PROVE  a + new[a] <= e
    <3>1. a + sz[a] <= e
      BY <2>3 DEF Tiling, Apart
    <3> QED
      BY <1>1, <1>2, <1>7, <1>8, <3>1
  <2> SUFFICES ASSUME NEW a \in B \cup {d} \cup Behind(C), NEW e \in B \cup {d} \cup Behind(C), a < e
               PROVE  a + new[a] <= e
    BY DEF Apart
  <2>4. ~ (a = d /\ e = d)
    BY <1>1
  <2> QED
    BY <2>1, <2>2, <2>3, <2>4
<1>12. Within(B \cup {d}, new, C)
  <2>1. c <= d /\ d + new[d] <= c + Usable /\ c <= b /\ b + new[b] <= c + Usable
    BY <1>1, <1>3, <1>4, <1>7, <1>9, UsableType
  <2>2. \A a \in B : a # b => \E e \in C : e <= a /\ a + new[a] <= e + Usable
    BY <1>8 DEF Tiling, Within
  <2> QED
    BY <2>1, <2>2 DEF Within
<1>13. GuardsEmpty(new, C)
  <2>1. \A e \in C : e + Usable \in Behind(C)
    BY DEF Behind
  <2>2. \A e \in C : e + Usable # b
    BY <2>1, NoBlockIsGuard
  <2> QED
    BY <1>8, <2>1, <2>2 DEF GuardsEmpty, Tiling
<1> QED
  BY <1>1, <1>5, <1>6, <1>7, <1>8, <1>10, <1>11, <1>12, <1>13 DEF Tiling, new

(* A block can be merged with the block behind it, which is in its chunk.   *)
LEMMA Merge ==
  ASSUME NEW C \in SUBSET Bases, NEW sz \in [Addr -> Nat], NEW B, Tiling(B, sz, C),
         NEW b \in B, NEW next \in B, next = b + sz[b]
  PROVE  /\ next # b
         /\ Tiling(B \ {next}, Joined(sz, b, next), C)
<1> DEFINE new == Joined(sz, b, next)
<1>1. /\ B \subseteq Addr /\ Behind(C) \subseteq Addr /\ Addr \subseteq Nat
      /\ b \in Nat /\ next \in Nat /\ sz[b] \in Nat /\ sz[next] \in Nat
      /\ sz[b] >= 2 /\ sz[next] >= 2
  BY BehindType, AddrType DEF Tiling, Followed
<1>2. \A a \in B \cup Behind(C) : a \in Nat /\ sz[a] \in Nat
  BY <1>1
<1>3. b < next /\ b # next
  BY <1>1
<1>4. /\ new \in [Addr -> Nat] /\ new[b] = sz[b] + sz[next]
      /\ \A a \in Addr : a # b => new[a] = sz[a]
  BY <1>1 DEF Joined
<1> HIDE DEF new
<1>5. PICK c \in C : c <= b /\ b + sz[b] <= c + Usable
  BY DEF Tiling, Within
<1>6. PICK d \in C : d <= next /\ next + sz[next] <= d + Usable
  BY DEF Tiling, Within
<1>7. /\ c \in Bases /\ d \in Bases /\ c \in Nat /\ d \in Nat
      /\ \A x, y \in Bases : x < y => x + Usable + 4 <= y
  BY ChunkAssumption, UsableType
<1>8. c = d
  BY <1>1, <1>3, <1>5, <1>6, <1>7, UsableType
<1>9. next \notin C
  <2> SUFFICES ASSUME next \in Bases PROVE FALSE
    OBVIOUS
  <2>1. c < next /\ next <= c + Usable
    BY <1>1, <1>3, <1>5, <1>7
  <2> QED
    BY <1>1, <1>7, <2>1, UsableType
<1>10. next + sz[next] # next /\ b + new[b] = next + sz[next]
  BY <1>1, <1>4
<1>11. Followed(B \ {next}, new, C)
  <2>1. ASSUME NEW a \in B \ {next}, a # b PROVE a + sz[a] # next
    <3>1. a < b => a + sz[a] <= b
      BY DEF Tiling, Apart
    <3>2. next < a => next + sz[next] <= a
      BY DEF Tiling, Apart
    <3>3. b < a => b + sz[b] <= a
      BY DEF Tiling, Apart
    <3> QED
      BY <1>1, <1>2, <1>3, <2>1, <3>1, <3>2, <3>3
  <2>2. \A a \in B \ {next} : a # b => new[a] >= 2 /\ a + new[a] \in (B \ {next}) \cup Behind(C)
    <3>1. \A a \in B : a # b => new[a] = sz[a]
      BY <1>1, <1>4
    <3>2. \A a \in B : sz[a] >= 2 /\ a + sz[a] \in B \cup Behind(C)
      BY DEF Tiling, Followed
    <3> QED
      BY <2>1, <3>1, <3>2
  <2>3. new[b] >= 2 /\ b + new[b] \in (B \ {next}) \cup Behind(C)
    BY <1>1, <1>4, <1>10 DEF Tiling, Followed
  <2> QED
    BY <2>2, <2>3 DEF Followed
<1>12. Apart(B \ {next}, new, C)
  <2> SUFFICES ASSUME NEW a \in (B \ {next}) \cup Behind(C), NEW e \in (B \ {next}) \cup Behind(C), a < e
               PROVE  a + new[a] <= e
    BY DEF Apart
  <2>1. CASE a # b
    <3>1. a + sz[a] <= e
      BY DEF Tiling, Apart
    <3> QED
      BY <1>1, <1>4, <2>1, <3>1
  <2>2. CASE a = b
    <3>1. next <= e
      BY <2>2 DEF Tiling, Apart
    <3>2. e # next
      BY NoBlockIsGuard
    <3>3. next + sz[next] <= e
      BY <1>1, <1>2, <3>1, <3>2 DEF Tiling, Apart
    <3> QED
      BY <1>10, <2>2, <3>3
  <2> QED
    BY <2>1, <2>2
<1>13. Within(B \ {next}, new, C)
  <2>1. c <= b /\ b + new[b] <= c + Usable
    BY <1>5, <1>6, <1>8, <1>10
  <2>2. \A a \in B : a # b => new[a] = sz[a]
    BY <1>1, <1>4
  <2> QED
    BY <2>1, <2>2 DEF Tiling, Within
<1>14. GuardsEmpty(new, C)
  <2>1. \A e \in C : e + Usable \in Behind(C)
    BY DEF Behind
  <2>2. \A e \in C : e + Usable # b /\ e + Usable \in Addr
    BY <1>1, <2>1, NoBlockIsGuard
  <2> QED
    BY <1>4, <2>2 DEF GuardsEmpty, Tiling
<1> QED
  BY <1>1, <1>3, <1>4, <1>9, <1>11, <1>12, <1>13, <1>14 DEF Tiling, new

(* A new chunk holds one block. *)
LEMMA Grow ==
  ASSUME NEW C \in SUBSET Bases, NEW sz \in [Addr -> Nat], NEW B, Tiling(B, sz, C),
         NEW c \in Bases \ C,
         NEW g, g = c + Usable
  PROVE  /\ c \in Addr /\ g \in Addr
         /\ c \notin B \cup Behind(C)
         /\ g \notin B \cup Behind(C)
         /\ g # c
         /\ Tiling(B \cup {c}, Made(sz, c), C \cup {c})
<1> DEFINE new == Made(sz, c)
<1>1. /\ B \subseteq Addr /\ Behind(C) \subseteq Addr /\ Addr \subseteq Nat
      /\ c \in Nat /\ g \in Nat /\ c < g /\ g = c + Usable
      /\ Usable \in Nat /\ Usable >= 2
      /\ \A x, y \in Bases : x < y => x + Usable + 4 <= y
      /\ \A x \in Bases : x \in Nat
  BY BehindType, AddrType, ChunkAssumption, UsableType DEF Tiling
<1>2. \A a \in B \cup Behind(C) : a \in Nat /\ sz[a] \in Nat
  BY <1>1
<1>3. c \in Addr /\ g \in Addr
  BY <1>1, InChunk
(* What lies in another chunk lies wholly in front of this one or behind. *)
<1>4. ASSUME NEW a \in B \cup Behind(C)
      PROVE  a + sz[a] < c \/ g < a
  <2>1. PICK d \in C : d <= a /\ a + sz[a] <= d + Usable
    <3>1. CASE a \in B
      BY <3>1 DEF Tiling, Within
    <3>2. CASE a \in Behind(C)
      <4>1. PICK d \in C : a = d + Usable
        BY <3>2 DEF Behind
      <4>2. sz[a] = 0 /\ d \in Nat
        BY <1>1, <4>1 DEF Tiling, GuardsEmpty
      <4> QED
        BY <1>1, <4>1, <4>2
    <3> QED
      BY <3>1, <3>2
  <2>2. d \in Bases /\ d # c /\ d \in Nat
    BY <1>1
  <2>3. d + Usable + 4 <= c \/ c + Usable + 4 <= d
    BY <1>1, <2>2
  <2> QED
    BY <1>1, <1>2, <2>1, <2>2, <2>3
<1>5. c \notin B \cup Behind(C) /\ g \notin B \cup Behind(C)
  BY <1>1, <1>2, <1>4
<1>6. /\ new \in [Addr -> Nat] /\ new[c] = Usable /\ new[g] = 0
      /\ \A a \in Addr : a # c /\ a # g => new[a] = sz[a]
  BY <1>1, <1>3 DEF Made
<1>7. \A a \in B \cup Behind(C) : new[a] = sz[a]
  BY <1>1, <1>5, <1>6
<1>8. Behind(C \cup {c}) = Behind(C) \cup {g}
  BY DEF Behind
<1>a. c + new[c] = g /\ g + new[g] = g
  <2>1. c + Usable = g /\ g + 0 = g
    BY <1>1
  <2> HIDE DEF new
  <2> QED
    BY <1>6, <2>1
<1>b. g \in Nat /\ c \in Nat /\ c < g /\ g <= c + Usable
  BY <1>1
<1> HIDE DEF new
<1>9. Followed(B \cup {c}, new, C \cup {c})
  BY <1>1, <1>6, <1>7, <1>8 DEF Followed, Tiling
<1>10. Apart(B \cup {c}, new, C \cup {c})
  <2> SUFFICES ASSUME NEW a \in B \cup Behind(C) \cup {c, g}, NEW e \in B \cup Behind(C) \cup {c, g},
                      a < e
               PROVE  a + new[a] <= e
    BY <1>8 DEF Apart
  <2>1. CASE a \in B \cup Behind(C) /\ e \in B \cup Behind(C)
    <3>1. a + sz[a] <= e
      BY <2>1 DEF Tiling, Apart
    <3> QED
      BY <1>7, <2>1, <3>1
  <2>2. CASE a \in B \cup Behind(C) /\ e \in {c, g}
    <3>1. a + sz[a] < c
      BY <1>1, <1>2, <1>4, <2>2
    <3> QED
      BY <1>1, <1>2, <1>7, <2>2, <3>1
  <2>3. CASE a \in {c, g} /\ e \in B \cup Behind(C)
    <3>1. g < e /\ e \in Nat
      BY <1>1, <1>2, <1>4, <2>3
    <3> QED
      BY <1>a, <1>b, <2>3, <3>1
  <2>4. CASE a \in {c, g} /\ e \in {c, g}
    BY <1>a, <1>b, <2>4
  <2> QED
    BY <2>1, <2>2, <2>3, <2>4
<1>11. Within(B \cup {c}, new, C \cup {c})
  <2>1. c <= c /\ c + new[c] <= c + Usable
    BY <1>a, <1>b
  <2> SUFFICES ASSUME NEW b \in B \cup {c}
               PROVE  \E e \in C \cup {c} : e <= b /\ b + new[b] <= e + Usable
    BY DEF Within
  <2>2. CASE b = c
    BY <2>1, <2>2
  <2>3. CASE b \in B
    BY <1>7, <2>3 DEF Tiling, Within
  <2> QED
    BY <2>2, <2>3
<1>12. GuardsEmpty(new, C \cup {c})
  <2>1. \A e \in C : e + Usable \in Behind(C)
    BY DEF Behind
  <2>2. \A e \in C : new[e + Usable] = 0
    BY <1>7, <2>1 DEF GuardsEmpty, Tiling
  <2>3. new[c + Usable] = 0
    BY <1>6
  <2> QED
    BY <2>2, <2>3 DEF GuardsEmpty
<1> QED
  BY <1>1, <1>3, <1>5, <1>6, <1>7, <1>9, <1>10, <1>11, <1>12 DEF Tiling, new
-----------------------------------------------------------------------------
(* A heap with blocks in use L, blocks R on their way to the free list, the *)
(* free list fr, sizes sz, bits us and chunks C                             *)

WellFormed(L, R, fr, sz, us, C) ==
  /\ C \subseteq Bases
  /\ fr \in Seq(Addr) /\ Distinct(fr)
  /\ sz \in [Addr -> Nat]
  /\ Tiling(L \cup Elements(fr) \cup R, sz, C)
  /\ L \cup Behind(C) \subseteq us
  /\ us \subseteq L \cup R \cup Behind(C)
  /\ Elements(fr) \cap us = {}
  /\ L \cap R = {} /\ Elements(fr) \cap R = {}

LEMMA AlignType ==
  ASSUME NEW n \in Nat
  PROVE  align16(n) \in Nat /\ align16(n) >= 2
<1>1. Word \in Nat /\ Word > 0
  BY ChunkAssumption
<1>2. (n + 31) % Word \in Nat
  BY <1>1
<1>3. ((n + 31) % Word) \div 16 \in Nat
  BY <1>2
<1> QED
  BY <1>3 DEF align16

(* A block in use can be set down as one to be freed. *)
LEMMA LettingGo ==
  ASSUME NEW L, NEW fr, NEW sz, NEW us, NEW C, WellFormed(L, {}, fr, sz, us, C), NEW b \in L
  PROVE  WellFormed(L \ {b}, {b}, fr, sz, us, C)
<1>1. (L \ {b}) \cup Elements(fr) \cup {b} = L \cup Elements(fr) \cup {}
  OBVIOUS
<1>2. b \notin Elements(fr)
  BY DEF WellFormed
<1> QED
  BY <1>1, <1>2 DEF WellFormed

(* heap_free puts the block on the list and disturbs none in use. *)
LEMMA GivingBack ==
  ASSUME NEW L, NEW b, WellFormed(L, {b}, free, size, used, chunks),
         heap_free(b), chunks' = chunks
  PROVE  /\ WellFormed(L, {}, free', size', used', chunks')
         /\ \A a \in L : size'[a] = size[a]
<1> DEFINE next == b + size[b]
           B == L \cup Elements(free) \cup {b}
<1>1. /\ chunks \in SUBSET Bases /\ size \in [Addr -> Nat] /\ Tiling(B, size, chunks)
      /\ free \in Seq(Addr) /\ Distinct(free) /\ b \in B /\ b \in Addr /\ L \subseteq Addr
      /\ b \notin L /\ b \notin Elements(free)
      /\ L \cup Behind(chunks) \subseteq used /\ used \subseteq L \cup {b} \cup Behind(chunks)
      /\ Elements(free) \cap used = {}
  BY DEF WellFormed, Tiling
<1>2. b \notin Behind(chunks)
  BY <1>1, NoBlockIsGuard
<1>3. used' = used \ {b}
  BY DEF heap_free
<1>4. CASE /\ next \notin used
           /\ \E i \in {i \in 1..Len(free) : free[i] = next} : free' = <<b>> \o RemoveAt(free, i)
           /\ size' = [size EXCEPT ![b] = @ + size[next]]
  <2>1. PICK i \in 1..Len(free) : free[i] = next /\ free' = <<b>> \o RemoveAt(free, i)
    BY <1>4
  <2>2. next \in Elements(free)
    BY <2>1 DEF Elements
  <2>3. size' = Joined(size, b, next)
    BY <1>4 DEF Joined
  <2>4. next \in B
    BY <2>2
  <2> HIDE DEF B, next
  <2>5. /\ size' \in [Addr -> Nat] /\ next # b
        /\ \A a \in Addr : a # b => size'[a] = size[a]
        /\ Tiling(B \ {next}, size', chunks)
    <3>1. next = b + size[b]
      BY DEF next
    <3>2. next # b
      BY <1>1, <2>4, <3>1, Merge
    <3>3. Tiling(B \ {next}, Joined(size, b, next), chunks)
      BY <1>1, <2>4, <3>1, Merge
    <3>4. size' = [size EXCEPT ![b] = size[b] + size[next]] /\ next \in Addr
      BY <1>1, <2>3, <2>4 DEF Joined, Tiling
    <3>5. size' \in [Addr -> Nat] /\ \A a \in Addr : a # b => size'[a] = size[a]
      BY <1>1, <3>4
    <3> QED
      BY <2>3, <3>2, <3>3, <3>5
  <2>6. /\ RemoveAt(free, i) \in Seq(Addr) /\ Distinct(RemoveAt(free, i))
        /\ Elements(RemoveAt(free, i)) = Elements(free) \ {next}
    BY <1>1, <2>1, Unlink
  <2>7. /\ free' \in Seq(Addr) /\ Distinct(free')
        /\ Elements(free') = (Elements(free) \ {next}) \cup {b}
    BY <1>1, <2>1, <2>6, Link
  <2>8. L \cup Elements(free') \cup {} = B \ {next}
    BY <1>1, <2>2, <2>5, <2>7 DEF B
  <2> QED
    BY <1>1, <1>2, <1>3, <2>5, <2>7, <2>8 DEF WellFormed
<1>5. CASE free' = <<b>> \o free /\ size' = size
  <2>1. free' \in Seq(Addr) /\ Distinct(free') /\ Elements(free') = Elements(free) \cup {b}
    BY <1>1, <1>5, Link
  <2>2. L \cup Elements(free') \cup {} = B
    BY <2>1
  <2> QED
    BY <1>1, <1>2, <1>3, <1>5, <2>1, <2>2 DEF WellFormed
<1> QED
  BY <1>4, <1>5 DEF heap_free

(* alloc_from_list takes a block off the list or the top of one. *)
LEMMA Taking ==
  ASSUME NEW L, WellFormed(L, {}, free, size, used, chunks),
         NEW i \in 1..Len(free), NEW need \in Nat, need >= 2, size[free[i]] >= need,
         NEW blk, TakeFrom(i, need, blk), chunks' = chunks
  PROVE  /\ blk \notin L
         /\ WellFormed(L \cup {blk}, {}, free', size', used', chunks')
         /\ \A a \in L : size'[a] = size[a]
         /\ need <= size'[blk] /\ size'[blk] <= need + 1
<1> DEFINE b == free[i]
           rest == size[b] - need
           B == L \cup Elements(free)
<1>1. /\ chunks \in SUBSET Bases /\ size \in [Addr -> Nat] /\ Tiling(B, size, chunks)
      /\ free \in Seq(Addr) /\ Distinct(free) /\ L \subseteq Addr
      /\ L \cup Behind(chunks) \subseteq used /\ Elements(free) \cap used = {}
      /\ used \subseteq L \cup Behind(chunks)
  <2>1. L \cup Elements(free) \cup {} = B
    OBVIOUS
  <2> QED
    BY <2>1 DEF WellFormed, Tiling
<1>2. b \in Elements(free)
  BY DEF Elements
<1>3. b \in B /\ b \in Addr /\ b \notin L /\ b \in Nat /\ size[b] \in Nat
  BY <1>1, <1>2, AddrType DEF Tiling
<1>4. rest \in Nat /\ size[b] - rest = need
  BY <1>3
<1>5. CASE rest < 2 /\ blk = b /\ used' = used \cup {b} /\ free' = RemoveAt(free, i) /\ size' = size
  <2>1. free' \in Seq(Addr) /\ Distinct(free') /\ Elements(free') = Elements(free) \ {b}
    BY <1>1, <1>5, Unlink
  <2>2. (L \cup {blk}) \cup Elements(free') \cup {} = B
    BY <1>2, <1>5, <2>1
  <2>3. need <= size'[blk] /\ size'[blk] <= need + 1
    BY <1>3, <1>4, <1>5
  <2> HIDE DEF b, rest
  <2> QED
    BY <1>1, <1>3, <1>5, <2>1, <2>2, <2>3 DEF WellFormed
<1>6. CASE /\ rest >= 2 /\ blk = b + rest /\ used' = used \cup {b + rest} /\ free' = free
           /\ size' = [size EXCEPT ![b] = rest, ![b + rest] = need]
  <2>1. size' = Cut(size, b, rest) /\ blk = b + rest
    BY <1>4, <1>6 DEF Cut
  <2>2. rest \in Nat /\ rest >= 2 /\ rest + 2 <= size[b] /\ need <= need + 1
    BY <1>3, <1>4, <1>6
  <2> HIDE DEF B, b, rest
  <2>3. /\ blk \in Addr /\ blk \notin B \cup Behind(chunks)
        /\ size' \in [Addr -> Nat] /\ size'[blk] = size[b] - rest
        /\ \A a \in B \cup Behind(chunks) : a # b => size'[a] = size[a]
        /\ Tiling(B \cup {blk}, size', chunks)
    <3>3. Tiling(B \cup {blk}, Cut(size, b, rest), chunks)
      BY <1>1, <1>3, <2>1, <2>2, Split
    <3>1. blk \in Addr
      BY <3>3 DEF Tiling
    <3>2. blk \notin B \cup Behind(chunks)
      <4>1. b < blk /\ blk < b + size[b]
        BY <1>3, <2>1, <2>2
      <4>2. blk \in B \cup Behind(chunks) => b + size[b] <= blk
        BY <1>1, <1>3, <4>1 DEF Tiling, Apart
      <4>3. b + size[b] \in Nat /\ blk \in Nat
        BY <1>3, <2>1, <2>2
      <4> QED
        BY <4>1, <4>2, <4>3
    <3>4. B \cup Behind(chunks) \subseteq Addr
      BY <1>1, BehindType DEF Tiling
    <3>5. size[b] - rest \in Nat
      BY <1>3, <2>2
    <3>6. size' = [size EXCEPT ![b] = rest, ![blk] = size[b] - rest]
      BY <2>1 DEF Cut
    <3>7. /\ size' \in [Addr -> Nat] /\ size'[blk] = size[b] - rest
          /\ \A a \in B \cup Behind(chunks) : a # b => size'[a] = size[a]
      BY <1>1, <1>3, <2>2, <3>1, <3>2, <3>4, <3>5, <3>6
    <3> QED
      BY <2>1, <3>1, <3>2, <3>3, <3>7
  <2>4. (L \cup {blk}) \cup Elements(free') \cup {} = B \cup {blk}
    BY <1>6 DEF B
  <2>5. blk \notin L /\ blk \notin Elements(free) /\ \A a \in L : a \in B /\ a # b
    BY <1>3, <2>3 DEF B
  <2>6. need <= size'[blk] /\ size'[blk] <= need + 1
    BY <1>4, <2>2, <2>3
  <2>7. (L \cup {blk}) \cup Behind(chunks) \subseteq used'
    BY <1>1, <1>6
  <2>8. used' \subseteq (L \cup {blk}) \cup {} \cup Behind(chunks)
    BY <1>1, <1>6
  <2>9. Elements(free') \cap used' = {}
    BY <1>1, <1>6, <2>5
  <2>10. WellFormed(L \cup {blk}, {}, free', size', used', chunks')
    BY <1>1, <1>6, <2>3, <2>4, <2>7, <2>8, <2>9 DEF WellFormed
  <2>11. \A a \in L : size'[a] = size[a]
    BY <2>3, <2>5
  <2> QED
    BY <2>5, <2>6, <2>10, <2>11
<1> QED
  BY <1>5, <1>6 DEF TakeFrom

(* heap_realloc cuts the end off a block in use. *)
LEMMA Cutting ==
  ASSUME NEW L, NEW fr, NEW sz, NEW us, NEW C, WellFormed(L, {}, fr, sz, us, C),
         NEW b \in L, NEW k \in Nat, k >= 2, k + 2 <= sz[b],
         NEW d, d = b + k
  PROVE  WellFormed(L, {d}, fr, Cut(sz, b, k), us \ {d}, C)
<1> DEFINE B == L \cup Elements(fr)
           new == Cut(sz, b, k)
<1>1. /\ C \in SUBSET Bases /\ sz \in [Addr -> Nat] /\ Tiling(B, sz, C)
      /\ fr \in Seq(Addr) /\ Distinct(fr)
      /\ L \cup Behind(C) \subseteq us /\ us \subseteq L \cup Behind(C)
      /\ Elements(fr) \cap us = {} /\ b \in B
  <2>1. L \cup Elements(fr) \cup {} = B
    OBVIOUS
  <2> QED
    BY <2>1 DEF WellFormed
<1> HIDE DEF B
<1>2. /\ d \notin B \cup Behind(C)
      /\ new \in [Addr -> Nat]
      /\ Tiling(B \cup {d}, new, C)
  <2>1. d = b + k
    OBVIOUS
  <2>2. Tiling(B \cup {d}, new, C)
    BY <1>1, <2>1, Split
  <2>3. d \in Addr
    BY <2>2 DEF Tiling
  <2>4. d \notin B \cup Behind(C)
    <3>1. b \in Nat /\ sz[b] \in Nat
      BY <1>1, AddrType DEF Tiling
    <3>2. b < d /\ d < b + sz[b]
      BY <2>1, <3>1
    <3>3. d \in B \cup Behind(C) => b + sz[b] <= d
      BY <1>1, <3>2 DEF Tiling, Apart
    <3>4. b + sz[b] \in Nat /\ d \in Nat
      BY <2>1, <3>1
    <3> QED
      BY <3>2, <3>3, <3>4
  <2>5. B \cup Behind(C) \subseteq Addr /\ b \in Addr
    BY <1>1, BehindType DEF Tiling
  <2>6. sz[b] \in Nat /\ sz[b] - k \in Nat
    BY <1>1, <2>5
  <2>7. new = [sz EXCEPT ![b] = k, ![d] = sz[b] - k] /\ b # d
    BY <1>1, <2>1, <2>4 DEF Cut
  <2>8. new \in [Addr -> Nat]
    BY <1>1, <2>3, <2>5, <2>6, <2>7
  <2> QED
    BY <2>2, <2>4, <2>8
<1> HIDE DEF new
<1>3. /\ L \cup Elements(fr) \cup {d} = B \cup {d}
      /\ d \notin L /\ d \notin Elements(fr) /\ L \subseteq B
  BY <1>2 DEF B
<1> QED
  BY <1>1, <1>2, <1>3 DEF WellFormed, new

(* heap_realloc adds the free block behind it to a block in use. *)
LEMMA Absorbing ==
  ASSUME NEW L, NEW fr, NEW sz, NEW us, NEW C, WellFormed(L, {}, fr, sz, us, C),
         NEW b \in L, NEW i \in 1..Len(fr), NEW next, next = b + sz[b], fr[i] = next
  PROVE  WellFormed(L, {}, RemoveAt(fr, i), Joined(sz, b, next), us, C)
<1> DEFINE B == L \cup Elements(fr)
<1>1. /\ C \in SUBSET Bases /\ sz \in [Addr -> Nat] /\ Tiling(B, sz, C)
      /\ fr \in Seq(Addr) /\ Distinct(fr)
      /\ L \cup Behind(C) \subseteq us /\ us \subseteq L \cup Behind(C)
      /\ Elements(fr) \cap us = {} /\ b \in B
  <2>1. L \cup Elements(fr) \cup {} = B
    OBVIOUS
  <2> QED
    BY <2>1 DEF WellFormed
<1>2. next \in Elements(fr) /\ next \in B /\ next \notin L
  BY <1>1 DEF Elements
<1> HIDE DEF B
<1>3. Tiling(B \ {next}, Joined(sz, b, next), C)
  BY <1>1, <1>2, Merge
<1>4. Joined(sz, b, next) \in [Addr -> Nat]
  <2>1. b \in Addr /\ next \in Addr
    BY <1>1, <1>2 DEF Tiling
  <2> QED
    BY <1>1, <2>1 DEF Joined
<1>5. /\ RemoveAt(fr, i) \in Seq(Addr) /\ Distinct(RemoveAt(fr, i))
      /\ Elements(RemoveAt(fr, i)) = Elements(fr) \ {next}
  BY <1>1, Unlink
<1>6. L \cup Elements(RemoveAt(fr, i)) \cup {} = B \ {next}
  BY <1>2, <1>5 DEF B
<1> QED
  BY <1>1, <1>3, <1>4, <1>5, <1>6 DEF WellFormed

(* refill puts a new chunk on the list. *)
LEMMA Growing ==
  ASSUME NEW L, NEW fr, NEW sz, NEW us, NEW C, WellFormed(L, {}, fr, sz, us, C),
         NEW c \in Bases \ C,
         NEW new, new = Made(sz, c)
  PROVE  /\ WellFormed(L, {}, <<c>> \o fr, new, us \cup {c + Usable}, C \cup {c})
         /\ \A a \in L : new[a] = sz[a]
<1> DEFINE B == L \cup Elements(fr)
           g == c + Usable
<1>1. /\ C \in SUBSET Bases /\ sz \in [Addr -> Nat] /\ Tiling(B, sz, C)
      /\ fr \in Seq(Addr) /\ Distinct(fr)
      /\ L \cup Behind(C) \subseteq us /\ Elements(fr) \cap us = {} /\ us \subseteq L \cup Behind(C)
  <2>1. L \cup Elements(fr) \cup {} = B
    OBVIOUS
  <2> QED
    BY <2>1 DEF WellFormed
<1> HIDE DEF B
<1>2. /\ c \in Addr /\ c \notin B \cup Behind(C)
      /\ g \notin B \cup {c}
      /\ new \in [Addr -> Nat] /\ \A a \in B : new[a] = sz[a]
      /\ Tiling(B \cup {c}, new, C \cup {c})
  <2>1. g = c + Usable
    OBVIOUS
  <2> HIDE DEF g
  <2>2. c \in Addr /\ g \in Addr
    BY <2>1, InChunk, UsableType, ChunkAssumption
  <2>5. g # c
    BY <2>1, UsableType, ChunkAssumption
  <2>a. C \in SUBSET Bases /\ sz \in [Addr -> Nat] /\ Tiling(B, sz, C)
    BY <1>1
  <2>6. Tiling(B \cup {c}, Made(sz, c), C \cup {c})
    BY <2>a, <2>1, Grow
  <2>3. c \notin B \cup Behind(C)
    BY <2>a, <2>1, <2>6, Grow
  <2>4. g \notin B \cup Behind(C)
    BY <2>a, <2>1, <2>6, Grow
  <2>7. B \subseteq Addr /\ Usable \in Nat
    BY <1>1, UsableType DEF Tiling
  <2>8. new = [sz EXCEPT ![c] = Usable, ![g] = 0]
    BY <2>1 DEF Made
  <2>9. new \in [Addr -> Nat] /\ \A a \in B : new[a] = sz[a]
    BY <1>1, <2>2, <2>3, <2>4, <2>7, <2>8
  <2> QED
    BY <2>2, <2>3, <2>4, <2>5, <2>6, <2>9
<1>3. Behind(C \cup {c}) = Behind(C) \cup {g}
  BY DEF Behind
<1> HIDE DEF g
<1>4. c \notin Elements(fr) /\ g \notin Elements(fr) /\ c \notin us /\ c # g /\ L \subseteq B
  BY <1>1, <1>2 DEF B
<1>5. /\ <<c>> \o fr \in Seq(Addr) /\ Distinct(<<c>> \o fr)
      /\ Elements(<<c>> \o fr) = Elements(fr) \cup {c}
  BY <1>1, <1>2, <1>4, Link
<1>6. L \cup Elements(<<c>> \o fr) \cup {} = B \cup {c}
  BY <1>5 DEF B
<1>7. WellFormed(L, {}, <<c>> \o fr, new, us \cup {g}, C \cup {c})
  <2>1. L \cup Behind(C \cup {c}) \subseteq us \cup {g}
    BY <1>1, <1>3
  <2>2. us \cup {g} \subseteq L \cup {} \cup Behind(C \cup {c})
    BY <1>1, <1>3
  <2>3. Elements(<<c>> \o fr) \cap (us \cup {g}) = {}
    BY <1>1, <1>4, <1>5
  <2>4. C \cup {c} \subseteq Bases
    BY <1>1
  <2> QED
    BY <1>2, <1>5, <1>6, <2>1, <2>2, <2>3, <2>4 DEF WellFormed
<1> QED
  BY <1>2, <1>4, <1>7 DEF g

-----------------------------------------------------------------------------
(* The inductive invariant *)

Ops ==
  [stage : {"alloc"}, bytes : Requests, old : Addr \cup {0}] \cup [stage : {"release"}, blk : Addr]

(* heap_realloc frees the old block, so the program must still hold it.     *)
MovesLive == op # Idle /\ op.stage = "alloc" => op.old \in Live \cup {0}

(* A block is not bigger than its request makes it, but for the one unit    *)
(* that is too small to be split off.  heap_realloc to the size a block has *)
(* would otherwise take room from it.                                       *)
Snug == \A b \in Live : size[b] <= align16(asked[b]) + 1

HeapInvariant ==
  /\ WellFormed(Live, Underway, free, size, used, chunks)
  /\ asked \in [Live -> Requests]
  /\ op \in Ops \cup {Idle}
  /\ MovesLive
  /\ Snug

Undisturbed ==
  \A b \in Live : b \in DOMAIN asked' /\ asked'[b] = asked[b] => size'[b] >= size[b]

LEMMA RequestType == Requests \subseteq Nat
BY ChunkAssumption

LEMMA AtRest ==
  ASSUME op = Idle
  PROVE  Underway = {}
BY DEF Underway

LEMMA AllocatingType ==
  ASSUME NEW n \in Requests, NEW old \in Addr \cup {0}
  PROVE  /\ Allocating(n, old) \in Ops /\ Allocating(n, old) # Idle
         /\ Allocating(n, old).stage = "alloc" /\ Allocating(n, old).old = old
<1>1. Allocating(n, old) # Idle
  <2>1. n \in Nat /\ old \in Nat
    BY RequestType, AddrType
  <2> QED
    BY <2>1, IdleAssumption DEF Allocating
<1> QED
  BY <1>1 DEF Ops, Allocating

LEMMA ReleasingType ==
  ASSUME NEW b \in Addr
  PROVE  /\ Releasing(b) \in Ops /\ Releasing(b) # Idle
         /\ Releasing(b).stage = "release" /\ Releasing(b).blk = b
<1>1. Releasing(b) # Idle
  <2>1. b \in Nat
    BY AddrType
  <2> QED
    BY <2>1, IdleAssumption DEF Releasing
<1> QED
  BY <1>1 DEF Ops, Releasing

(* What is known of the call under way. *)
LEMMA CallType ==
  ASSUME op \in Ops \cup {Idle}, op # Idle
  PROVE  /\ op.stage = "alloc" =>
              op.bytes \in Requests /\ op.old \in Addr \cup {0} /\ Underway = {}
         /\ op.stage = "release" => op.blk \in Addr /\ Underway = {op.blk}
<1>1. op \in Ops
  OBVIOUS
<1>2. CASE op \in [stage : {"alloc"}, bytes : Requests, old : Addr \cup {0}]
  BY <1>2 DEF Underway
<1>3. CASE op \in [stage : {"release"}, blk : Addr]
  BY <1>3 DEF Underway
<1> QED
  BY <1>1, <1>2, <1>3 DEF Ops

LEMMA SizeType ==
  ASSUME HeapInvariant, NEW b \in Live
  PROVE  b \in Addr /\ b \in Nat /\ size[b] \in Nat /\ asked[b] \in Nat
<1>1. b \in Addr /\ size \in [Addr -> Nat] /\ asked[b] \in Requests
  BY DEF HeapInvariant, WellFormed, Tiling
<1> QED
  BY <1>1, AddrType, RequestType

LEMMA HeapInit == Init => HeapInvariant
<1> SUFFICES ASSUME Init PROVE HeapInvariant
  OBVIOUS
<1>1. free = <<>> /\ chunks = {} /\ used = {} /\ op = Idle /\ size = [a \in Addr |-> 0]
  BY DEF Init
<1>2. Live = {} /\ asked \in [Live -> Requests]
  BY DEF Init, Live
<1>3. Underway = {}
  BY <1>1, AtRest
<1>4. Elements(free) = {} /\ Behind(chunks) = {}
  BY <1>1 DEF Elements, Behind
<1>5. free \in Seq(Addr) /\ Distinct(free) /\ size \in [Addr -> Nat]
  BY <1>1 DEF Distinct
<1>6. Live \cup Elements(free) \cup Underway = {}
  BY <1>2, <1>3, <1>4
<1>7. Tiling({}, size, {})
  BY DEF Tiling, Followed, Apart, Within, GuardsEmpty, Behind
<1>8. WellFormed(Live, Underway, free, size, used, chunks)
  BY <1>1, <1>2, <1>3, <1>4, <1>5, <1>6, <1>7 DEF WellFormed
<1> QED
  BY <1>1, <1>2, <1>8 DEF HeapInvariant, MovesLive, Snug

-----------------------------------------------------------------------------
(* The calls *)

LEMMA MallocKeeps ==
  ASSUME HeapInvariant, NEW n \in Requests, Malloc(n)
  PROVE  HeapInvariant' /\ Undisturbed
<1>1. /\ op = Idle /\ op' = Allocating(n, 0) /\ free' = free /\ size' = size /\ used' = used
      /\ chunks' = chunks /\ asked' = asked
  BY DEF Malloc, heapVars
<1>2. /\ Underway = {} /\ Underway' = {} /\ Live' = Live /\ op' \in Ops
      /\ op'.old = 0
  <2>1. op' \in Ops /\ op' # Idle /\ op'.stage = "alloc" /\ op'.old = 0
    BY <1>1, AllocatingType
  <2>2. Underway' = {}
    BY <2>1 DEF Underway
  <2> QED
    BY <1>1, <2>1, <2>2, AtRest DEF Live
<1>3. HeapInvariant'
  BY <1>1, <1>2 DEF HeapInvariant, WellFormed, MovesLive, Snug
<1>4. Undisturbed
  BY <1>1, SizeType DEF Undisturbed
<1> QED
  BY <1>3, <1>4

(* Blocks held before and after: what is not the block of the call keeps   *)
(* its size and what was asked for.                                         *)
LEMMA FreeKeeps ==
  ASSUME HeapInvariant, NEW b \in Live, Free(b)
  PROVE  HeapInvariant' /\ Undisturbed
<1>1. /\ op = Idle /\ op' = Idle /\ chunks' = chunks /\ heap_free(b)
      /\ asked' = [c \in Live \ {b} |-> asked[c]]
  BY DEF Free, Forget
<1>2. Live' = Live \ {b} /\ Underway = {} /\ Underway' = {}
  BY <1>1 DEF Live, Underway
<1>3. WellFormed(Live, {}, free, size, used, chunks)
  BY <1>2 DEF HeapInvariant
<1>4. WellFormed(Live \ {b}, {b}, free, size, used, chunks)
  BY <1>3, LettingGo
<1>5. WellFormed(Live \ {b}, {}, free', size', used', chunks')
  BY <1>1, <1>4, GivingBack
<1>6. \A a \in Live \ {b} : size'[a] = size[a]
  BY <1>1, <1>4, GivingBack
<1>7. \A a \in Live' : size'[a] = size[a] /\ asked'[a] = asked[a]
  BY <1>1, <1>2, <1>6
<1>8. asked' \in [Live' -> Requests]
  BY <1>1, <1>2 DEF HeapInvariant
<1>9. Snug'
  BY <1>2, <1>7 DEF Snug, HeapInvariant, align16
<1>10. HeapInvariant'
  BY <1>1, <1>2, <1>5, <1>8, <1>9 DEF HeapInvariant, MovesLive
<1>11. Undisturbed
  BY <1>7, SizeType DEF Undisturbed, Live
<1> QED
  BY <1>10, <1>11

LEMMA ReallocShrinkKeeps ==
  ASSUME HeapInvariant, NEW b \in Live, NEW n \in Requests, ReallocShrink(b, n)
  PROVE  HeapInvariant' /\ Undisturbed
<1> DEFINE need == align16(n)
           rest == size[b] - need
<1>1. /\ op = Idle /\ need <= size[b] /\ free' = free /\ chunks' = chunks
      /\ asked' = [asked EXCEPT ![b] = n]
  BY DEF ReallocShrink
<1>2. /\ b \in Addr /\ size[b] \in Nat /\ need \in Nat /\ need >= 2
      /\ rest \in Nat /\ need + rest = size[b]
  <2>1. size[b] \in Nat /\ b \in Addr /\ need \in Nat /\ need >= 2
    BY SizeType, AlignType, RequestType
  <2> HIDE DEF need
  <2> QED
    BY <1>1, <2>1
<1>3. WellFormed(Live, {}, free, size, used, chunks)
  BY <1>1, AtRest DEF HeapInvariant
<1>4. /\ Live' = Live /\ asked' \in [Live' -> Requests] /\ asked'[b] = n
      /\ \A a \in Live : a # b => asked'[a] = asked[a]
  BY <1>1 DEF Live, HeapInvariant
<1>5. CASE /\ rest >= 2
           /\ size' = [size EXCEPT ![b] = need, ![b + need] = rest]
           /\ used' = used \ {b + need}
           /\ op' = Releasing(b + need)
  <2>1. size' = Cut(size, b, need) /\ need + 2 <= size[b]
    BY <1>2, <1>5 DEF Cut
  <2> HIDE DEF need, rest
  <2>2. WellFormed(Live, {b + need}, free', size', used', chunks')
    <3>1. WellFormed(Live, {b + need}, free, Cut(size, b, need), used \ {b + need}, chunks)
      BY <1>2, <1>3, <2>1, Cutting
    <3> QED
      BY <1>1, <1>5, <2>1, <3>1
  <2>3. /\ b # b + need /\ b + need \notin Live /\ Live \subseteq Addr
        /\ size \in [Addr -> Nat]
    BY <1>3, <2>2 DEF WellFormed, Tiling
  <2>4. size'[b] = need /\ \A a \in Live : a # b => size'[a] = size[a]
    BY <1>2, <1>5, <2>3
  <2>5. b + need \in Addr
    BY <2>2 DEF WellFormed, Tiling
  <2>6. op' \in Ops /\ op' # Idle /\ op'.stage = "release" /\ op'.blk = b + need
    BY <1>5, <2>5, ReleasingType
  <2>7. Underway' = {b + need}
    BY <2>6 DEF Underway
  <2>8. Snug'
    <3> SUFFICES ASSUME NEW a \in Live PROVE size'[a] <= align16(asked'[a]) + 1
      BY <1>4 DEF Snug, align16
    <3>1. CASE a = b
      BY <1>2, <1>4, <2>4, <3>1 DEF need
    <3>2. CASE a # b
      BY <1>4, <2>4, <3>2 DEF HeapInvariant, Snug
    <3> QED
      BY <3>1, <3>2
  <2>9. HeapInvariant'
    BY <1>4, <2>2, <2>6, <2>7, <2>8 DEF HeapInvariant, MovesLive
  (* What is cut off was not asked for. *)
  <2>10. Undisturbed
    <3> SUFFICES ASSUME NEW a \in Live, asked'[a] = asked[a] PROVE size'[a] >= size[a]
      BY DEF Undisturbed
    <3>1. a # b
      <4>1. size[b] <= align16(asked[b]) + 1
        BY DEF HeapInvariant, Snug
      <4>2. a = b => size[b] <= need + 1
        BY <1>4, <4>1 DEF need
      <4> QED
        BY <1>2, <2>1, <4>2
    <3> QED
      BY <2>4, <3>1, SizeType
  <2> QED
    BY <2>9, <2>10
<1>6. CASE rest < 2 /\ size' = size /\ used' = used /\ op' = op
  <2>1. Underway' = {} /\ Underway = {}
    BY <1>1, <1>6 DEF Underway
  <2>2. size[b] <= need + 1
    BY <1>2, <1>6
  <2>3. Snug'
    <3> SUFFICES ASSUME NEW a \in Live PROVE size[a] <= align16(asked'[a]) + 1
      BY <1>4, <1>6 DEF Snug, align16
    <3>1. CASE a = b
      BY <1>4, <2>2, <3>1
    <3>2. CASE a # b
      BY <1>4, <3>2 DEF HeapInvariant, Snug
    <3> QED
      BY <3>1, <3>2
  <2>4. HeapInvariant'
    BY <1>1, <1>3, <1>4, <1>6, <2>1, <2>3 DEF HeapInvariant, MovesLive
  <2>5. Undisturbed
    BY <1>6, SizeType DEF Undisturbed
  <2> QED
    BY <2>4, <2>5
<1> QED
  BY <1>5, <1>6 DEF ReallocShrink

LEMMA ReallocExtendKeeps ==
  ASSUME HeapInvariant, NEW b \in Live, NEW n \in Requests, ReallocExtend(b, n)
  PROVE  HeapInvariant' /\ Undisturbed
<1> DEFINE need == align16(n)
           next == b + size[b]
           both == size[b] + size[next]
<1>1. /\ op = Idle /\ need > size[b] /\ chunks' = chunks
      /\ asked' = [asked EXCEPT ![b] = n]
  BY DEF ReallocExtend
<1>2. b \in Addr /\ size[b] \in Nat /\ need \in Nat /\ need >= 2
  BY SizeType, AlignType, RequestType
<1>3. WellFormed(Live, {}, free, size, used, chunks)
  BY <1>1, AtRest DEF HeapInvariant
<1>4. /\ Live' = Live /\ asked' \in [Live' -> Requests] /\ asked'[b] = n
      /\ \A a \in Live : a # b => asked'[a] = asked[a]
  BY <1>1 DEF Live, HeapInvariant
(* It is enough that b gets what it needs and the others keep their size. *)
<1>5. ASSUME size'[b] <= need + 1, \A a \in Live : a # b => size'[a] = size[a]
      PROVE  Snug'
  <2> SUFFICES ASSUME NEW a \in Live PROVE size'[a] <= align16(asked'[a]) + 1
    BY <1>4 DEF Snug, align16
  <2>1. CASE a = b
    BY <1>4, <1>5, <2>1
  <2>2. CASE a # b
    BY <1>4, <1>5, <2>2 DEF HeapInvariant, Snug
  <2> QED
    BY <2>1, <2>2
<1>6. ASSUME size'[b] >= size[b], \A a \in Live : a # b => size'[a] = size[a]
      PROVE  Undisturbed
  <2> SUFFICES ASSUME NEW a \in Live PROVE size'[a] >= size[a]
    BY DEF Undisturbed
  <2> QED
    BY <1>6, SizeType
<1>7. ASSUME both >= need, NEW i \in 1..Len(free), free[i] = next, free' = RemoveAt(free, i),
             \/ /\ both - need >= 2
                /\ size' = [size EXCEPT ![b] = need, ![b + need] = both - need]
                /\ used' = used \ {b + need}
                /\ op' = Releasing(b + need)
             \/ both - need < 2 /\ size' = [size EXCEPT ![b] = both] /\ used' = used /\ op' = op
      PROVE  HeapInvariant' /\ Undisturbed
  <2> DEFINE mid == Joined(size, b, next)
  <2>1. next = b + size[b]
    OBVIOUS
  <2>2. /\ next \in Addr /\ size \in [Addr -> Nat] /\ Live \subseteq Addr
        /\ both = size[b] + size[next] /\ both \in Nat
    <3>1. size \in [Addr -> Nat] /\ free \in Seq(Addr) /\ Live \subseteq Addr
      BY <1>3 DEF WellFormed, Tiling
    <3>2. next \in Addr
      BY <1>7, <3>1
    <3> HIDE DEF next
    <3> QED
      BY <1>2, <3>1, <3>2
  <2> HIDE DEF next, both, need
  <2>3. WellFormed(Live, {}, RemoveAt(free, i), mid, used, chunks)
    BY <1>3, <1>7, <2>1, Absorbing
  <2>4. mid \in [Addr -> Nat] /\ mid[b] = both /\ mid = [size EXCEPT ![b] = both]
    BY <1>2, <2>2 DEF Joined
  <2> HIDE DEF mid
  <2>5. CASE /\ both - need >= 2
             /\ size' = [size EXCEPT ![b] = need, ![b + need] = both - need]
             /\ used' = used \ {b + need}
             /\ op' = Releasing(b + need)
    <3>1. size' = Cut(mid, b, need)
      BY <2>4, <2>5 DEF Cut
    <3>2. need + 2 <= mid[b]
      BY <1>2, <2>2, <2>4, <2>5
    <3>3. WellFormed(Live, {b + need}, RemoveAt(free, i), Cut(mid, b, need), used \ {b + need}, chunks)
      BY <1>2, <2>3, <3>2, Cutting
    <3>4. WellFormed(Live, {b + need}, free', size', used', chunks')
      BY <1>1, <1>7, <2>5, <3>1, <3>3
    <3>5. b + need \in Addr /\ b # b + need /\ b + need \notin Live
      BY <3>4 DEF WellFormed, Tiling
    <3>6. size'[b] = need /\ \A a \in Live : a # b => size'[a] = size[a]
      BY <1>2, <2>2, <2>5, <3>5
    <3>7. op' \in Ops /\ op' # Idle /\ op'.stage = "release" /\ op'.blk = b + need
      BY <2>5, <3>5, ReleasingType
    <3>8. Underway' = {b + need}
      BY <3>7 DEF Underway
    <3>9. Snug' /\ Undisturbed
      BY <1>1, <1>2, <1>5, <1>6, <3>6
    <3> QED
      BY <1>4, <3>4, <3>7, <3>8, <3>9 DEF HeapInvariant, MovesLive
  <2>6. CASE both - need < 2 /\ size' = [size EXCEPT ![b] = both] /\ used' = used /\ op' = op
    <3>1. WellFormed(Live, {}, free', size', used', chunks')
      BY <1>1, <1>7, <2>3, <2>4, <2>6
    <3>2. size'[b] = both /\ \A a \in Live : a # b => size'[a] = size[a]
      BY <1>2, <2>2, <2>6
    <3>3. both <= need + 1 /\ both >= size[b]
      BY <1>1, <1>2, <1>7, <2>2, <2>6
    <3>4. Snug' /\ Undisturbed
      BY <1>5, <1>6, <3>2, <3>3
    <3>5. Underway' = {}
      BY <1>1, <2>6 DEF Underway
    <3> QED
      BY <1>1, <1>4, <2>6, <3>1, <3>4, <3>5 DEF HeapInvariant, MovesLive
  <2> QED
    BY <1>7, <2>5, <2>6
<1>8. CASE free' = free /\ size' = size /\ used' = used /\ op' = op
  <2>1. Underway' = {} /\ Underway = {}
    BY <1>1, <1>8 DEF Underway
  <2>2. size'[b] <= need + 1 /\ size'[b] >= size[b]
    BY <1>1, <1>2, <1>8
  <2>3. Snug' /\ Undisturbed
    BY <1>5, <1>6, <1>8, <2>2
  <2> QED
    BY <1>1, <1>3, <1>4, <1>8, <2>1, <2>3 DEF HeapInvariant, MovesLive
<1>9. \/ \E i \in 1..Len(free) : free[i] = next /\ both >= need /\ free' = RemoveAt(free, i) /\
          (\/ /\ both - need >= 2
              /\ size' = [size EXCEPT ![b] = need, ![b + need] = both - need]
              /\ used' = used \ {b + need}
              /\ op' = Releasing(b + need)
           \/ both - need < 2 /\ size' = [size EXCEPT ![b] = both] /\ used' = used /\ op' = op)
      \/ free' = free /\ size' = size /\ used' = used /\ op' = op
  <2> HIDE DEF need
  <2> QED
    BY DEF ReallocExtend, heapVars, need
<1> QED
  BY <1>7, <1>8, <1>9

LEMMA ReallocMoveKeeps ==
  ASSUME HeapInvariant, NEW b \in Live, NEW n \in Requests, ReallocMove(b, n)
  PROVE  HeapInvariant' /\ Undisturbed
<1>1. /\ op = Idle /\ op' = Allocating(n, b) /\ free' = free /\ size' = size /\ used' = used
      /\ chunks' = chunks /\ asked' = asked
  BY DEF ReallocMove, heapVars
<1>2. b \in Addr
  BY SizeType
<1>3. op' \in Ops /\ op' # Idle /\ op'.stage = "alloc" /\ op'.old = b
  BY <1>1, <1>2, AllocatingType
<1>4. Underway = {} /\ Underway' = {} /\ Live' = Live
  BY <1>1, <1>3 DEF Underway, Live
<1>5. HeapInvariant'
  BY <1>1, <1>3, <1>4 DEF HeapInvariant, WellFormed, MovesLive, Snug
<1>6. Undisturbed
  BY <1>1, SizeType DEF Undisturbed
<1> QED
  BY <1>5, <1>6

-----------------------------------------------------------------------------
(* The rest of a call *)

LEMMA AllocFromListKeeps ==
  ASSUME HeapInvariant, AllocFromList
  PROVE  HeapInvariant' /\ Undisturbed
<1> DEFINE n == op.bytes
           need == align16(n)
<1>1. op # Idle /\ op.stage = "alloc" /\ chunks' = chunks
  BY DEF AllocFromList
<1>2. n \in Requests /\ op.old \in Addr \cup {0} /\ Underway = {} /\ op.old \in Live \cup {0}
  BY <1>1, CallType DEF HeapInvariant, MovesLive
<1>3. need \in Nat /\ need >= 2
  BY <1>2, AlignType, RequestType
<1> HIDE DEF need, n
<1> DEFINE Taken(i, blk) ==
             /\ size[free[i]] >= need
             /\ TakeFrom(i, need, blk)
             /\ \/ /\ op.old = 0
                   /\ asked' = Hold(asked, blk, n)
                   /\ op' = Idle
                \/ /\ op.old # 0
                   /\ asked' = Hold(Forget(op.old), blk, n)
                   /\ op' = Releasing(op.old)
<1>0. PICK i \in 1..Len(free) : \E blk : Taken(i, blk)
  BY DEF AllocFromList, FirstFit, need, n
<1>4. PICK blk : Taken(i, blk)
  BY <1>0
<1>5. WellFormed(Live, {}, free, size, used, chunks)
  BY <1>2 DEF HeapInvariant
<1>6. WellFormed(Live \cup {blk}, {}, free', size', used', chunks')
  BY <1>1, <1>3, <1>4, <1>5, Taking
<1>7. blk \notin Live
  BY <1>1, <1>3, <1>4, <1>5, Taking
<1>8. \A a \in Live : size'[a] = size[a]
  BY <1>1, <1>3, <1>4, <1>5, Taking
<1>9. size'[blk] <= need + 1
  BY <1>1, <1>3, <1>4, <1>5, Taking
<1>10. Undisturbed
  BY <1>8, SizeType DEF Undisturbed
<1>11. CASE op.old = 0 /\ asked' = Hold(asked, blk, n) /\ op' = Idle
  <2>1. /\ Live' = Live \cup {blk} /\ asked' \in [Live' -> Requests]
        /\ asked'[blk] = n /\ \A a \in Live : asked'[a] = asked[a]
    BY <1>2, <1>7, <1>11 DEF Live, Hold, HeapInvariant
  <2>2. Underway' = {}
    BY <1>11 DEF Underway
  <2>3. Snug'
    <3> SUFFICES ASSUME NEW a \in Live \cup {blk} PROVE size'[a] <= align16(asked'[a]) + 1
      BY <2>1 DEF Snug, align16
    <3>1. CASE a = blk
      BY <1>9, <2>1, <3>1 DEF need
    <3>2. CASE a \in Live
      BY <1>8, <2>1, <3>2 DEF HeapInvariant, Snug
    <3> QED
      BY <3>1, <3>2
  <2>4. HeapInvariant'
    BY <1>6, <1>11, <2>1, <2>2, <2>3 DEF HeapInvariant, MovesLive
  <2> QED
    BY <1>10, <2>4
<1>12. CASE op.old # 0 /\ asked' = Hold(Forget(op.old), blk, n) /\ op' = Releasing(op.old)
  <2> DEFINE old == op.old
  <2>1. old \in Live /\ old \in Addr /\ old # blk
    BY <1>2, <1>7, <1>12, SizeType
  <2> HIDE DEF old
  <2>2. asked' = Hold(Forget(old), blk, n) /\ op' = Releasing(old)
    BY <1>12 DEF old
  <2>3. /\ Live' = (Live \cup {blk}) \ {old} /\ asked' \in [Live' -> Requests]
        /\ asked'[blk] = n /\ \A a \in Live' : a # blk => a \in Live /\ asked'[a] = asked[a]
    BY <1>2, <1>7, <2>1, <2>2 DEF Live, Hold, Forget, HeapInvariant
  <2>4. WellFormed((Live \cup {blk}) \ {old}, {old}, free', size', used', chunks')
    BY <1>6, <2>1, LettingGo
  <2>5. op' \in Ops /\ op' # Idle /\ op'.stage = "release" /\ op'.blk = old
    BY <2>1, <2>2, ReleasingType
  <2>6. Underway' = {old}
    BY <2>5 DEF Underway
  <2>7. Snug'
    <3> SUFFICES ASSUME NEW a \in Live' PROVE size'[a] <= align16(asked'[a]) + 1
      BY DEF Snug, align16
    <3>1. CASE a = blk
      BY <1>9, <2>3, <3>1 DEF need
    <3>2. CASE a # blk
      BY <1>8, <2>3, <3>2 DEF HeapInvariant, Snug
    <3> QED
      BY <3>1, <3>2
  <2>8. HeapInvariant'
    BY <2>3, <2>4, <2>5, <2>6, <2>7 DEF HeapInvariant, MovesLive
  <2> QED
    BY <1>10, <2>8
<1> QED
  BY <1>4, <1>11, <1>12

LEMMA RefillKeeps ==
  ASSUME HeapInvariant, Refill
  PROVE  HeapInvariant' /\ Undisturbed
<1>1. /\ op # Idle /\ op.stage = "alloc" /\ asked' = asked /\ op' = op
  BY DEF Refill
<1>2. Underway = {} /\ Underway' = {} /\ Live' = Live
  BY <1>1, CallType DEF Underway, Live, HeapInvariant
<1>3. PICK c \in Bases \ chunks :
         /\ chunks' = chunks \cup {c}
         /\ size' = Made(size, c)
         /\ used' = used \cup {c + Usable}
         /\ free' = <<c>> \o free
  BY DEF Refill, Made
<1>4. WellFormed(Live, {}, free, size, used, chunks)
  BY <1>2 DEF HeapInvariant
<1>5. WellFormed(Live, {}, <<c>> \o free, Made(size, c), used \cup {c + Usable}, chunks \cup {c})
  BY <1>4, Growing
<1>6. \A a \in Live : size'[a] = size[a]
  BY <1>3, <1>4, <1>5, Growing
<1>7. HeapInvariant'
  BY <1>1, <1>2, <1>3, <1>5, <1>6 DEF HeapInvariant, MovesLive, Snug, align16
<1>8. Undisturbed
  BY <1>6, SizeType DEF Undisturbed
<1> QED
  BY <1>7, <1>8

LEMMA OutOfMemoryKeeps ==
  ASSUME HeapInvariant, OutOfMemory
  PROVE  HeapInvariant' /\ Undisturbed
<1>1. /\ op # Idle /\ op.stage = "alloc" /\ op' = Idle /\ free' = free /\ size' = size
      /\ used' = used /\ chunks' = chunks /\ asked' = asked
  BY DEF OutOfMemory, heapVars
<1>2. Underway = {} /\ Underway' = {} /\ Live' = Live
  BY <1>1, CallType DEF Underway, Live, HeapInvariant
<1>3. HeapInvariant'
  BY <1>1, <1>2 DEF HeapInvariant, WellFormed, MovesLive, Snug
<1>4. Undisturbed
  BY <1>1, SizeType DEF Undisturbed
<1> QED
  BY <1>3, <1>4

LEMMA ReleaseKeeps ==
  ASSUME HeapInvariant, Release
  PROVE  HeapInvariant' /\ Undisturbed
<1>1. /\ op # Idle /\ op.stage = "release" /\ heap_free(op.blk)
      /\ op' = Idle /\ chunks' = chunks /\ asked' = asked
  BY DEF Release
<1>2. Underway = {op.blk} /\ Underway' = {} /\ Live' = Live
  BY <1>1, CallType DEF Underway, Live, HeapInvariant
<1>3. WellFormed(Live, {op.blk}, free, size, used, chunks)
  BY <1>2 DEF HeapInvariant
<1>4. WellFormed(Live, {}, free', size', used', chunks')
  BY <1>1, <1>3, GivingBack
<1>5. \A a \in Live : size'[a] = size[a]
  BY <1>1, <1>3, GivingBack
<1>6. HeapInvariant'
  BY <1>1, <1>2, <1>4, <1>5 DEF HeapInvariant, MovesLive, Snug, align16
<1>7. Undisturbed
  BY <1>5, SizeType DEF Undisturbed
<1> QED
  BY <1>6, <1>7

-----------------------------------------------------------------------------
LEMMA StepKeeps ==
  ASSUME HeapInvariant, [Next]_vars
  PROVE  HeapInvariant' /\ (Undisturbed \/ UNCHANGED vars)
<1>1. CASE \E n \in Requests : Malloc(n)
  BY <1>1, MallocKeeps
<1>2. CASE \E b \in Live : Free(b)
  BY <1>2, FreeKeeps
<1>3. CASE \E b \in Live, n \in Requests : ReallocShrink(b, n)
  BY <1>3, ReallocShrinkKeeps
<1>4. CASE \E b \in Live, n \in Requests : ReallocExtend(b, n)
  BY <1>4, ReallocExtendKeeps
<1>5. CASE \E b \in Live, n \in Requests : ReallocMove(b, n)
  BY <1>5, ReallocMoveKeeps
<1>6. CASE AllocFromList
  BY <1>6, AllocFromListKeeps
<1>7. CASE Refill
  BY <1>7, RefillKeeps
<1>8. CASE OutOfMemory
  BY <1>8, OutOfMemoryKeeps
<1>9. CASE Release
  BY <1>9, ReleaseKeeps
<1>10. CASE UNCHANGED vars
  BY <1>10 DEF HeapInvariant, WellFormed, MovesLive, Snug, Live, Underway, vars
<1> QED
  BY <1>1, <1>2, <1>3, <1>4, <1>5, <1>6, <1>7, <1>8, <1>9, <1>10 DEF Next, Call, Work

(* The heap is well formed whatever the program calls and mmap answers. *)
THEOREM HeapWellFormed == Spec => []HeapInvariant
<1>1. Init => HeapInvariant
  BY HeapInit
<1>2. HeapInvariant /\ [Next]_vars => HeapInvariant'
  BY StepKeeps
<1> QED
  BY <1>1, <1>2, PTL DEF Spec

LEMMA InvariantMeans ==
  ASSUME HeapInvariant
  PROVE  ChunksTiled /\ BlocksDisjoint /\ BitIsTruth
<1>1. Listed = Elements(free) /\ Guards = Behind(chunks)
  BY DEF Listed, Elements, Guards, Behind
<1>2. /\ Tiling(Blocks, size, chunks) /\ Distinct(free)
      /\ Live \cup Guards \subseteq used /\ Listed \cap used = {}
      /\ Live \cap Underway = {} /\ Listed \cap Underway = {}
  BY <1>1 DEF HeapInvariant, WellFormed, Blocks
<1>3. ChunksTiled
  BY <1>1, <1>2 DEF ChunksTiled, Tiling, Followed
<1>4. BlocksDisjoint
  BY <1>1, <1>2 DEF BlocksDisjoint, Tiling, Apart
<1>5. BitIsTruth
  BY <1>2 DEF BitIsTruth, Distinct
<1> QED
  BY <1>3, <1>4, <1>5

(* heap_free and heap_realloc always find a header where they look for the  *)
(* next block, and never look outside a chunk.                              *)
THEOREM ChunksAlwaysTiled == Spec => []ChunksTiled
<1>1. HeapInvariant => ChunksTiled
  BY InvariantMeans
<1> QED
  BY <1>1, HeapWellFormed, PTL

(* heap_malloc and heap_realloc never hand out memory that is in use.       *)
THEOREM BlocksAlwaysDisjoint == Spec => []BlocksDisjoint
<1>1. HeapInvariant => BlocksDisjoint
  BY InvariantMeans
<1> QED
  BY <1>1, HeapWellFormed, PTL

(* Bit 0 of a header says whether the block is free, and a block that is    *)
(* merged is unlinked once.                                                 *)
THEOREM BitAlwaysTruth == Spec => []BitIsTruth
<1>1. HeapInvariant => BitIsTruth
  BY InvariantMeans
<1> QED
  BY <1>1, HeapWellFormed, PTL

(* No call of the allocator moves or shrinks a block of another call.       *)
THEOREM OthersKeepTheirBlocks == Spec => OthersUndisturbed
<1>1. HeapInvariant /\ [Next]_vars =>
        [\A b \in Live : b \in DOMAIN asked' /\ asked'[b] = asked[b] => size'[b] >= size[b]]_vars
  BY StepKeeps DEF Undisturbed
<1> QED
  BY <1>1, HeapWellFormed, PTL DEF Spec, OthersUndisturbed

(* Where the bit of the next block is clear, unlink_free finds that block   *)
(* on the list, unless it is the block that is being freed.                 *)
FreeNeighbourListed ==
  \A b \in Blocks : b + size[b] \notin used => b + size[b] \in Listed \cup Underway

(* A merge always finds the block it takes off the list.                    *)
THEOREM MergesFindTheirBlock == Spec => []FreeNeighbourListed
<1>1. HeapInvariant => FreeNeighbourListed
  BY InvariantMeans DEF FreeNeighbourListed, ChunksTiled, BitIsTruth, Blocks
<1> QED
  BY <1>1, HeapWellFormed, PTL

-----------------------------------------------------------------------------
(* What was asked for *)

(* No request comes so near to the top of the word that align16 wraps.      *)
RequestsFit == \A n \in Requests : n + 31 < Word

(* heap_realloc returns the old block though it is too small and what is    *)
(* behind it is free, but not enough.                                       *)
GivesUp == \E b \in Live, n \in Requests : ReallocExtend(b, n) /\ UNCHANGED size

LEMMA AlignFits ==
  ASSUME NEW n \in Nat, n + 31 < Word, NEW k \in Nat, align16(n) <= k
  PROVE  n <= (k - 1) * 16
<1>1. (n + 31) % Word = n + 31
  BY ChunkAssumption
<1>2. (n + 31) \div 16 <= k
  BY <1>1 DEF align16
<1> QED
  BY <1>2

(* A block that a step hands out anew has the room it was asked for.        *)
LEMMA HandedOut ==
  ASSUME HeapInvariant, RequestsFit, RoomAsAsked, Undisturbed, HeapInvariant',
         NEW b, NEW n \in Requests,
         \A c \in Live' : c # b => c \in Live /\ asked'[c] = asked[c],
         b \in Live' => asked'[b] = n /\ align16(n) <= size'[b]
  PROVE  RoomAsAsked'
<1> SUFFICES ASSUME NEW c \in Live' PROVE asked'[c] <= (size'[c] - 1) * 16
  BY DEF RoomAsAsked
<1>1. size'[c] \in Nat
  BY DEF HeapInvariant, WellFormed, Tiling
<1>2. CASE c = b
  BY <1>1, <1>2, AlignFits, RequestType DEF RequestsFit
<1>3. CASE c # b
  <2>1. c \in Live /\ c \in DOMAIN asked' /\ asked'[c] = asked[c]
    BY <1>3 DEF Live
  <2>2. size'[c] >= size[c] /\ asked[c] <= (size[c] - 1) * 16
    BY <2>1 DEF Undisturbed, RoomAsAsked
  <2> QED
    BY <1>1, <2>1, <2>2, SizeType
<1> QED
  BY <1>2, <1>3

LEMMA NothingHandedOut ==
  ASSUME HeapInvariant, RoomAsAsked, Undisturbed, HeapInvariant',
         \A c \in Live' : c \in Live /\ asked'[c] = asked[c]
  PROVE  RoomAsAsked'
<1> SUFFICES ASSUME NEW c \in Live' PROVE asked'[c] <= (size'[c] - 1) * 16
  BY DEF RoomAsAsked
<1>1. size'[c] \in Nat /\ c \in Live /\ c \in DOMAIN asked' /\ asked'[c] = asked[c]
  BY DEF HeapInvariant, WellFormed, Tiling, Live
<1>2. size'[c] >= size[c] /\ asked[c] <= (size[c] - 1) * 16
  BY <1>1 DEF Undisturbed, RoomAsAsked
<1> QED
  BY <1>1, <1>2, SizeType

LEMMA AllocatedRoom ==
  ASSUME HeapInvariant, AllocFromList
  PROVE  \E blk : \E n \in Requests :
           /\ \A c \in Live' : c # blk => c \in Live /\ asked'[c] = asked[c]
           /\ asked'[blk] = n /\ align16(n) <= size'[blk]
<1> DEFINE n == op.bytes
           need == align16(n)
           Taken(i, blk) ==
             /\ size[free[i]] >= need
             /\ TakeFrom(i, need, blk)
             /\ asked' \in {Hold(asked, blk, n), Hold(Forget(op.old), blk, n)}
<1>1. op # Idle /\ op.stage = "alloc" /\ chunks' = chunks
  BY DEF AllocFromList
<1>2. n \in Requests /\ Underway = {}
  BY <1>1, CallType DEF HeapInvariant
<1>3. need \in Nat /\ need >= 2
  BY <1>2, AlignType, RequestType
<1>4. WellFormed(Live, {}, free, size, used, chunks)
  BY <1>2 DEF HeapInvariant
<1>5. PICK i \in 1..Len(free) : \E blk : Taken(i, blk)
  BY DEF AllocFromList, FirstFit
<1>6. PICK blk : Taken(i, blk)
  BY <1>5
<1> HIDE DEF need, n
<1>7. need <= size'[blk]
  BY <1>1, <1>3, <1>4, <1>6, Taking
<1>8. /\ \A c \in Live' : c # blk => c \in Live /\ asked'[c] = asked[c]
      /\ asked'[blk] = n
  BY <1>6 DEF Hold, Forget, Live
<1> QED
  BY <1>2, <1>7, <1>8 DEF need

(* heap_realloc merges a block with the next one only when both together    *)
(* are enough.                                                              *)
LEMMA ExtendedRoom ==
  ASSUME NEW b \in Addr, NEW n \in Requests, ReallocExtend(b, n), size' # size,
         size \in [Addr -> Nat]
  PROVE  align16(n) <= size'[b]
<1> DEFINE need == align16(n)
           both == size[b] + size[b + size[b]]
<1>1. need \in Nat /\ need >= 2 /\ b # b + need
  BY AlignType, RequestType, AddrType
<1> HIDE DEF need
<1>2. \/ both >= need /\ \/ size' = [size EXCEPT ![b] = need, ![b + need] = both - need]
                         \/ size' = [size EXCEPT ![b] = both]
      \/ free' = free /\ size' = size /\ used' = used
  BY DEF ReallocExtend, heapVars, need
<1> QED
  BY <1>1, <1>2 DEF need

LEMMA ResizedRoom ==
  ASSUME HeapInvariant, HeapInvariant', NEW b \in Live, NEW n \in Requests,
         ReallocShrink(b, n) \/ ReallocExtend(b, n), ~GivesUp
  PROVE  /\ \A c \in Live' : c # b => c \in Live /\ asked'[c] = asked[c]
         /\ asked'[b] = n /\ align16(n) <= size'[b]
<1> DEFINE need == align16(n)
<1>1. /\ b \in Addr /\ b \in Nat /\ size[b] \in Nat /\ need \in Nat /\ need >= 2
      /\ size \in [Addr -> Nat]
  BY SizeType, AlignType, RequestType DEF HeapInvariant, WellFormed
<1>2. asked' = [asked EXCEPT ![b] = n]
  BY DEF ReallocShrink, ReallocExtend
<1>3. /\ \A c \in Live' : c # b => c \in Live /\ asked'[c] = asked[c]
      /\ asked'[b] = n
  BY <1>2 DEF Live
<1> HIDE DEF need
<1>4. b # b + need
  BY <1>1
<1>5. CASE ReallocShrink(b, n)
  <2>1. need <= size[b] /\ (size' = size \/ size' = [size EXCEPT ![b] = need, ![b + need] = size[b] - need])
    BY <1>5 DEF ReallocShrink, need
  <2> QED
    BY <1>1, <1>3, <1>4, <2>1 DEF need
<1>6. CASE ReallocExtend(b, n)
  <2>1. size' # size
    BY <1>6 DEF GivesUp
  <2> QED
    BY <1>1, <1>3, <1>6, <2>1, ExtendedRoom
<1> QED
  BY <1>5, <1>6

(***************************************************************************)
(* Whatever heap_malloc and heap_realloc hand out has the room that was    *)
(* asked for and keeps it, and the one step that breaks this is            *)
(* heap_realloc next to a free block that is too small (heap.qu:176).      *)
(***************************************************************************)
RoomIsKept == [][RoomAsAsked /\ ~GivesUp => RoomAsAsked']_vars

(* The room of every block is kept, whatever the calls and wherever mmap    *)
(* puts the chunks, unless that step is taken.                              *)
THEOREM RoomKeptUnlessGivenUp == ASSUME RequestsFit PROVE Spec => RoomIsKept
<1>1. HeapInvariant /\ [Next]_vars => [RoomAsAsked /\ ~GivesUp => RoomAsAsked']_vars
  <2> SUFFICES ASSUME HeapInvariant, Next, RoomAsAsked, ~GivesUp, vars' # vars
               PROVE  RoomAsAsked'
    OBVIOUS
  <2>1. HeapInvariant' /\ Undisturbed
    BY StepKeeps
  <2>2. CASE AllocFromList
    BY <2>1, <2>2, AllocatedRoom, HandedOut
  <2>3. ASSUME NEW b \in Live, NEW n \in Requests, ReallocShrink(b, n) \/ ReallocExtend(b, n)
        PROVE  RoomAsAsked'
    BY <2>1, <2>3, ResizedRoom, HandedOut
  <2>4. CASE UNCHANGED asked
    BY <2>1, <2>4, NothingHandedOut DEF Live
  <2>5. ASSUME NEW b \in Live, Free(b) PROVE RoomAsAsked'
    <3>1. \A c \in Live' : c \in Live /\ asked'[c] = asked[c]
      BY <2>5 DEF Free, Forget, Live
    <3> QED
      BY <2>1, <3>1, NothingHandedOut
  <2> QED
    BY <2>2, <2>3, <2>4, <2>5 DEF Next, Call, Work, Malloc, ReallocMove, Refill, OutOfMemory, Release
<1> QED
  BY <1>1, HeapWellFormed, PTL DEF Spec, RoomIsKept

(* Nothing is short of room as long as that step is not taken.              *)
THEOREM RoomWhileNotGivenUp ==
  ASSUME RequestsFit
  PROVE  Spec /\ [][~GivesUp]_vars => []RoomAsAsked
<1>1. Init => RoomAsAsked
  BY DEF Init, RoomAsAsked, Live
<1>2. RoomAsAsked /\ [RoomAsAsked /\ ~GivesUp => RoomAsAsked']_vars /\ [~GivesUp]_vars => RoomAsAsked'
  BY DEF RoomAsAsked, Live, vars
<1> QED
  BY <1>1, <1>2, RoomKeptUnlessGivenUp, PTL DEF Spec, RoomIsKept
=============================================================================
