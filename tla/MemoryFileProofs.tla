-------------------------- MODULE MemoryFileProofs --------------------------
(***************************************************************************)
(* Proofs that the chunks are one file, for every size and number of       *)
(* chunks and every virtual start.                                         *)
(***************************************************************************)
EXTENDS MemoryFile, FiniteSetTheorems, TLAPS

(* What the theorems assume of clients and failures.  A hole that begins   *)
(* inside a chunk shortens it (mxf_memory_file.c:236), chunks allocated    *)
(* before one that cannot be stay in the list, and a target that takes a   *)
(* part of a chunk is not noticed: each is a mistake of the code's.        *)
HolesBeginAtChunks == "any_hole" \notin Calls
NoChunkIsLeft      == "malloc" \notin Failures
TargetTakesAll     == "short" \notin Failures

(* A call that could not extend the file as far as it had to and leaves    *)
(* the chunks that it did get in the list (mxf_memory_file.c:131).         *)
LeavesChunks == \E count \in 1 .. MaxCount : ExtendFails(count) /\ chunks' # chunks

(* The bytes of chunk i when t bytes are spread over chunks in order.      *)
Fill(t, i) == Larger(0, Smaller(t - ChunkSize * i, ChunkSize))

(* Position p is in chunk i.                                               *)
InChunk(p, i) == ChunkSize * i <= p /\ p < ChunkSize * i + ChunkSize

(* chs are n chunks of a new file, the first t bytes of which are used.    *)
Level(chs, n, t) ==
    /\ n \in Nat /\ t \in 0 .. ChunkSize * n
    /\ chs = [i \in 0 .. n - 1 |-> chs[i]]
    /\ \A i \in 0 .. n - 1 :
          /\ chs[i] = [allocSize |-> ChunkSize, size |-> chs[i].size, data |-> chs[i].data]
          /\ chs[i].size = Fill(t, i)
          /\ chs[i].data \in [0 .. ChunkSize - 1 -> Bytes]

(* chs is the one chunk, of n bytes, that a client has given.              *)
Single(chs, t) ==
    /\ t \in Nat
    /\ chs = [i \in {0} |-> chs[0]]
    /\ chs[0] = [allocSize |-> t, size |-> t, data |-> chs[0].data]
    /\ chs[0].data \in [0 .. t - 1 -> Bytes]

Count(chs) == IF chs = <<>> THEN 0 ELSE 1 + CHOOSE i \in DOMAIN chs : \A j \in DOMAIN chs : j <= i
Sum(chs) == FoldFunction(+, 0, [i \in DOMAIN chs |-> chs[i].size])

-----------------------------------------------------------------------------
(* A sum, in whatever order it is taken, is what a function says that adds *)
(* one element after the other.                                            *)
LEMMA SumIs ==
    ASSUME NEW S, IsFiniteSet(S), NEW f \in [S -> Nat], NEW G \in [SUBSET S -> Nat],
           G[{}] = 0,
           \A s \in SUBSET S : \A x \in s : G[s] = f[x] + G[s \ {x}]
    PROVE  FoldFunction(+, 0, f) = G[S]
  <1> DEFINE first(s) == CHOOSE x \in s : TRUE
             Sums(g) == g = [s \in SUBSET S |-> IF s = {} THEN 0 ELSE f[first(s)] + g[s \ {first(s)}]]
             iter == CHOOSE g : Sums(g)
             wrong == {s \in SUBSET S : iter[s] # G[s]}
  <1>1. FoldFunction(+, 0, f) = iter[S]
    BY DEF FoldFunction, FoldFunctionOnSet, MapThenFoldSet
  <1>2. \A s \in SUBSET S : s # {} => first(s) \in s
    OBVIOUS
  <1> HIDE DEF first
  <1>3. Sums(G)
    BY <1>2
  <1>4. Sums(iter)
    <2> HIDE DEF Sums
    <2> QED BY <1>3
  <1> HIDE DEF iter
  <1>5. wrong = {}
    <2> SUFFICES ASSUME wrong # {} PROVE FALSE
      OBVIOUS
    <2>1. IsWellFoundedOn(StrictSubsetOrdering(S), SUBSET S)
      BY FS_StrictSubsetOrderingWellFounded, FS_FiniteSubsetsOfFinite
    <2>2. wrong \subseteq SUBSET S
      OBVIOUS
    <2>3. PICK s \in wrong : \A r \in wrong : <<r, s>> \notin StrictSubsetOrdering(S)
      <3> HIDE DEF wrong
      <3> QED BY <2>1, <2>2, WFMin
    <2>4. s # {}
      BY <1>4
    <2> DEFINE x == first(s)
    <2>5. x \in s /\ iter[s] = f[x] + iter[s \ {x}]
      BY <1>2, <1>4, <2>4
    <2>6. G[s] = f[x] + G[s \ {x}]
      BY <2>5
    <2>7. s \ {x} \in wrong
      BY <2>5, <2>6
    <2>8. <<s \ {x}, s>> \in StrictSubsetOrdering(S)
      BY <2>5 DEF StrictSubsetOrdering
    <2> QED BY <2>3, <2>7, <2>8
  <1> QED BY <1>1, <1>5

-----------------------------------------------------------------------------
(* Positions and chunks.                                                   *)
LEMMA Product == \A i \in Nat : ChunkSize * i \in Nat
  BY MemoryFileAssumption

LEMMA Order == \A i, j \in Nat : i < j => ChunkSize * i + ChunkSize <= ChunkSize * j
  <1> SUFFICES ASSUME NEW i \in Nat, NEW j \in Nat, i < j
               PROVE  ChunkSize * i + ChunkSize <= ChunkSize * j
    OBVIOUS
  <1>1. ChunkSize * (j - i - 1) >= 0
    BY MemoryFileAssumption
  <1>2. ChunkSize * j = ChunkSize * i + ChunkSize + ChunkSize * (j - i - 1)
    BY MemoryFileAssumption
  <1>3. ChunkSize * i \in Int /\ ChunkSize * j \in Int /\ ChunkSize * (j - i - 1) \in Int
    BY MemoryFileAssumption
  <1> QED BY <1>1, <1>2, <1>3, MemoryFileAssumption

LEMMA OneMore == \A i \in Nat : ChunkSize * (i + 1) = ChunkSize * i + ChunkSize
  BY MemoryFileAssumption

LEMMA ChunkOf ==
    ASSUME NEW p \in Nat
    PROVE  p \div ChunkSize \in Nat /\ InChunk(p, p \div ChunkSize)
  BY MemoryFileAssumption DEF InChunk

LEMMA OneChunk ==
    ASSUME NEW p \in Nat, NEW i \in Nat, InChunk(p, i)
    PROVE  p \div ChunkSize = i
  <1> DEFINE d == p \div ChunkSize
  <1>1. d \in Nat /\ InChunk(p, d)
    BY ChunkOf
  <1> HIDE DEF d
  <1>2. ~(d < i) /\ ~(i < d)
    BY <1>1, Order, Product, MemoryFileAssumption DEF InChunk
  <1>3. d = i
    BY <1>1, <1>2
  <1> QED BY <1>3 DEF d

(* get_chunk_pos finds the chunk of a position, or the end of the last one.*)
LEMMA Finding ==
    ASSUME NEW n \in Nat, NEW p \in Nat, NEW i \in Nat, InChunk(p, i)
    PROVE  /\ i < n => IndexAt(p, n) = i /\ OffsetAt(p, n) = p - ChunkSize * i
           /\ n > 0 /\ i >= n =>
                 IndexAt(p, n) = n - 1 /\ OffsetAt(p, n) = p - ChunkSize * (n - 1)
  <1>1. p \div ChunkSize = i
    BY OneChunk
  <1> QED BY <1>1 DEF IndexAt, OffsetAt, Smaller

LEMMA FillIs ==
    ASSUME NEW t \in Nat, NEW i \in Nat
    PROVE  /\ Fill(t, i) \in 0 .. ChunkSize
           /\ t >= ChunkSize * i + ChunkSize => Fill(t, i) = ChunkSize
           /\ InChunk(t, i) => Fill(t, i) = t - ChunkSize * i
           /\ t <= ChunkSize * i => Fill(t, i) = 0
           /\ t >= ChunkSize * i => ChunkSize * i + Fill(t, i) <= t
  BY Product, MemoryFileAssumption DEF Fill, Larger, Smaller, InChunk

LEMMA FillGrows ==
    ASSUME NEW t \in Nat, NEW u \in Nat, t <= u, NEW i \in Nat, Fill(t, i) = ChunkSize
    PROVE  Fill(u, i) = ChunkSize
  <1>1. ChunkSize * i \in Nat
    BY Product
  <1> QED BY <1>1, MemoryFileAssumption DEF Fill, Larger, Smaller

-----------------------------------------------------------------------------
(* How many chunks and bytes there are.                                    *)
LEMMA CountIs ==
    ASSUME NEW chs, NEW n \in Nat, chs = [i \in 0 .. n - 1 |-> chs[i]]
    PROVE  Count(chs) = n
  <1>0. DOMAIN chs = 0 .. n - 1
    OBVIOUS
  <1>1. CASE n = 0
    <2>1. chs = <<>>
      BY <1>1
    <2> QED BY <1>1, <2>1 DEF Count
  <1>2. CASE n > 0
    <2> DEFINE top(i) == i \in 0 .. n - 1 /\ \A j \in 0 .. n - 1 : j <= i
    <2>1. chs # <<>>
      BY <1>0, <1>2
    <2>2. \A i : top(i) <=> i = n - 1
      <3>1. top(n - 1)
        BY <1>2
      <3>2. ASSUME NEW i, top(i) PROVE i = n - 1
        <4>1. i \in 0 .. n - 1 /\ n - 1 \in 0 .. n - 1
          BY <1>2, <3>2
        <4>2. n - 1 <= i
          BY <3>2, <4>1
        <4> QED BY <4>1, <4>2
      <3> HIDE DEF top
      <3> QED BY <3>1, <3>2
    <2>3. (CHOOSE i \in 0 .. n - 1 : \A j \in 0 .. n - 1 : j <= i) = n - 1
      BY <2>2
    <2> QED BY <1>0, <2>1, <2>3 DEF Count
  <1> QED BY <1>1, <1>2

LEMMA SumLevel ==
    ASSUME NEW chs, NEW n, NEW t, Level(chs, n, t)
    PROVE  Sum(chs) = t
  <1> DEFINE q == t \div ChunkSize
             S == 0 .. n - 1
             full == 0 .. q - 1
             rest == t - ChunkSize * q
             f == [i \in S |-> chs[i].size]
             G == [s \in SUBSET S |-> ChunkSize * Cardinality(s \cap full) + IF q \in s THEN rest ELSE 0]
  <1>1. /\ n \in Nat /\ t \in Nat /\ t <= ChunkSize * n
        /\ DOMAIN chs = S
    BY Product DEF Level
  <1>2. q \in Nat /\ InChunk(t, q)
    BY <1>1, ChunkOf
  <1>3. rest \in Nat
    BY <1>1, <1>2, Product, SMTT(30) DEF InChunk
  <1> HIDE DEF q
  <1>4. \A i \in S : f[i] = IF i < q THEN ChunkSize ELSE IF i = q THEN rest ELSE 0
    <2> TAKE i \in S
    <2>1. f[i] = Fill(t, i) /\ i \in Nat
      BY <1>1 DEF Level
    <2>2. CASE i < q
      <3>1. ChunkSize * i + ChunkSize <= ChunkSize * q
        BY <1>2, <2>1, <2>2, Order
      <3>2. ChunkSize * i + ChunkSize <= t
        BY <1>1, <1>2, <2>1, <3>1, Product, MemoryFileAssumption DEF InChunk
      <3>3. Fill(t, i) = ChunkSize
        BY <1>1, <2>1, <3>2, FillIs
      <3> QED BY <1>2, <2>1, <2>2, <3>3
    <2>3. CASE i = q
      <3>1. Fill(t, q) = t - ChunkSize * q
        BY <1>1, <1>2, FillIs
      <3> QED BY <1>2, <2>1, <2>3, <3>1
    <2>4. CASE i > q
      <3>1. ChunkSize * q + ChunkSize <= ChunkSize * i
        BY <1>2, <2>1, <2>4, Order
      <3>2. t <= ChunkSize * i
        BY <1>1, <1>2, <2>1, <3>1, Product, MemoryFileAssumption DEF InChunk
      <3>3. Fill(t, i) = 0
        BY <1>1, <2>1, <3>2, FillIs
      <3> QED BY <1>2, <2>1, <2>4, <3>3
    <2> QED BY <1>2, <2>1, <2>2, <2>3, <2>4
  <1> HIDE DEF rest
  <1>5. f \in [S -> Nat]
    BY <1>3, <1>4, MemoryFileAssumption
  <1>6. IsFiniteSet(S)
    BY <1>1, FS_Interval
  <1>7. \A s \in SUBSET S : IsFiniteSet(s \cap full) /\ Cardinality(s \cap full) \in Nat
    <2> TAKE s \in SUBSET S
    <2>1. IsFiniteSet(s)
      BY <1>6, FS_Subset
    <2>2. IsFiniteSet(s \cap full)
      BY <2>1, FS_Intersection
    <2> QED BY <2>2, FS_CardinalityType
  <1>8. G \in [SUBSET S -> Nat]
    <2>1. \A s \in SUBSET S : ChunkSize * Cardinality(s \cap full) \in Nat
      BY <1>7, Product
    <2>2. \A s \in SUBSET S : ChunkSize * Cardinality(s \cap full) + (IF q \in s THEN rest ELSE 0) \in Nat
      BY <1>3, <2>1
    <2> QED BY <2>2
  <1>9. G[{}] = 0
    <2>1. {} \cap full = {}
      OBVIOUS
    <2> QED BY <2>1, FS_EmptySet, MemoryFileAssumption
  <1>10. ASSUME NEW s \in SUBSET S, NEW x \in s
         PROVE  G[s] = f[x] + G[s \ {x}]
    <2> DEFINE c == Cardinality(s \cap full)
               d == Cardinality((s \ {x}) \cap full)
    <2>1. (s \ {x}) \cap full = (s \cap full) \ {x} /\ s \ {x} \in SUBSET S
      OBVIOUS
    <2>2. c \in Nat /\ d = IF x \in s \cap full THEN c - 1 ELSE c
      BY <1>7, <2>1, FS_RemoveElement
    <2>3. x \in s \cap full <=> x < q
      BY <1>1, <1>2
    <2>4. ChunkSize * (c - 1) = ChunkSize * c - ChunkSize /\ ChunkSize * c \in Int
      BY <2>2, MemoryFileAssumption
    <2>5. G[s] = ChunkSize * c + IF q \in s THEN rest ELSE 0
      OBVIOUS
    <2>6. G[s \ {x}] = ChunkSize * d + IF q \in s \ {x} THEN rest ELSE 0
      BY <2>1
    <2>7. f[x] = IF x < q THEN ChunkSize ELSE IF x = q THEN rest ELSE 0
      BY <1>4
    <2> HIDE DEF c, d, f, G
    <2> QED BY <1>1, <1>2, <1>3, <2>2, <2>3, <2>4, <2>5, <2>6, <2>7, MemoryFileAssumption
  <1>11. G[S] = t
    <2>0. ChunkSize * q \in Nat /\ ChunkSize * n \in Nat /\ ChunkSize * q <= t
      BY <1>1, <1>2, Product DEF InChunk
    <2>1. q <= n
      <3>1. ~(n < q)
        BY <1>1, <1>2, <2>0, Order, MemoryFileAssumption
      <3> QED BY <1>1, <1>2, <3>1
    <2>2. S \cap full = full /\ Cardinality(full) = q
      <3>1. 0 \in Int /\ q - 1 \in Int
        BY <1>2
      <3>2. Cardinality(0 .. q - 1) = IF 0 > q - 1 THEN 0 ELSE q - 1 - 0 + 1
        BY <3>1, FS_Interval
      <3>3. Cardinality(full) = q
        BY <1>2, <3>2
      <3> QED BY <1>1, <1>2, <2>1, <3>3
    <2>3. q \notin S => q = n /\ t = ChunkSize * q
      <3> SUFFICES ASSUME q \notin S PROVE q = n /\ t = ChunkSize * q
        OBVIOUS
      <3>1. q = n
        BY <1>1, <1>2, <2>1
      <3> QED BY <1>1, <2>0, <3>1
    <2>4. G[S] = ChunkSize * q + IF q \in S THEN rest ELSE 0
      BY <2>2
    <2> HIDE DEF G, S, full
    <2> QED BY <1>1, <1>2, <2>3, <2>4, Product DEF rest
  <1> HIDE DEF f, G, S
  <1>12. FoldFunction(+, 0, f) = t
    BY <1>5, <1>6, <1>8, <1>9, <1>10, <1>11, SumIs
  <1> QED BY <1>1, <1>12 DEF Sum, f

LEMMA SumSingle ==
    ASSUME NEW chs, NEW t, Single(chs, t)
    PROVE  Sum(chs) = t
  <1> DEFINE S == {0}
             f == [i \in S |-> chs[i].size]
             G == [s \in SUBSET S |-> IF s = {} THEN 0 ELSE t]
  <1>1. f \in [S -> Nat] /\ f[0] = t /\ t \in Nat
    BY DEF Single
  <1>2. G \in [SUBSET S -> Nat] /\ G[{}] = 0 /\ G[S] = t
    BY <1>1
  <1>3. IsFiniteSet(S)
    BY FS_Singleton
  <1>4. ASSUME NEW s \in SUBSET S, NEW x \in s
        PROVE  G[s] = f[x] + G[s \ {x}]
    <2>1. s = S /\ x = 0 /\ s \ {x} = {}
      OBVIOUS
    <2>2. G[S] = f[0] + G[{}]
      BY <1>1, <1>2
    <2> HIDE DEF f, G, S
    <2> QED BY <2>1, <2>2
  <1>5. DOMAIN chs = S
    BY DEF Single
  <1> HIDE DEF f, G, S
  <1>6. FoldFunction(+, 0, f) = G[S]
    BY <1>1, <1>2, <1>3, <1>4, SumIs
  <1> QED BY <1>2, <1>5, <1>6 DEF Sum, f

-----------------------------------------------------------------------------
(* What the code works out from the last chunk and from a position.        *)
LEMMA LevelFacts ==
    ASSUME NEW chs, NEW n, NEW t, Level(chs, n, t)
    PROVE  /\ n \in Nat /\ t \in Nat /\ t <= ChunkSize * n
           /\ DOMAIN chs = 0 .. n - 1 /\ Count(chs) = n /\ Sum(chs) = t
           /\ \A i \in 0 .. n - 1 :
                 /\ i \in Nat
                 /\ chs[i].allocSize = ChunkSize /\ chs[i].size = Fill(t, i)
                 /\ chs[i].size \in 0 .. ChunkSize
                 /\ chs[i].data \in [0 .. ChunkSize - 1 -> Bytes]
  <1>1. n \in Nat /\ t \in Nat /\ t <= ChunkSize * n /\ chs = [i \in 0 .. n - 1 |-> chs[i]]
    BY Product DEF Level
  <1>2. \A i \in 0 .. n - 1 :
           /\ i \in Nat
           /\ chs[i].allocSize = ChunkSize /\ chs[i].size = Fill(t, i)
           /\ chs[i].data \in [0 .. ChunkSize - 1 -> Bytes]
    BY <1>1 DEF Level
  <1>3. \A i \in 0 .. n - 1 : Fill(t, i) \in 0 .. ChunkSize
    BY <1>1, FillIs
  <1> QED BY <1>1, <1>2, <1>3, CountIs, SumLevel

LEMMA SingleFacts ==
    ASSUME NEW chs, NEW t, Single(chs, t)
    PROVE  /\ t \in Nat
           /\ DOMAIN chs = {0} /\ Count(chs) = 1 /\ Sum(chs) = t
           /\ chs[0].allocSize = t /\ chs[0].size = t
           /\ chs[0].data \in [0 .. t - 1 -> Bytes]
           /\ SizeOf(chs, 1) = t
  <1>1. /\ t \in Nat /\ chs = [i \in {0} |-> chs[0]]
        /\ chs[0].allocSize = t /\ chs[0].size = t
        /\ chs[0].data \in [0 .. t - 1 -> Bytes]
    BY DEF Single
  <1>2. chs = [i \in 0 .. 1 - 1 |-> chs[i]]
    <2>1. 0 .. 1 - 1 = {0}
      OBVIOUS
    <2> QED BY <1>1, <2>1
  <1>3. Count(chs) = 1
    BY <1>2, CountIs
  <1>4. SizeOf(chs, 1) = t
    BY <1>1, MemoryFileAssumption DEF SizeOf
  <1> QED BY <1>1, <1>3, <1>4, SumSingle

LEMMA SizeOfLevel ==
    ASSUME NEW chs, NEW n, NEW t, Level(chs, n, t), n > 0 => ChunkSize * (n - 1) < t
    PROVE  SizeOf(chs, n) = t
  <1>1. n \in Nat /\ t \in Nat /\ t <= ChunkSize * n
    BY LevelFacts
  <1>2. CASE n = 0
    BY <1>1, <1>2, MemoryFileAssumption DEF SizeOf
  <1>3. CASE n > 0
    <2>1. n - 1 \in Nat /\ n - 1 \in 0 .. n - 1 /\ ChunkSize * (n - 1) \in Nat
      BY <1>1, <1>3, Product
    <2>2. ChunkSize * n = ChunkSize * (n - 1) + ChunkSize
      BY <2>1, <1>1, OneMore
    <2>3. chs[n - 1].size = Fill(t, n - 1)
      BY <2>1, LevelFacts
    <2>4. Fill(t, n - 1) = t - ChunkSize * (n - 1)
      BY <1>1, <1>3, <2>1, <2>2, MemoryFileAssumption DEF Fill, Larger, Smaller
    <2> QED BY <1>1, <1>3, <2>1, <2>3, <2>4 DEF SizeOf
  <1> QED BY <1>1, <1>2, <1>3

(* A position in the file or at its end has a place in a chunk.            *)
LEMMA PlaceOf ==
    ASSUME NEW chs, NEW n, NEW t, Level(chs, n, t), n > 0, NEW p \in Nat, p <= t
    PROVE  /\ IsAt(p, chs, n)
           /\ IndexAt(p, n) \in 0 .. n - 1
           /\ OffsetAt(p, n) \in 0 .. ChunkSize
           /\ p = ChunkSize * IndexAt(p, n) + OffsetAt(p, n)
  <1> DEFINE j == p \div ChunkSize
  <1>1. n \in Nat /\ t \in Nat /\ t <= ChunkSize * n
    BY LevelFacts
  <1>2. j \in Nat /\ InChunk(p, j)
    BY ChunkOf
  <1>3. CASE j < n
    <2>1. IndexAt(p, n) = j /\ OffsetAt(p, n) = p - ChunkSize * j
      BY <1>1, <1>2, <1>3, Finding
    <2>2. OffsetAt(p, n) \in 0 .. ChunkSize /\ ChunkSize * j \in Nat
      BY <1>2, <2>1, Product, MemoryFileAssumption DEF InChunk
    <2>3. chs[j].size = Fill(t, j)
      BY <1>1, <1>2, <1>3, LevelFacts
    <2> HIDE DEF j
    <2>4. p - ChunkSize * j <= Fill(t, j)
      BY <1>1, <1>2, <2>2, MemoryFileAssumption DEF Fill, Larger, Smaller, InChunk
    <2>5. IsAt(p, chs, n)
      BY <1>1, <1>2, <1>3, <2>1, <2>3, <2>4 DEF IsAt, j
    <2> QED BY <1>1, <1>2, <1>3, <2>1, <2>2, <2>5
  <1>4. CASE j >= n
    <2>1. IndexAt(p, n) = n - 1 /\ OffsetAt(p, n) = p - ChunkSize * (n - 1)
      BY <1>1, <1>2, <1>4, Finding
    <2>2. n - 1 \in Nat /\ ChunkSize * n = ChunkSize * (n - 1) + ChunkSize /\ ChunkSize * (n - 1) \in Nat
      BY <1>1, OneMore, Product
    <2> HIDE DEF j
    <2>3. ~(n < j)
      BY <1>1, <1>2, <2>2, Order, Product, MemoryFileAssumption DEF InChunk
    <2>4. j = n /\ p = ChunkSize * n /\ t = p
      BY <1>1, <1>2, <1>4, <2>2, <2>3, MemoryFileAssumption DEF InChunk
    <2>5. chs[n - 1].size = Fill(t, n - 1)
      BY <1>1, <2>2, LevelFacts
    <2>6. Fill(t, n - 1) = ChunkSize
      BY <1>1, <2>2, <2>4, FillIs
    <2>7. IsAt(p, chs, n)
      BY <1>1, <2>1, <2>2, <2>4, <2>5, <2>6, MemoryFileAssumption DEF IsAt, j
    <2> QED BY <1>1, <2>1, <2>2, <2>4, <2>7, MemoryFileAssumption
  <1> QED BY <1>1, <1>2, <1>3, <1>4

(* Where get_chunk_pos says that a position is.                            *)
LEMMA PlaceIs ==
    ASSUME NEW chs, NEW n \in Nat, NEW p \in Nat, IsAt(p, chs, n)
    PROVE  /\ n > 0
           /\ IndexAt(p, n) \in 0 .. n - 1
           /\ OffsetAt(p, n) \in Nat
           /\ OffsetAt(p, n) <= chs[IndexAt(p, n)].size
           /\ p = ChunkSize * IndexAt(p, n) + OffsetAt(p, n)
  <1> DEFINE j == p \div ChunkSize
  <1>1. n > 0 /\ OffsetAt(p, n) <= chs[IndexAt(p, n)].size
    BY DEF IsAt
  <1>2. j \in Nat /\ InChunk(p, j)
    BY ChunkOf
  <1>3. CASE j < n
    BY <1>1, <1>2, <1>3, Finding, Product DEF InChunk
  <1>4. CASE j >= n
    <2>1. IndexAt(p, n) = n - 1 /\ OffsetAt(p, n) = p - ChunkSize * (n - 1)
      BY <1>1, <1>2, <1>4, Finding
    <2>2. n - 1 \in Nat /\ ChunkSize * (n - 1) \in Nat /\ ChunkSize * j \in Nat
      BY <1>1, <1>2, Product
    <2>3. ChunkSize * (n - 1) <= ChunkSize * j
      BY <1>1, <1>2, <1>4, <2>2, Order, MemoryFileAssumption
    <2> HIDE DEF j
    <2> QED BY <1>1, <1>2, <2>1, <2>2, <2>3 DEF InChunk
  <1> QED BY <1>2, <1>3, <1>4

-----------------------------------------------------------------------------
(* What a client sees at position p of the chunks.                         *)
Seen(chs, n, t, p) ==
    IF p >= 0 /\ p < t /\ OffsetAt(p, n) < chs[IndexAt(p, n)].size
    THEN chs[IndexAt(p, n)].data[OffsetAt(p, n)] ELSE Junk

LEMMA SeenIs ==
    ASSUME NEW chs, NEW n, NEW t, Level(chs, n, t), NEW p \in Int
    PROVE  /\ ~(0 <= p /\ p < t) => Seen(chs, n, t, p) = Junk
           /\ 0 <= p /\ p < t =>
                 \A i \in Nat : InChunk(p, i) =>
                     /\ i \in 0 .. n - 1
                     /\ p - ChunkSize * i \in 0 .. ChunkSize - 1
                     /\ Seen(chs, n, t, p) = chs[i].data[p - ChunkSize * i]
  <1>1. n \in Nat /\ t \in Nat /\ t <= ChunkSize * n
    BY LevelFacts
  <1>2. ~(0 <= p /\ p < t) => Seen(chs, n, t, p) = Junk
    BY <1>1 DEF Seen
  <1>3. ASSUME 0 <= p, p < t, NEW i \in Nat, InChunk(p, i)
        PROVE  /\ i \in 0 .. n - 1
               /\ p - ChunkSize * i \in 0 .. ChunkSize - 1
               /\ Seen(chs, n, t, p) = chs[i].data[p - ChunkSize * i]
    <2>1. ChunkSize * i \in Nat /\ ChunkSize * n \in Nat
      BY <1>1, Product
    <2>2. ~(n < i) /\ i # n
      BY <1>1, <1>3, <2>1, Order, MemoryFileAssumption DEF InChunk
    <2>3. i < n
      BY <1>1, <2>2
    <2>4. p \in Nat
      BY <1>3
    <2>5. IndexAt(p, n) = i /\ OffsetAt(p, n) = p - ChunkSize * i
      BY <1>1, <1>3, <2>3, <2>4, Finding
    <2>6. chs[i].size = Fill(t, i)
      BY <1>1, <2>3, LevelFacts
    <2>7. p - ChunkSize * i < Fill(t, i)
      BY <1>1, <1>3, <2>1, MemoryFileAssumption DEF Fill, Larger, Smaller, InChunk
    <2>8. p - ChunkSize * i \in 0 .. ChunkSize - 1
      BY <1>3, <2>1, MemoryFileAssumption DEF InChunk
    <2> QED BY <1>1, <1>3, <2>3, <2>5, <2>6, <2>7, <2>8 DEF Seen
  <1> QED BY <1>2, <1>3

(* Two lists of chunks look the same where they have the same bytes.       *)
LEMMA SeenSame ==
    ASSUME NEW chs, NEW n, NEW t, Level(chs, n, t),
           NEW new, NEW m, NEW u, Level(new, m, u), t <= u,
           \A i \in 0 .. n - 1 : i \in 0 .. m - 1 /\ new[i].data = chs[i].data,
           NEW p \in Int, p < t \/ p >= u
    PROVE  Seen(new, m, u, p) = Seen(chs, n, t, p)
  <1>1. t \in Nat /\ u \in Nat
    BY LevelFacts
  <1>2. CASE 0 <= p /\ p < t
    <2> DEFINE i == p \div ChunkSize
    <2>1. i \in Nat /\ InChunk(p, i)
      BY <1>2, ChunkOf
    <2> HIDE DEF i
    <2>2. i \in 0 .. n - 1 /\ Seen(chs, n, t, p) = chs[i].data[p - ChunkSize * i]
      BY <1>2, <2>1, SeenIs
    <2>3. Seen(new, m, u, p) = new[i].data[p - ChunkSize * i]
      BY <1>1, <1>2, <2>1, SeenIs
    <2> QED BY <2>2, <2>3
  <1>3. CASE ~(0 <= p /\ p < t)
    <2>1. ~(0 <= p /\ p < u)
      BY <1>1, <1>3
    <2> QED BY <1>3, <2>1, SeenIs
  <1> QED BY <1>2, <1>3

-----------------------------------------------------------------------------
(* Chunks that were added are empty.                                       *)
LEMMA Extending ==
    ASSUME NEW chs, NEW n, NEW t, Level(chs, n, t), NEW m \in Nat, n <= m,
           NEW new, new = [i \in 0 .. m - 1 |-> IF i < n THEN chs[i] ELSE NewChunk]
    PROVE  /\ Level(new, m, t)
           /\ \A i \in 0 .. n - 1 : i \in 0 .. m - 1 /\ new[i] = chs[i]
           /\ \A i \in n .. m - 1 : new[i] = NewChunk
  <1>1. n \in Nat /\ t \in Nat /\ t <= ChunkSize * n
    BY LevelFacts
  <1>2. new = [i \in 0 .. m - 1 |-> new[i]]
    OBVIOUS
  <1>3. \A i \in 0 .. n - 1 : i \in 0 .. m - 1 /\ new[i] = chs[i]
    BY <1>1
  <1>4. \A i \in n .. m - 1 : new[i] = NewChunk
    BY <1>1
  <1>5. t \in 0 .. ChunkSize * m
    <2>1. ChunkSize * n \in Nat /\ ChunkSize * m \in Nat
      BY <1>1, Product
    <2>2. n < m => ChunkSize * n + ChunkSize <= ChunkSize * m
      BY <1>1, Order
    <2>3. ChunkSize * n <= ChunkSize * m
      BY <1>1, <2>1, <2>2, MemoryFileAssumption
    <2> QED BY <1>1, <2>1, <2>3
  <1>6. ASSUME NEW i \in 0 .. m - 1
        PROVE  /\ new[i] = [allocSize |-> ChunkSize, size |-> new[i].size, data |-> new[i].data]
               /\ new[i].size = Fill(t, i)
               /\ new[i].data \in [0 .. ChunkSize - 1 -> Bytes]
    <2>1. CASE i < n
      <3>1. i \in 0 .. n - 1
        BY <1>1, <2>1
      <3>2. new[i] = chs[i]
        BY <1>3, <3>1
      <3> QED BY <3>1, <3>2 DEF Level
    <2>2. CASE i >= n
      <3>1. new[i] = NewChunk
        BY <1>1, <1>4, <2>2
      <3>2. Fill(t, i) = 0
        <4>1. i \in Nat /\ ChunkSize * n \in Nat /\ ChunkSize * i \in Nat
          BY <1>1, Product
        <4>2. n < i => ChunkSize * n + ChunkSize <= ChunkSize * i
          BY <1>1, <4>1, Order
        <4>3. t <= ChunkSize * i
          BY <1>1, <2>2, <4>1, <4>2, MemoryFileAssumption
        <4> QED BY <1>1, <4>1, <4>3, FillIs
      <3>3. /\ NewChunk = [allocSize |-> ChunkSize, size |-> NewChunk.size, data |-> NewChunk.data]
            /\ NewChunk.size = 0
            /\ NewChunk.data \in [0 .. ChunkSize - 1 -> Bytes]
        BY DEF NewChunk, Bytes
      <3> QED BY <3>1, <3>2, <3>3
    <2> QED BY <1>1, <2>1, <2>2
  <1>7. Level(new, m, t)
    BY <1>2, <1>5, <1>6 DEF Level
  <1> QED BY <1>3, <1>4, <1>7

(* A hole that begins at the end of a chunk fills the chunks up to the     *)
(* position.                                                               *)
LEMMA Filling ==
    ASSUME NEW chs, NEW m, NEW t, Level(chs, m, t), FileSize = t,
           NEW f \in Nat, t = ChunkSize * f,
           position \in Nat, position > t, position <= ChunkSize * m
    PROVE  /\ Level(HoleFilled(chs, m), m, position)
           /\ \A i \in 0 .. m - 1 : HoleFilled(chs, m)[i].data = chs[i].data
  <1> DEFINE l == (position - 1) \div ChunkSize
             first == IndexAt(FileSize, m)
             ends(i) == /\ position <= (i + 1) * ChunkSize
                        /\ \A j \in first .. i - 1 : position > (j + 1) * ChunkSize
             last == CHOOSE i \in first .. m - 1 : ends(i)
             new == HoleFilled(chs, m)
  <1>1. m \in Nat /\ t \in Nat
    BY LevelFacts
  <1>2. first = f
    <2>1. InChunk(t, f) /\ f \in Nat
      BY <1>1, MemoryFileAssumption DEF InChunk
    <2>2. ~(m < f) /\ m # f
      BY <1>1, Order, Product, MemoryFileAssumption
    <2> QED BY <1>1, <2>1, <2>2, Finding
  <1>3. position - 1 \in Nat /\ l \in Nat /\ InChunk(position - 1, l)
    BY <1>1, ChunkOf
  <1> HIDE DEF l, first
  <1>4. \A i \in Nat : (i + 1) * ChunkSize = ChunkSize * i + ChunkSize /\ ChunkSize * i \in Nat
    BY MemoryFileAssumption, Product
  <1>5. /\ ChunkSize * l < position /\ position <= ChunkSize * l + ChunkSize
    <2>1. ChunkSize * l \in Nat
      BY <1>3, Product
    <2> QED BY <1>3, <2>1, MemoryFileAssumption DEF InChunk
  <1>6. l \in f .. m - 1
    <2>1. ~(l < f)
      BY <1>1, <1>3, <1>4, <1>5, Order, MemoryFileAssumption
    <2>2. ~(m < l) /\ l # m
      BY <1>1, <1>3, <1>4, <1>5, Order, MemoryFileAssumption
    <2> QED BY <1>1, <1>3, <2>1, <2>2
  <1>7. ends(l)
    <2>1. ASSUME NEW j \in first .. l - 1 PROVE position > (j + 1) * ChunkSize
      <3>1. j \in Nat /\ j < l
        BY <1>2, <1>3
      <3>2. ChunkSize * j + ChunkSize <= ChunkSize * l
        BY <1>3, <3>1, Order
      <3> QED BY <1>3, <1>4, <1>5, <3>1, <3>2, MemoryFileAssumption
    <2> QED BY <1>2, <1>3, <1>4, <1>5, <2>1
  <1>8. ASSUME NEW i \in f .. m - 1, ends(i) PROVE i = l
    <2>1. i \in Nat
      OBVIOUS
    <2>2. ~(i < l)
      BY <1>3, <1>4, <1>5, <1>8, <2>1, Order, MemoryFileAssumption
    <2>3. ~(l < i)
      <3> SUFFICES ASSUME l < i PROVE FALSE
        OBVIOUS
      <3>1. l \in f .. i - 1
        BY <1>2, <1>6, <2>1
      <3> QED BY <1>2, <1>3, <1>4, <1>5, <1>8, <3>1, MemoryFileAssumption
    <2> QED BY <1>3, <2>1, <2>2, <2>3
  <1>9. last = l
    <2> HIDE DEF ends
    <2> QED BY <1>2, <1>6, <1>7, <1>8
  <1>10. new = [i \in 0 .. m - 1 |->
                   IF i \in f .. l - 1 THEN [chs[i] EXCEPT !.size = chs[i].allocSize]
                   ELSE IF i = l THEN [chs[i] EXCEPT !.size = position - IF l = f THEN t ELSE l * ChunkSize]
                   ELSE chs[i]]
    <2>1. new = [i \in 0 .. m - 1 |->
                    IF i \in first .. last - 1 THEN [chs[i] EXCEPT !.size = chs[i].allocSize]
                    ELSE IF i = last
                    THEN [chs[i] EXCEPT !.size = position - IF last = first THEN FileSize ELSE last * ChunkSize]
                    ELSE chs[i]]
      BY DEF HoleFilled, first
    <2> HIDE DEF new, last
    <2> QED BY <1>2, <1>9, <2>1
  <1>11. (IF l = f THEN t ELSE l * ChunkSize) = ChunkSize * l
    BY <1>3, MemoryFileAssumption
  <1> HIDE DEF new, last, ends
  <1>12. ASSUME NEW i \in 0 .. m - 1
         PROVE  /\ new[i] = [allocSize |-> ChunkSize, size |-> Fill(position, i), data |-> chs[i].data]
                /\ chs[i].data \in [0 .. ChunkSize - 1 -> Bytes]
    <2>1. /\ chs[i] = [allocSize |-> ChunkSize, size |-> Fill(t, i), data |-> chs[i].data]
          /\ chs[i].data \in [0 .. ChunkSize - 1 -> Bytes]
          /\ i \in Nat
      BY <1>1 DEF Level
    <2>2. CASE i \in f .. l - 1
      <3>1. new[i] = [chs[i] EXCEPT !.size = chs[i].allocSize]
        BY <1>10, <2>2
      <3>2. ChunkSize * i + ChunkSize <= position
        <4>1. ChunkSize * i + ChunkSize <= ChunkSize * l
          BY <1>3, <2>1, <2>2, Order
        <4>2. ChunkSize * i \in Nat /\ ChunkSize * l \in Nat
          BY <1>3, <2>1, Product
        <4> QED BY <1>5, <4>1, <4>2, MemoryFileAssumption
      <3>3. Fill(position, i) = ChunkSize
        BY <2>1, <3>2, FillIs
      <3> QED BY <2>1, <3>1, <3>3
    <2>3. CASE i = l
      <3>1. new[i] = [chs[i] EXCEPT !.size = position - ChunkSize * l]
        BY <1>6, <1>10, <1>11, <2>3
      <3>2. Fill(position, l) = position - ChunkSize * l
        BY <1>3, <1>4, <1>5, MemoryFileAssumption DEF Fill, Larger, Smaller
      <3> QED BY <2>1, <2>3, <3>1, <3>2
    <2>4. CASE i < f
      <3>1. new[i] = chs[i]
        BY <1>3, <1>6, <1>10, <2>1, <2>4
      <3>2. ChunkSize * i + ChunkSize <= t
        BY <2>1, <2>4, Order
      <3>3. Fill(t, i) = ChunkSize
        BY <1>1, <2>1, <3>2, FillIs
      <3>5. Fill(position, i) = ChunkSize
        BY <1>1, <2>1, <3>3, FillGrows
      <3> QED BY <2>1, <3>1, <3>3, <3>5
    <2>5. CASE i > l
      <3>1. new[i] = chs[i]
        BY <1>3, <1>6, <1>10, <2>1, <2>5
      <3>2. position <= ChunkSize * i
        BY <1>3, <1>4, <1>5, <2>1, <2>5, Order, MemoryFileAssumption
      <3>3. t <= ChunkSize * i
        <4>1. ChunkSize * i \in Nat
          BY <2>1, Product
        <4> QED BY <1>1, <3>2, <4>1
      <3>4. Fill(t, i) = 0
        BY <1>1, <2>1, <3>3, FillIs
      <3>5. Fill(position, i) = 0
        BY <2>1, <3>2, FillIs
      <3> QED BY <2>1, <3>1, <3>4, <3>5
    <2> QED BY <1>3, <1>6, <2>1, <2>2, <2>3, <2>4, <2>5
  <1>13. new = [i \in 0 .. m - 1 |-> new[i]]
    BY <1>10
  <1>14. position \in 0 .. ChunkSize * m
    BY <1>1, Product
  <1>15. Level(new, m, position)
    BY <1>1, <1>12, <1>13, <1>14 DEF Level
  <1>16. ASSUME NEW i \in 0 .. m - 1 PROVE new[i].data = chs[i].data
    <2>1. new[i] = [allocSize |-> ChunkSize, size |-> Fill(position, i), data |-> chs[i].data]
      BY <1>12
    <2> QED BY <2>1
  <1> QED BY <1>15, <1>16 DEF new

(* A piece of k bytes at offset o of chunk i, from inside the file or from *)
(* its end, makes the file end where it ends, if it did not before.        *)
LEMMA FillAfter ==
    ASSUME NEW t \in Nat, NEW i \in Nat, NEW o \in Nat, NEW k \in Nat, o + k <= ChunkSize,
           ChunkSize * i + o <= t
    PROVE  Larger(Fill(t, i), o + k) = Fill(Larger(t, ChunkSize * i + o + k), i)
  <1> DEFINE b == ChunkSize * i
  <1>1. b \in Nat
    BY Product
  <1>2. b + o <= t
    OBVIOUS
  <1>3. SUFFICES Larger(Larger(0, Smaller(t - b, ChunkSize)), o + k)
                    = Larger(0, Smaller(Larger(t, b + o + k) - b, ChunkSize))
    BY DEF Fill
  <1> HIDE DEF b
  <1> QED BY <1>1, <1>2, MemoryFileAssumption DEF Larger, Smaller

LEMMA FillElsewhere ==
    ASSUME NEW t \in Nat, NEW i \in Nat, NEW o \in Nat, NEW k \in Nat, o + k <= ChunkSize,
           ChunkSize * i + o <= t, NEW j \in Nat, j # i
    PROVE  Fill(Larger(t, ChunkSize * i + o + k), j) = Fill(t, j)
  <1> DEFINE b == ChunkSize * i
             c == ChunkSize * j
  <1>1. b \in Nat /\ c \in Nat
    BY Product
  <1>2. b + o <= t
    OBVIOUS
  <1>3. (b + ChunkSize <= c) \/ (c + ChunkSize <= b)
    <2>1. i < j \/ j < i
      OBVIOUS
    <2> QED BY <2>1, Order
  <1>4. SUFFICES Larger(0, Smaller(Larger(t, b + o + k) - c, ChunkSize)) = Larger(0, Smaller(t - c, ChunkSize))
    BY DEF Fill
  <1> HIDE DEF b, c
  <1> QED BY <1>1, <1>2, <1>3, MemoryFileAssumption DEF Larger, Smaller

(* Chunk i of chs has another size and other bytes in new.                 *)
OneChanged(new, chs, n, i, size, data) ==
    new = [j \in 0 .. n - 1 |->
              IF j = i THEN [allocSize |-> ChunkSize, size |-> size, data |-> data] ELSE chs[j]]

(* k bytes at offset o of chunk i of chs make it hold data, of size bytes, *)
(* and end at position p.                                                  *)
Overwrites(chs, n, t, i, o, k, data, size, p) ==
    /\ Level(chs, n, t)
    /\ i \in 0 .. n - 1 /\ o \in Nat /\ k \in Nat
    /\ o + k <= ChunkSize /\ ChunkSize * i + o <= t
    /\ data \in [0 .. ChunkSize - 1 -> Bytes]
    /\ size = Larger(Fill(t, i), o + k)
    /\ p = ChunkSize * i + o + k

LEMMA Overwriting ==
    ASSUME NEW chs, NEW n, NEW t, NEW i, NEW o, NEW k, NEW data, NEW size, NEW p, NEW new,
           Overwrites(chs, n, t, i, o, k, data, size, p), OneChanged(new, chs, n, i, size, data)
    PROVE  /\ Level(new, n, Larger(t, p))
           /\ new[i].data = data
           /\ \A j \in 0 .. n - 1 : j # i => new[j] = chs[j]
  <1> USE DEF Overwrites
  <1> DEFINE u == Larger(t, p)
  <1>1. n \in Nat /\ t \in Nat /\ t <= ChunkSize * n /\ i \in Nat
    BY LevelFacts
  <1>2. u \in 0 .. ChunkSize * n
    <2>1. i < n
      BY <1>1
    <2>2. ChunkSize * i + ChunkSize <= ChunkSize * n /\ ChunkSize * i \in Nat /\ ChunkSize * n \in Nat
      BY <1>1, <2>1, Order, Product
    <2> QED BY <1>1, <2>2, MemoryFileAssumption DEF Larger
  <1>3. Larger(Fill(t, i), o + k) = Fill(u, i)
    BY <1>1, FillAfter
  <1>4. \A j \in 0 .. n - 1 : j # i => Fill(u, j) = Fill(t, j)
    BY <1>1, FillElsewhere
  <1> HIDE DEF u
  <1>5. new = [j \in 0 .. n - 1 |->
                  IF j = i THEN [allocSize |-> ChunkSize, size |-> Fill(u, i), data |-> data] ELSE chs[j]]
    BY <1>3 DEF OneChanged
  <1>6. /\ new = [j \in 0 .. n - 1 |-> new[j]]
        /\ new[i] = [allocSize |-> ChunkSize, size |-> Fill(u, i), data |-> data]
        /\ \A j \in 0 .. n - 1 : j # i => new[j] = chs[j]
    BY <1>5
  <1>7. ASSUME NEW j \in 0 .. n - 1
        PROVE  /\ new[j] = [allocSize |-> ChunkSize, size |-> new[j].size, data |-> new[j].data]
               /\ new[j].size = Fill(u, j)
               /\ new[j].data \in [0 .. ChunkSize - 1 -> Bytes]
    <2>1. CASE j = i
      BY <1>6, <2>1
    <2>2. CASE j # i
      <3>1. new[j] = chs[j] /\ Fill(u, j) = Fill(t, j)
        BY <1>4, <1>6, <2>2
      <3> QED BY <3>1 DEF Level
    <2> QED BY <2>1, <2>2
  <1>8. Level(new, n, u)
    BY <1>1, <1>2, <1>6, <1>7 DEF Level
  <1> QED BY <1>6, <1>8 DEF u

-----------------------------------------------------------------------------
(* The invariant.                                                          *)
Fields ==
    /\ mode \in {"closed", "new", "readOnly"}
    /\ virtualStartPos \in Nat /\ position \in Nat /\ eof \in BOOLEAN
    /\ pc \in {"idle", "read", "write", "flush"}
    /\ call \in [op : {"none", "read", "write", "flush"}, rem : Nat, value : Bytes,
                 index : Nat, offset : Nat]
    /\ target \in [done : BOOLEAN, size : Nat, bytes : [Watched -> Bytes]]

(* The chunks before the last used one are full, those after it are empty. *)
Shape ==
    /\ mode = "readOnly" => Single(chunks, Total)
    /\ mode # "readOnly" => Level(chunks, NumChunks, Total)
    /\ mode = "closed" =>
          /\ virtualStartPos = 0 /\ chunks = <<>> /\ position = 0 /\ eof = FALSE
          /\ pc = "idle" /\ target = NoTarget

(* Every chunk is used, but those that the write in progress has added and *)
(* will use.                                                               *)
Trim ==
    NumChunks > 0 /\ mode # "readOnly" =>
        ChunkSize * (NumChunks - 1) < IF pc = "write" THEN Larger(Total, position + call.rem) ELSE Total

(* The index and offset of a call are the place of the position.           *)
Reading ==
    pc = "read" =>
        /\ call.index <= NumChunks
        /\ call.index < NumChunks =>
              /\ position = ChunkSize * call.index + call.offset
              /\ call.offset <= chunks[call.index].size
        /\ call.index = NumChunks => position >= Total

Writing ==
    pc = "write" =>
        /\ mode = "new" /\ ~target.done
        /\ call.rem > 0 /\ call.value \in Values
        /\ call.index < NumChunks /\ call.offset < ChunkSize
        /\ position = ChunkSize * call.index + call.offset
        /\ position <= Total
        /\ position + call.rem <= ChunkSize * NumChunks

Flushing == pc = "flush" => call.index <= NumChunks /\ ~target.done

IInv == Fields /\ Shape /\ Trim /\ Reading /\ Writing /\ Flushing

(* What the definitions of the module are of the chunks.                   *)
Facts ==
    /\ NumChunks \in Nat /\ Total \in Nat
    /\ DOMAIN chunks = 0 .. NumChunks - 1
    /\ chunks = [i \in 0 .. NumChunks - 1 |-> chunks[i]]
    /\ mode = "readOnly" => NumChunks = 1
    /\ pc # "write" => FileSize = Total
    /\ pc # "write" /\ NumChunks > 0 /\ mode # "readOnly" => ChunkSize * (NumChunks - 1) < Total
    /\ ViewSize = virtualStartPos + Total
    /\ View = [w \in Watched |-> Seen(chunks, NumChunks, Total, w - virtualStartPos)]

LEMMA InvFacts == IInv => Facts
  <1> SUFFICES ASSUME IInv PROVE Facts
    OBVIOUS
  <1>0. View = [w \in Watched |-> Seen(chunks, NumChunks, Total, w - virtualStartPos)]
    BY DEF View, ViewByte, Seen
  <1>1. NumChunks = Count(chunks) /\ Total = Sum(chunks)
    BY DEF NumChunks, Count, Total, Sum
  <1>2. CASE mode = "readOnly"
    <2>1. Single(chunks, Total)
      BY <1>2 DEF IInv, Shape
    <2>2. /\ NumChunks = 1 /\ DOMAIN chunks = {0} /\ Total \in Nat /\ SizeOf(chunks, 1) = Total
          /\ chunks = [i \in DOMAIN chunks |-> chunks[i]]
      BY <1>1, <2>1, SingleFacts DEF Single
    <2>3. {0} = 0 .. 1 - 1
      OBVIOUS
    <2>4. FileSize = Total
      BY <2>2 DEF FileSize
    <2> QED BY <1>0, <1>2, <2>2, <2>3, <2>4 DEF ViewSize, Facts
  <1>3. CASE mode # "readOnly"
    <2>1. Level(chunks, NumChunks, Total)
      BY <1>3 DEF IInv, Shape
    <2>2. /\ NumChunks \in Nat /\ Total \in Nat /\ DOMAIN chunks = 0 .. NumChunks - 1
          /\ chunks = [i \in 0 .. NumChunks - 1 |-> chunks[i]]
      BY <2>1, LevelFacts DEF Level
    <2>3. pc # "write" /\ NumChunks > 0 => ChunkSize * (NumChunks - 1) < Total
      BY <1>3 DEF IInv, Trim
    <2>4. pc # "write" => FileSize = Total
      BY <2>1, <2>3, SizeOfLevel DEF FileSize
    <2>5. ViewSize = virtualStartPos + Total
      BY <2>4 DEF ViewSize
    <2> QED BY <1>0, <1>3, <2>2, <2>3, <2>4, <2>5 DEF Facts
  <1> QED BY <1>2, <1>3

LEMMA InvType == IInv => TypeOK
  <1> SUFFICES ASSUME IInv PROVE TypeOK
    OBVIOUS
  <1>1. /\ NumChunks \in Nat /\ DOMAIN chunks = 0 .. NumChunks - 1
    BY InvFacts DEF Facts
  <1>2. ASSUME NEW i \in DOMAIN chunks
        PROVE  /\ chunks[i].allocSize \in Nat
               /\ chunks[i].size \in 0 .. chunks[i].allocSize
               /\ chunks[i].data \in [0 .. chunks[i].allocSize - 1 -> Bytes]
               /\ mode # "readOnly" => chunks[i].allocSize = ChunkSize
    <2>1. CASE mode = "readOnly"
      BY <2>1, SingleFacts DEF IInv, Shape
    <2>2. CASE mode # "readOnly"
      <3>1. Level(chunks, NumChunks, Total) /\ i \in 0 .. NumChunks - 1
        BY <1>1, <2>2 DEF IInv, Shape
      <3> QED BY <3>1, LevelFacts, MemoryFileAssumption
    <2> QED BY <2>1, <2>2
  <1>3. pc \in {"read", "write"} /\ call.rem > 0 /\ call.index < NumChunks =>
            call.offset \in 0 .. chunks[call.index].allocSize
    <2> SUFFICES ASSUME pc \in {"read", "write"}, call.index < NumChunks
                 PROVE  call.offset \in 0 .. chunks[call.index].allocSize
      OBVIOUS
    <2>1. call.index \in DOMAIN chunks /\ call.offset \in Nat
      BY <1>1 DEF IInv, Fields
    <2>2. CASE pc = "read"
      BY <1>2, <2>1, <2>2 DEF IInv, Reading
    <2>3. CASE pc = "write"
      BY <1>2, <2>1, <2>3, MemoryFileAssumption DEF IInv, Writing
    <2> QED BY <2>2, <2>3
  <1> QED BY <1>1, <1>2, <1>3 DEF IInv, Fields, Writing, TypeOK
(* What is known of the chunks after a step.                               *)
LEMMA Counts == NumChunks = Count(chunks) /\ Total = Sum(chunks)
  BY DEF NumChunks, Count, Total, Sum

LEMMA NewCounts == NumChunks' = Count(chunks') /\ Total' = Sum(chunks')
  <1>1. (NumChunks = Count(chunks) /\ Total = Sum(chunks))'
    BY Counts, PTL
  <1> QED BY <1>1

LEMMA NewLevel ==
    ASSUME NEW n, NEW t, Level(chunks', n, t)
    PROVE  NumChunks' = n /\ Total' = t
  BY NewCounts, LevelFacts

LEMMA NewSingle ==
    ASSUME NEW t, Single(chunks', t)
    PROVE  NumChunks' = 1 /\ Total' = t
  BY NewCounts, SingleFacts

LEMMA SameChunks ==
    ASSUME chunks' = chunks
    PROVE  /\ NumChunks' = NumChunks /\ Total' = Total
           /\ \A i : chunks'[i] = chunks[i]
  BY Counts, NewCounts

(* A step of the code is a step of the file, or none.                      *)
FileStep ==
    \/ File!FileNext \/ Opened \/ HoleMade
    \/ UNCHANGED <<ViewSize, View, Tell, eof>>

(* A step that leaves the chunks alone leaves size and bytes alone.        *)
LEMMA SameFile ==
    ASSUME Facts, Facts', UNCHANGED <<virtualStartPos, chunks>>
    PROVE  ViewSize' = ViewSize /\ View' = View
  <1>1. NumChunks' = NumChunks /\ Total' = Total
    BY SameChunks
  <1>2. View' = [w \in Watched |-> Seen(chunks', NumChunks', Total', w - virtualStartPos')]
    BY DEF Facts
  <1> QED BY <1>1, <1>2 DEF Facts

-----------------------------------------------------------------------------
(* The invariant, step by step.                                            *)
LEMMA NoTargetType == NoTarget \in [done : BOOLEAN, size : Nat, bytes : [Watched -> Bytes]]
  <1> DEFINE nothing == [w \in Watched |-> Junk]
  <1>1. nothing \in [Watched -> Bytes]
    BY DEF Bytes
  <1>2. NoTarget = [done |-> FALSE, size |-> 0, bytes |-> nothing]
    BY DEF NoTarget
  <1> HIDE DEF nothing
  <1> QED BY <1>1, <1>2

LEMMA InitIInv == Init => IInv
  <1> SUFFICES ASSUME Init PROVE IInv
    OBVIOUS
  <1>1. chunks = <<>> /\ mode = "closed" /\ pc = "idle"
    BY DEF Init, Closed
  <1>2. Level(chunks, 0, 0)
    <2>1. 0 \in 0 .. ChunkSize * 0
      BY MemoryFileAssumption
    <2>2. \A i \in 0 .. 0 - 1 : FALSE
      OBVIOUS
    <2>3. chunks = [i \in 0 .. 0 - 1 |-> chunks[i]]
      BY <1>1
    <2> QED BY <2>1, <2>2, <2>3 DEF Level
  <1>3. NumChunks = 0 /\ Total = 0
    BY <1>2, Counts, LevelFacts
  <1>4. Shape
    BY <1>1, <1>2, <1>3 DEF Init, Closed, Shape
  <1>5. Fields
    BY DEF Init, Closed, NoCall, NoTarget, Fields, Bytes
  <1> QED BY <1>1, <1>3, <1>4, <1>5 DEF IInv, Trim, Reading, Writing, Flushing

LEMMA OpenNewStep ==
    ASSUME IInv, NEW s \in VirtualStarts, OpenNew(s)
    PROVE  IInv'
  <1>0. NumChunks' = NumChunks /\ Total' = Total /\ chunks' = chunks
    BY SameChunks DEF OpenNew
  <1>1. Fields'
    BY MemoryFileAssumption DEF IInv, Fields, OpenNew
  <1>2. Shape'
    BY <1>0 DEF IInv, Shape, OpenNew
  <1>3. Trim' /\ Reading' /\ Writing' /\ Flushing'
    BY <1>0 DEF IInv, Shape, Trim, Reading, Writing, Flushing, OpenNew
  <1> QED BY <1>1, <1>2, <1>3 DEF IInv

LEMMA OpenReadStep ==
    ASSUME IInv, NEW s \in VirtualStarts, NEW n \in ReadSizes, NEW v \in Values, OpenRead(s, n, v)
    PROVE  IInv'
  <1>1. Single(chunks', n)
    <2> DEFINE data == [o \in 0 .. n - 1 |-> IF s + o \in Watched THEN v ELSE Junk]
    <2>1. data \in [0 .. n - 1 -> Bytes]
      BY DEF Bytes
    <2>2. chunks' = [i \in {0} |-> [allocSize |-> n, size |-> n, data |-> data]]
      BY DEF OpenRead
    <2> HIDE DEF data
    <2>3. n \in Nat
      BY MemoryFileAssumption
    <2> QED BY <2>1, <2>2, <2>3 DEF Single
  <1>2. NumChunks' = 1 /\ Total' = n
    BY <1>1, NewSingle
  <1>3. Fields'
    BY MemoryFileAssumption DEF IInv, Fields, OpenRead
  <1>4. Shape' /\ Trim'
    BY <1>1, <1>2 DEF Shape, Trim, OpenRead
  <1>5. Reading' /\ Writing' /\ Flushing'
    BY DEF IInv, Shape, Reading, Writing, Flushing, OpenRead
  <1> QED BY <1>3, <1>4, <1>5 DEF IInv

LEMMA CloseStep ==
    ASSUME IInv, Close
    PROVE  IInv'
  <1>1. (mode = "closed" /\ virtualStartPos = 0 /\ chunks = <<>> /\ position = 0 /\ eof = FALSE
         /\ pc = "idle" /\ target = NoTarget)'
    BY DEF Close
  <1>2. Level(chunks', 0, 0)
    <2>1. 0 \in 0 .. ChunkSize * 0
      BY MemoryFileAssumption
    <2>2. \A i \in 0 .. 0 - 1 : FALSE
      OBVIOUS
    <2>3. chunks' = [i \in 0 .. 0 - 1 |-> chunks'[i]]
      BY <1>1
    <2> QED BY <2>1, <2>2, <2>3 DEF Level
  <1>3. NumChunks' = 0 /\ Total' = 0
    BY <1>2, NewLevel
  <1>4. Shape'
    BY <1>1, <1>2, <1>3 DEF Shape
  <1>5. Fields'
    <2>1. target' \in [done : BOOLEAN, size : Nat, bytes : [Watched -> Bytes]]
      BY <1>1, NoTargetType
    <2>2. call' = call
      BY DEF Close
    <2> QED BY <1>1, <2>1, <2>2 DEF IInv, Fields
  <1> QED BY <1>1, <1>3, <1>4, <1>5 DEF IInv, Trim, Reading, Writing, Flushing

LEMMA SeekStep ==
    ASSUME IInv, NEW p \in 0 .. MaxSize + virtualStartPos, Seek(p)
    PROVE  IInv'
  <1>0. NumChunks' = NumChunks /\ Total' = Total /\ chunks' = chunks
    BY SameChunks DEF Seek
  <1>1. Fields'
    <2>1. virtualStartPos \in Nat /\ MaxSize \in Nat
      BY MemoryFileAssumption DEF IInv, Fields
    <2>2. p \in Nat /\ p - virtualStartPos >= 0 /\ position' = p - virtualStartPos
      BY <2>1 DEF Seek, FromStart
    <2>3. position' \in Nat
      BY <2>1, <2>2
    <2> QED BY <2>3 DEF IInv, Fields, Seek
  <1>2. Shape' /\ Trim'
    BY <1>0 DEF IInv, Shape, Trim, Seek
  <1> QED BY <1>1, <1>2 DEF IInv, Reading, Writing, Flushing, Seek

LEMMA SeekEndStep ==
    ASSUME IInv, SeekEnd
    PROVE  IInv'
  <1>0. NumChunks' = NumChunks /\ Total' = Total /\ chunks' = chunks
    BY SameChunks DEF SeekEnd
  <1>1. Fields'
    <2>1. FileSize = Total /\ Total \in Nat
      BY InvFacts DEF Facts, SeekEnd
    <2> QED BY <2>1 DEF IInv, Fields, SeekEnd
  <1>2. Shape' /\ Trim'
    BY <1>0 DEF IInv, Shape, Trim, SeekEnd
  <1> QED BY <1>1, <1>2 DEF IInv, Reading, Writing, Flushing, SeekEnd

LEMMA ReadStep ==
    ASSUME IInv, NEW count \in 1 .. MaxCount, Read(count)
    PROVE  IInv'
  <1>0. NumChunks' = NumChunks /\ Total' = Total /\ chunks' = chunks
    BY SameChunks DEF Read
  <1>1. NumChunks \in Nat /\ position \in Nat
    BY InvFacts DEF Facts, IInv, Fields
  <1>2. /\ IndexAt(position, NumChunks) \in 0 .. NumChunks - 1
        /\ OffsetAt(position, NumChunks) \in Nat
        /\ OffsetAt(position, NumChunks) <= chunks[IndexAt(position, NumChunks)].size
        /\ position = ChunkSize * IndexAt(position, NumChunks) + OffsetAt(position, NumChunks)
    BY <1>1, PlaceIs DEF Read
  <1>3. call' = [op |-> "read", rem |-> count, value |-> Junk,
                 index |-> IndexAt(position, NumChunks), offset |-> OffsetAt(position, NumChunks)]
    BY DEF Read, NoCall
  <1>4. Fields'
    BY <1>1, <1>2, <1>3 DEF IInv, Fields, Read, Bytes
  <1>5. Shape' /\ Trim'
    BY <1>0 DEF IInv, Shape, Trim, Read
  <1>6. Reading'
    BY <1>0, <1>1, <1>2, <1>3 DEF Reading, Read
  <1> QED BY <1>4, <1>5, <1>6 DEF IInv, Writing, Flushing, Read

LEMMA ReadReturnsStep ==
    ASSUME IInv, ReadReturns
    PROVE  IInv'
  <1>0. NumChunks' = NumChunks /\ Total' = Total /\ chunks' = chunks
    BY SameChunks DEF ReadReturns
  <1>1. Fields'
    BY DEF IInv, Fields, ReadReturns, Return, NoCall, Bytes
  <1>2. Shape' /\ Trim'
    BY <1>0 DEF IInv, Shape, Trim, ReadReturns, Return
  <1> QED BY <1>1, <1>2 DEF IInv, Reading, Writing, Flushing, ReadReturns, Return

LEMMA FlushStep ==
    ASSUME IInv, Flush
    PROVE  IInv'
  <1>0. NumChunks' = NumChunks /\ Total' = Total /\ chunks' = chunks
    BY SameChunks DEF Flush
  <1>1. call' = [op |-> "flush", rem |-> 0, value |-> Junk, index |-> 0, offset |-> 0]
    BY DEF Flush, NoCall
  <1>2. Fields'
    <2>1. target' \in [done : BOOLEAN, size : Nat, bytes : [Watched -> Bytes]]
      BY NoTargetType DEF Flush
    <2>2. call' \in [op : {"none", "read", "write", "flush"}, rem : Nat, value : Bytes, index : Nat, offset : Nat]
      BY <1>1 DEF Bytes
    <2> QED BY <2>1, <2>2 DEF IInv, Fields, Flush
  <1>3. Shape' /\ Trim'
    BY <1>0 DEF IInv, Shape, Trim, Flush
  <1>4. Flushing'
    BY <1>0, <1>1, InvFacts DEF Flushing, Flush, NoTarget, Facts
  <1> QED BY <1>2, <1>3, <1>4 DEF IInv, Reading, Writing, Flush

LEMMA FlushReturnsStep ==
    ASSUME IInv, FlushReturns
    PROVE  IInv'
  <1>0. NumChunks' = NumChunks /\ Total' = Total /\ chunks' = chunks
    BY SameChunks DEF FlushReturns
  <1>1. Fields'
    BY DEF IInv, Fields, FlushReturns, Return, NoCall, Bytes
  <1>2. Shape' /\ Trim'
    BY <1>0 DEF IInv, Shape, Trim, FlushReturns, Return
  <1> QED BY <1>1, <1>2 DEF IInv, Reading, Writing, Flushing, FlushReturns, Return

LEMMA FlushFailsStep ==
    ASSUME IInv, FlushFails
    PROVE  IInv'
  <1>0. NumChunks' = NumChunks /\ Total' = Total /\ chunks' = chunks
    BY SameChunks DEF FlushFails
  <1>1. Fields'
    BY DEF IInv, Fields, FlushFails, Return, NoCall, Bytes
  <1>2. Shape' /\ Trim'
    BY <1>0 DEF IInv, Shape, Trim, FlushFails, Return
  <1> QED BY <1>1, <1>2 DEF IInv, Reading, Writing, Flushing, FlushFails, Return

(* A chunk before the last one ends where the next one begins, the last    *)
(* one at the end of the file.                                             *)
LEMMA ChunkEnds ==
    ASSUME IInv, pc # "write", NEW i \in Nat, i < NumChunks
    PROVE  /\ chunks[i].size \in Nat /\ chunks[i].allocSize \in Nat
           /\ chunks[i].size <= chunks[i].allocSize
           /\ chunks[i].data \in [0 .. chunks[i].allocSize - 1 -> Bytes]
           /\ i + 1 < NumChunks => ChunkSize * i + chunks[i].size = ChunkSize * (i + 1)
           /\ i + 1 = NumChunks => ChunkSize * i + chunks[i].size = Total
           /\ ChunkSize * i + chunks[i].size <= Total
  <1>1. /\ NumChunks \in Nat /\ Total \in Nat /\ FileSize = Total
        /\ mode = "readOnly" => NumChunks = 1
        /\ mode # "readOnly" => ChunkSize * (NumChunks - 1) < Total
    BY InvFacts DEF Facts
  <1>2. CASE mode = "readOnly"
    <2>1. i = 0 /\ NumChunks = 1 /\ Single(chunks, Total)
      BY <1>1, <1>2 DEF IInv, Shape
    <2>2. chunks[0].allocSize = Total /\ chunks[0].size = Total /\ chunks[0].data \in [0 .. Total - 1 -> Bytes]
      BY <2>1, SingleFacts
    <2>3. ChunkSize * 0 = 0
      BY MemoryFileAssumption
    <2> QED BY <1>1, <2>1, <2>2, <2>3
  <1>3. CASE mode # "readOnly"
    <2>1. Level(chunks, NumChunks, Total) /\ i \in 0 .. NumChunks - 1
      BY <1>1, <1>3 DEF IInv, Shape
    <2>2. /\ chunks[i].allocSize = ChunkSize /\ chunks[i].size = Fill(Total, i)
          /\ chunks[i].size \in 0 .. ChunkSize /\ chunks[i].data \in [0 .. ChunkSize - 1 -> Bytes]
          /\ Total <= ChunkSize * NumChunks
      BY <2>1, LevelFacts
    <2>3. ChunkSize * i \in Nat /\ ChunkSize * (NumChunks - 1) \in Nat /\ ChunkSize * (i + 1) = ChunkSize * i + ChunkSize
      BY <1>1, Product, OneMore
    <2>4. CASE i + 1 < NumChunks
      <3>1. ChunkSize * i + ChunkSize <= ChunkSize * (NumChunks - 1)
        BY <1>1, <2>4, Order
      <3>2. ChunkSize * i + ChunkSize <= Total
        BY <1>1, <1>3, <2>3, <3>1, MemoryFileAssumption
      <3>3. Fill(Total, i) = ChunkSize
        BY <1>1, <3>2, FillIs
      <3> QED BY <1>1, <2>2, <2>3, <2>4, <3>2, <3>3, MemoryFileAssumption
    <2>5. CASE i + 1 = NumChunks
      <3>1. i = NumChunks - 1 /\ NumChunks # 0
        BY <1>1, <2>5
      <3>2. ChunkSize * i + chunks[i].size = Total
        BY <1>1, <3>1 DEF FileSize, SizeOf
      <3> QED BY <1>1, <2>2, <2>5, <3>2, MemoryFileAssumption
    <2> QED BY <1>1, <2>4, <2>5
  <1> QED BY <1>2, <1>3

(* What the position, index and offset are after a piece of a read.        *)
LEMMA ReadPiece ==
    ASSUME IInv, ReadChunk
    PROVE  /\ position' \in Nat /\ position <= position' /\ position' <= Total
           /\ call'.rem \in Nat /\ call'.index \in Nat /\ call'.offset \in Nat
           /\ call' = [call EXCEPT !.rem = call'.rem, !.index = call'.index, !.offset = call'.offset]
           /\ call'.index <= NumChunks
           /\ call'.index < NumChunks =>
                 /\ position' = ChunkSize * call'.index + call'.offset
                 /\ call'.offset <= chunks[call'.index].size
           /\ call'.index = NumChunks => position' >= Total
  <1> DEFINE i == call.index
             o == call.offset
             s == chunks[call.index].size
             n == Larger(0, Smaller(s - o, call.rem))
  <1>1. /\ i \in Nat /\ i < NumChunks /\ o \in Nat /\ o <= s /\ position = ChunkSize * i + o
        /\ call.rem \in Nat /\ position \in Nat
    BY DEF IInv, Fields, Reading, ReadChunk
  <1>2. /\ s \in Nat
        /\ i + 1 < NumChunks => ChunkSize * i + s = ChunkSize * (i + 1)
        /\ i + 1 = NumChunks => ChunkSize * i + s = Total
        /\ ChunkSize * i + s <= Total
    BY <1>1, ChunkEnds DEF ReadChunk
  <1>3. NumChunks \in Nat /\ Total \in Nat /\ ChunkSize * i \in Nat /\ ChunkSize * (i + 1) \in Nat
    BY <1>1, InvFacts, Product, SMTT(30) DEF Facts
  <1>4. /\ position' = position + n
        /\ call' = [call EXCEPT !.rem = @ - n,
                        !.index = IF o + n >= s THEN i + 1 ELSE i,
                        !.offset = IF o + n >= s THEN 0 ELSE o + n]
    BY DEF ReadChunk, Ended
  <1>5. n \in Nat /\ n <= call.rem /\ o + n <= s
    <2> HIDE DEF s, o
    <2> QED BY <1>1, <1>2 DEF Larger, Smaller
  <1> HIDE DEF n
  <1>6. call \in [op : {"none", "read", "write", "flush"}, rem : Nat, value : Bytes, index : Nat, offset : Nat]
    BY DEF IInv, Fields
  <1>7. /\ call'.rem = call.rem - n
        /\ call'.index = IF o + n >= s THEN i + 1 ELSE i
        /\ call'.offset = IF o + n >= s THEN 0 ELSE o + n
        /\ call' = [call EXCEPT !.rem = call'.rem, !.index = call'.index, !.offset = call'.offset]
    BY <1>4, <1>6
  <1> DEFINE b == ChunkSize * i
             c == ChunkSize * (i + 1)
  <1>8. position' = b + o + n /\ position' \in Nat /\ position <= position' /\ position' <= Total
    <2> HIDE DEF b, o, s, i
    <2>1. b \in Nat /\ position = b + o /\ b + s <= Total
      BY <1>1, <1>2, <1>3 DEF b
    <2> QED BY <1>1, <1>2, <1>3, <1>4, <1>5, <2>1
  <1>9. CASE o + n >= s
    <2>1. call'.index = i + 1 /\ call'.offset = 0
      BY <1>7, <1>9
    <2>2. o + n = s
      BY <1>1, <1>2, <1>5, <1>9
    <2>3. position' = b + s
      BY <1>1, <1>2, <1>3, <1>5, <1>8, <2>2
    <2>4. i + 1 < NumChunks => chunks[i + 1].size \in Nat
      BY <1>1, <1>3, ChunkEnds, SMTT(30) DEF ReadChunk
    <2>5. i + 1 < NumChunks => position' = ChunkSize * call'.index + call'.offset
      <3> HIDE DEF i, s
      <3> QED BY <1>2, <1>3, <2>1, <2>3
    <2> HIDE DEF i, o, s, b, c
    <2> QED BY <1>1, <1>2, <1>3, <1>5, <1>7, <1>8, <2>1, <2>3, <2>4, <2>5 DEF b
  <1>10. CASE ~(o + n >= s)
    <2>1. call'.index = i /\ call'.offset = o + n
      BY <1>7, <1>10
    <2>2. position' = ChunkSize * call'.index + call'.offset
      <3> HIDE DEF i, o
      <3> QED BY <1>1, <1>3, <1>5, <1>8, <2>1
    <2> QED BY <1>1, <1>2, <1>3, <1>5, <1>7, <1>8, <1>10, <2>1, <2>2
  <1> QED BY <1>9, <1>10

LEMMA ReadChunkStep ==
    ASSUME IInv, ReadChunk
    PROVE  IInv'
  <1>0. /\ NumChunks' = NumChunks /\ Total' = Total /\ chunks' = chunks
        /\ \A i : chunks'[i] = chunks[i]
    BY SameChunks DEF ReadChunk
  <1>1. Fields'
    <2>1. call \in [op : {"none", "read", "write", "flush"}, rem : Nat, value : Bytes, index : Nat, offset : Nat]
      BY DEF IInv, Fields
    <2>2. call' \in [op : {"none", "read", "write", "flush"}, rem : Nat, value : Bytes, index : Nat, offset : Nat]
      BY <2>1, ReadPiece
    <2>3. position' \in Nat
      BY ReadPiece
    <2> QED BY <2>2, <2>3 DEF IInv, Fields, ReadChunk
  <1>2. Shape' /\ Trim'
    <2>1. UNCHANGED <<mode, virtualStartPos, chunks, eof, pc, target>> /\ pc = "read"
      BY DEF ReadChunk
    <2>2. mode # "closed"
      BY <2>1 DEF IInv, Shape
    <2> QED BY <1>0, <2>1, <2>2 DEF IInv, Shape, Trim
  <1>3. Reading'
    BY <1>0, ReadPiece DEF Reading, ReadChunk
  <1> QED BY <1>1, <1>2, <1>3 DEF IInv, Writing, Flushing, ReadChunk

LEMMA FlushChunkStep ==
    ASSUME IInv, FlushChunk
    PROVE  IInv'
  <1>0. /\ NumChunks' = NumChunks /\ Total' = Total /\ chunks' = chunks
    BY SameChunks DEF FlushChunk
  <1>1. NumChunks \in Nat /\ call.index \in Nat /\ call.index < NumChunks
    BY InvFacts DEF Facts, FlushChunk, IInv, Fields
  <1>2. /\ chunks[call.index].size \in Nat /\ chunks[call.index].allocSize \in Nat
        /\ chunks[call.index].size <= chunks[call.index].allocSize
        /\ chunks[call.index].data \in [0 .. chunks[call.index].allocSize - 1 -> Bytes]
    BY <1>1, ChunkEnds DEF FlushChunk
  <1>3. PICK n \in IF FlushLength(call.index) = 0 THEN {0} ELSE Taken(FlushLength(call.index)) :
          target' = [target EXCEPT !.size = @ + n,
                        !.bytes = [w \in Watched |->
                            LET o == w - virtualStartPos - target.size
                            IN  IF 0 <= o /\ o < n THEN chunks[call.index].data[o] ELSE @[w]]]
    BY DEF FlushChunk
  <1>4. n \in 0 .. chunks[call.index].size
    BY <1>2 DEF FlushLength, Taken
  <1>5. target' \in [done : BOOLEAN, size : Nat, bytes : [Watched -> Bytes]] /\ target'.done = target.done
    <2>1. target \in [done : BOOLEAN, size : Nat, bytes : [Watched -> Bytes]] /\ virtualStartPos \in Nat
      BY DEF IInv, Fields
    <2> DEFINE new == [w \in Watched |->
                          LET o == w - virtualStartPos - target.size
                          IN  IF 0 <= o /\ o < n THEN chunks[call.index].data[o] ELSE target.bytes[w]]
    <2>2. new \in [Watched -> Bytes]
      <3>1. ASSUME NEW w \in Watched,
                   0 <= w - virtualStartPos - target.size, w - virtualStartPos - target.size < n
            PROVE  chunks[call.index].data[w - virtualStartPos - target.size] \in Bytes
        <4>1. w \in Nat /\ target.size \in Nat
          BY <2>1, MemoryFileAssumption
        <4> DEFINE o == w - virtualStartPos - target.size
        <4>3. o \in Int /\ 0 <= o /\ o < n
          BY <2>1, <3>1, <4>1
        <4> HIDE DEF o
        <4>5. o \in 0 .. chunks[call.index].allocSize - 1
          BY <1>2, <1>4, <4>3
        <4>2. w - virtualStartPos - target.size \in 0 .. chunks[call.index].allocSize - 1
          BY <4>5 DEF o
        <4> QED BY <1>2, <4>2
      <3>2. \A w \in Watched : target.bytes[w] \in Bytes
        BY <2>1
      <3> QED BY <3>1, <3>2
    <2>3. target' = [target EXCEPT !.size = @ + n, !.bytes = new]
      BY <1>3
    <2> HIDE DEF new
    <2>4. target.size + n \in Nat
      BY <1>2, <1>4, <2>1
    <2> QED BY <2>1, <2>2, <2>3, <2>4
  <1>6. call' = [call EXCEPT !.index = call.index + 1]
    BY DEF FlushChunk
  <1>7. call' \in [op : {"none", "read", "write", "flush"}, rem : Nat, value : Bytes, index : Nat, offset : Nat]
    BY <1>1, <1>6 DEF IInv, Fields
  <1>8. Fields'
    BY <1>5, <1>7 DEF IInv, Fields, FlushChunk
  <1>9. Shape' /\ Trim'
    <2>1. UNCHANGED <<mode, virtualStartPos, chunks, position, eof, pc>> /\ pc = "flush"
      BY DEF FlushChunk
    <2>2. mode # "closed"
      BY <2>1 DEF IInv, Shape
    <2> QED BY <1>0, <2>1, <2>2 DEF IInv, Shape, Trim
  <1>10. Flushing'
    <2>1. call'.index = call.index + 1
      BY <1>6 DEF IInv, Fields
    <2>2. call'.index <= NumChunks'
      BY <1>0, <1>1, <2>1
    <2>3. ~target.done
      BY DEF IInv, Flushing, FlushChunk
    <2>4. ~target'.done
      BY <1>5, <2>3
    <2> QED BY <2>2, <2>4 DEF Flushing
  <1> QED BY <1>8, <1>9, <1>10 DEF IInv, Reading, Writing, FlushChunk

(* A call that leaves no chunks leaves nothing.                            *)
LEMMA NothingIsLeft ==
    ASSUME ~LeavesChunks, NEW count \in 1 .. MaxCount, ExtendFails(count)
    PROVE  UNCHANGED vars
  BY DEF LeavesChunks, ExtendFails, vars

LEMMA ExtendFailsStep ==
    ASSUME IInv, NoChunkIsLeft, NEW count \in 1 .. MaxCount, ExtendFails(count)
    PROVE  UNCHANGED vars
  <1>1. PICK k \in 0 .. NumExtendChunks(count) - 1 :
           /\ IF k = 0 THEN "realloc" \in Failures ELSE "malloc" \in Failures
           /\ chunks' = Extended(k)
    BY DEF ExtendFails
  <1>2. k = 0
    BY <1>1 DEF NoChunkIsLeft
  <1>3. NumChunks \in Nat /\ chunks = [i \in 0 .. NumChunks - 1 |-> chunks[i]]
    BY InvFacts DEF Facts
  <1>4. chunks' = chunks
    <2>1. chunks' = [i \in 0 .. NumChunks + 0 - 1 |-> IF i < NumChunks THEN chunks[i] ELSE NewChunk]
      BY <1>1, <1>2 DEF Extended
    <2>2. NumChunks + 0 - 1 = NumChunks - 1 /\ \A i \in 0 .. NumChunks - 1 : i < NumChunks
      BY <1>3
    <2>3. chunks' = [i \in 0 .. NumChunks - 1 |-> chunks[i]]
      BY <2>1, <2>2
    <2> QED BY <1>3, <2>3
  <1> QED BY <1>4 DEF ExtendFails, vars

(* The bytes that the write in progress writes next, and what the chunk    *)
(* holds then.                                                             *)
Piece == Larger(0, Smaller(ChunkSize - call.offset, call.rem))
Written ==
    [o \in 0 .. ChunkSize - 1 |->
        IF call.offset <= o /\ o < call.offset + Piece
        THEN IF virtualStartPos + call.index * ChunkSize + o \in Watched THEN call.value ELSE Junk
        ELSE chunks[call.index].data[o]]

LEMMA PieceIs ==
    ASSUME IInv, pc = "write"
    PROVE  /\ call.index \in 0 .. NumChunks - 1 /\ call.index \in Nat
           /\ call.offset \in Nat /\ call.rem \in Nat
           /\ Piece \in Nat /\ Piece > 0 /\ Piece <= call.rem
           /\ call.offset + Piece <= ChunkSize
           /\ call.offset + Piece < ChunkSize => Piece = call.rem
           /\ Level(chunks, NumChunks, Total)
           /\ position = ChunkSize * call.index + call.offset
           /\ position <= Total
           /\ Written \in [0 .. ChunkSize - 1 -> Bytes]
  <1>1. /\ call.index \in Nat /\ call.offset \in Nat /\ call.rem \in Nat /\ call.value \in Bytes
        /\ NumChunks \in Nat
    BY InvFacts DEF Facts, IInv, Fields
  <1>2. /\ call.index < NumChunks /\ call.offset < ChunkSize /\ call.rem > 0 /\ mode = "new"
        /\ position = ChunkSize * call.index + call.offset
        /\ position <= Total
    BY DEF IInv, Writing
  <1>3. /\ Piece \in Nat /\ Piece > 0 /\ Piece <= call.rem
        /\ call.offset + Piece <= ChunkSize
        /\ call.offset + Piece < ChunkSize => Piece = call.rem
    BY <1>1, <1>2, MemoryFileAssumption DEF Piece, Larger, Smaller
  <1>4. Level(chunks, NumChunks, Total)
    BY <1>2 DEF IInv, Shape
  <1>5. call.index \in 0 .. NumChunks - 1
    BY <1>1, <1>2
  <1>6. chunks[call.index].data \in [0 .. ChunkSize - 1 -> Bytes]
    BY <1>4, <1>5, LevelFacts
  <1>7. Written \in [0 .. ChunkSize - 1 -> Bytes]
    <2>1. \A o \in 0 .. ChunkSize - 1 : chunks[call.index].data[o] \in Bytes
      BY <1>6
    <2>2. Junk \in Bytes
      BY DEF Bytes
    <2> QED BY <1>1, <2>1, <2>2 DEF Written
  <1> QED BY <1>1, <1>2, <1>3, <1>4, <1>5, <1>7

LEMMA WritePiece ==
    ASSUME IInv, WriteChunk
    PROVE  /\ position' = position + Piece
           /\ Level(chunks', NumChunks, Larger(Total, position'))
           /\ chunks'[call.index].data = Written
           /\ \A j \in 0 .. NumChunks - 1 : j # call.index => chunks'[j] = chunks[j]
           /\ NumChunks' = NumChunks /\ Total' = Larger(Total, position')
  <1> DEFINE i == call.index
  <1>1. pc = "write"
    BY DEF WriteChunk
  <1>2. /\ i \in 0 .. NumChunks - 1 /\ i \in Nat
        /\ call.offset \in Nat /\ Piece \in Nat
        /\ call.offset + Piece <= ChunkSize
        /\ Level(chunks, NumChunks, Total)
        /\ position = ChunkSize * i + call.offset
        /\ position <= Total
        /\ Written \in [0 .. ChunkSize - 1 -> Bytes]
    BY <1>1, PieceIs
  <1>3. /\ chunks[i] = [allocSize |-> ChunkSize, size |-> Fill(Total, i), data |-> chunks[i].data]
        /\ chunks[i].data \in [0 .. ChunkSize - 1 -> Bytes]
        /\ chunks = [j \in 0 .. NumChunks - 1 |-> chunks[j]]
    BY <1>2 DEF Level
  <1>4. Larger(0, Smaller(chunks[i].allocSize - call.offset, call.rem)) = Piece
    BY <1>3 DEF Piece
  <1>5. position' = position + Piece
    BY <1>4 DEF WriteChunk
  <1>6. chunks' = [chunks EXCEPT ![i] =
                      [chunks[i] EXCEPT !.size = Larger(Fill(Total, i), call.offset + Piece), !.data = Written]]
    <2>1. DOMAIN chunks[i].data = 0 .. ChunkSize - 1 /\ chunks[i].size = Fill(Total, i)
      BY <1>3
    <2>2. chunks' = [chunks EXCEPT ![i] =
                        [chunks[i] EXCEPT !.size = Grown(chunks[i].size, call.offset + Piece),
                            !.data = [o \in DOMAIN chunks[i].data |->
                                      IF call.offset <= o /\ o < call.offset + Piece
                                      THEN IF virtualStartPos + i * ChunkSize + o \in Watched THEN call.value ELSE Junk
                                      ELSE chunks[i].data[o]]]]
      BY <1>4 DEF WriteChunk
    <2> QED BY <2>1, <2>2 DEF Written, Grown
  <1>7. OneChanged(chunks', chunks, NumChunks, i, Larger(Fill(Total, i), call.offset + Piece), Written)
    <2> DEFINE size == Larger(Fill(Total, i), call.offset + Piece)
               new == [allocSize |-> ChunkSize, size |-> size, data |-> Written]
    <2>1. [chunks[i] EXCEPT !.size = size, !.data = Written] = new
      <3> DEFINE before == chunks[i]
                 fill == Fill(Total, i)
                 data == before.data
      <3>1. before = [allocSize |-> ChunkSize, size |-> fill, data |-> data]
        BY <1>3
      <3> HIDE DEF before, fill, data, size
      <3> DEFINE after == [before EXCEPT !.size = size, !.data = Written]
                 fields == {"allocSize", "size", "data"}
      <3>2. after = [x \in fields |-> after[x]] /\ new = [x \in fields |-> new[x]]
        BY <3>1
      <3>3. after.allocSize = ChunkSize /\ after.size = size /\ after.data = Written
        BY <3>1
      <3>4. new.allocSize = ChunkSize /\ new.size = size /\ new.data = Written
        OBVIOUS
      <3> HIDE DEF after, new
      <3>5. \A x \in fields : after[x] = new[x]
        BY <3>3, <3>4
      <3>6. after = new
        BY <3>2, <3>5
      <3> QED BY <3>6 DEF after, before
    <2>2. chunks' = [chunks EXCEPT ![i] = new]
      BY <1>6, <2>1
    <2> HIDE DEF new, i
    <2>3. chunks' = [j \in 0 .. NumChunks - 1 |-> IF j = i THEN new ELSE chunks[j]]
      BY <1>2, <1>3, <2>2
    <2> QED BY <2>3 DEF OneChanged, new
  <1>8. ChunkSize * i + call.offset + Piece = position'
    BY <1>2, <1>5
  <1>9. /\ Level(chunks', NumChunks, Larger(Total, position'))
        /\ chunks'[i].data = Written
        /\ \A j \in 0 .. NumChunks - 1 : j # i => chunks'[j] = chunks[j]
    <2> DEFINE size == Larger(Fill(Total, i), call.offset + Piece)
               p == ChunkSize * i + call.offset + Piece
    <2>1. ChunkSize * i + call.offset <= Total
      BY <1>2
    <2>2. /\ Overwrites(chunks, NumChunks, Total, i, call.offset, Piece, Written, size, p)
          /\ OneChanged(chunks', chunks, NumChunks, i, size, Written)
      BY <1>2, <1>7, <2>1 DEF Overwrites
    <2> HIDE DEF i, size, p
    <2>3. /\ Level(chunks', NumChunks, Larger(Total, p))
          /\ chunks'[i].data = Written
          /\ \A j \in 0 .. NumChunks - 1 : j # i => chunks'[j] = chunks[j]
      BY <2>2, Overwriting
    <2> QED BY <1>8, <2>3 DEF p
  <1> QED BY <1>5, <1>9, NewLevel

LEMMA WriteChunkStep ==
    ASSUME IInv, WriteChunk
    PROVE  IInv'
  <1> DEFINE i == call.index
             o == call.offset
             n == Piece
             r == call.rem
             base == ChunkSize * call.index
             all == ChunkSize * NumChunks
  <1>1. pc = "write" /\ mode = "new" /\ mode' = mode /\ target' = target /\ virtualStartPos' = virtualStartPos
        /\ eof' = eof /\ ~target.done /\ call.value \in Values
    BY DEF WriteChunk, IInv, Writing
  <1>2. /\ i \in 0 .. NumChunks - 1 /\ i \in Nat /\ o \in Nat /\ r \in Nat
        /\ n \in Nat /\ n > 0 /\ n <= r
        /\ o + n <= ChunkSize
        /\ o + n < ChunkSize => n = r
        /\ position = base + o /\ position <= Total
        /\ Level(chunks, NumChunks, Total)
    BY <1>1, PieceIs
  <1>3. /\ position' = position + n
        /\ Level(chunks', NumChunks, Larger(Total, position'))
        /\ NumChunks' = NumChunks /\ Total' = Larger(Total, position')
    BY WritePiece
  <1>4. /\ NumChunks \in Nat /\ Total \in Nat /\ base \in Nat /\ all \in Nat
        /\ position + r <= all
        /\ ChunkSize * (i + 1) = base + ChunkSize
        /\ ChunkSize * (NumChunks - 1) \in Int
        /\ ChunkSize * (NumChunks - 1) < Larger(Total, position + r)
    <2>1. NumChunks \in Nat /\ Total \in Nat
      BY InvFacts DEF Facts
    <2>2. NumChunks > 0 /\ NumChunks - 1 \in Nat
      BY <1>2, <2>1
    <2>3. base \in Nat /\ all \in Nat /\ ChunkSize * (i + 1) = base + ChunkSize /\ ChunkSize * (NumChunks - 1) \in Nat
      BY <1>2, <2>1, <2>2, Product, OneMore
    <2>4. ChunkSize * (NumChunks - 1) < Larger(Total, position + r)
      BY <1>1, <2>2 DEF IInv, Trim
    <2>5. position + r <= all
      BY <1>1 DEF IInv, Writing
    <2> QED BY <2>1, <2>3, <2>4, <2>5
  <1>5. chunks[i].allocSize = ChunkSize
    BY <1>2, LevelFacts
  <1>6. \/ r = n /\ pc' = "idle" /\ call' = NoCall
        \/ /\ r # n /\ pc' = "write"
           /\ call' = [call EXCEPT !.rem = r - n,
                           !.index = IF o + n >= ChunkSize THEN i + 1 ELSE i,
                           !.offset = IF o + n >= ChunkSize THEN 0 ELSE o + n]
    BY <1>1, <1>5 DEF WriteChunk, Return, Ended, Piece
  <1>7. Shape'
    BY <1>1, <1>3 DEF Shape
  <1> HIDE DEF i, o, n, r, base, all
  <1>8. position' \in Nat
    BY <1>2, <1>3, <1>4
  <1>9. CASE r = n
    <2>1. pc' = "idle" /\ call' = NoCall
      BY <1>6, <1>9
    <2>2. Fields'
      BY <1>1, <1>8, <2>1 DEF IInv, Fields, NoCall, Bytes
    <2>3. Trim'
      <3>1. Total' = Larger(Total, position + r)
        BY <1>3, <1>9
      <3> QED BY <1>3, <1>4, <2>1, <3>1 DEF Trim
    <2> QED BY <1>7, <2>1, <2>2, <2>3 DEF IInv, Reading, Writing, Flushing
  <1>10. CASE r # n
    <2>1. o + n = ChunkSize
      BY <1>2, <1>10, MemoryFileAssumption
    <2>2. pc' = "write" /\ call' = [call EXCEPT !.rem = r - n, !.index = i + 1, !.offset = 0]
      <3>1. o + n >= ChunkSize
        BY <2>1, MemoryFileAssumption
      <3> QED BY <1>6, <1>10, <3>1
    <2>3. call \in [op : {"none", "read", "write", "flush"}, rem : Nat, value : Bytes, index : Nat, offset : Nat]
      BY DEF IInv, Fields
    <2>4. call'.rem = r - n /\ call'.index = i + 1 /\ call'.offset = 0 /\ call'.value = call.value
      BY <2>2, <2>3
    <2>5. r - n \in Nat /\ r - n > 0
      BY <1>2, <1>10
    <2>6. Fields'
      <3>1. call' \in [op : {"none", "read", "write", "flush"}, rem : Nat, value : Bytes, index : Nat, offset : Nat]
        <4> DEFINE k == r - n
                   j == i + 1
        <4>1. k \in Nat /\ j \in Nat
          BY <1>2, <2>5
        <4> HIDE DEF k, j
        <4> QED BY <2>2, <2>3, <4>1 DEF k, j
      <3> QED BY <1>1, <1>8, <2>2, <3>1 DEF IInv, Fields
    <2>7. position' = base + ChunkSize /\ position' + (r - n) = position + r
      BY <1>2, <1>3, <1>4, <2>1, MemoryFileAssumption
    <2>8. i + 1 < NumChunks
      <3>1. i + 1 \in Nat /\ i + 1 <= NumChunks
        BY <1>2, <1>4
      <3>2. i + 1 # NumChunks
        <4> SUFFICES ASSUME i + 1 = NumChunks PROVE FALSE
          OBVIOUS
        <4>1. all = base + ChunkSize
          BY <1>4 DEF all
        <4> QED BY <1>4, <1>8, <2>5, <2>7, <4>1, MemoryFileAssumption
      <3> QED BY <1>4, <3>1, <3>2
    <2>9. Trim'
      <3>1. Larger(Total', position' + call'.rem) >= Larger(Total, position + r)
        <4>1. Total' \in Nat /\ Total' >= Total /\ position + r \in Nat
          BY <1>2, <1>3, <1>4, <1>8 DEF Larger
        <4> QED BY <1>4, <2>4, <2>7, <4>1 DEF Larger
      <3>2. Larger(Total', position' + call'.rem) \in Int /\ Larger(Total, position + r) \in Int
        BY <1>2, <1>3, <1>4, <1>8, <2>4, <2>5 DEF Larger
      <3>3. ChunkSize * (NumChunks - 1) < Larger(Total', position' + call'.rem)
        BY <1>4, <3>1, <3>2
      <3> QED BY <1>3, <2>2, <3>3 DEF Trim
    <2>10. Writing'
      <3>1. position' <= Total'
        BY <1>3, <1>4, <1>8 DEF Larger
      <3>2. position' = ChunkSize * call'.index + call'.offset
        BY <1>4, <2>4, <2>7, <1>8
      <3>3. position' + call'.rem <= ChunkSize * NumChunks'
        BY <1>3, <1>4, <2>4, <2>7 DEF all
      <3>4. call'.rem > 0 /\ call'.value \in Values /\ call'.index < NumChunks' /\ call'.offset < ChunkSize
        BY <1>1, <1>3, <2>4, <2>5, <2>8, MemoryFileAssumption
      <3>5. mode' = "new" /\ ~target'.done
        BY <1>1
      <3> QED BY <3>1, <3>2, <3>3, <3>4, <3>5 DEF Writing
    <2> QED BY <1>7, <2>2, <2>6, <2>9, <2>10 DEF IInv, Reading, Flushing
  <1> QED BY <1>9, <1>10

-----------------------------------------------------------------------------
(* As many chunks are added as make room for what is to be written, and    *)
(* not one more.                                                           *)
LEMMA Rounding ==
    ASSUME NEW d \in Nat, d > 0
    PROVE  LET k == (d + ChunkSize - 1) \div ChunkSize
           IN  k \in Nat /\ k > 0 /\ d <= ChunkSize * k /\ ChunkSize * (k - 1) < d
  <1> DEFINE p == d + ChunkSize - 1
             k == p \div ChunkSize
  <1>1. p \in Nat /\ p >= ChunkSize
    BY MemoryFileAssumption
  <1> HIDE DEF p
  <1>2. k \in Nat /\ InChunk(p, k)
    BY <1>1, ChunkOf
  <1> HIDE DEF k
  <1>3. ChunkSize * k \in Nat /\ ChunkSize * k <= p /\ p < ChunkSize * k + ChunkSize
    BY <1>2, Product DEF InChunk
  <1>4. k # 0
    <2>1. ChunkSize * 0 = 0
      BY MemoryFileAssumption
    <2> QED BY <1>1, <1>3, <2>1, MemoryFileAssumption
  <1>5. k - 1 \in Nat
    BY <1>2, <1>4
  <1>6. ChunkSize * k = ChunkSize * (k - 1) + ChunkSize /\ ChunkSize * (k - 1) \in Nat
    <2>1. k - 1 + 1 = k
      BY <1>2
    <2> QED BY <1>5, <2>1, OneMore, Product
  <1>7. d <= ChunkSize * k /\ ChunkSize * (k - 1) < d
    BY <1>3, <1>6, MemoryFileAssumption DEF p
  <1> QED BY <1>2, <1>4, <1>7 DEF k, p

LEMMA Room ==
    ASSUME IInv, mode = "new", pc = "idle", NEW count \in Nat, count > 0
    PROVE  /\ NumExtendChunks(count) \in Nat
           /\ position + count <= ChunkSize * (NumChunks + NumExtendChunks(count))
           /\ NumChunks + NumExtendChunks(count) > 0
           /\ ChunkSize * (NumChunks + NumExtendChunks(count) - 1) < Larger(Total, position + count)
  <1> DEFINE k == NumExtendChunks(count)
             all == ChunkSize * NumChunks
             end == position + count
  <1>1. /\ NumChunks \in Nat /\ Total \in Nat /\ FileSize = Total /\ position \in Nat
        /\ NumChunks > 0 => ChunkSize * (NumChunks - 1) < Total
        /\ Level(chunks, NumChunks, Total)
    BY InvFacts DEF Facts, IInv, Fields, Shape
  <1>2. all \in Nat /\ Total <= all /\ end \in Nat /\ end > 0
    <2>1. all \in Nat
      BY <1>1, Product
    <2>2. Total <= all
      BY <1>1, LevelFacts
    <2>3. end \in Nat /\ end > 0
      BY <1>1
    <2> QED BY <2>1, <2>2, <2>3
  <1>3. Remainder = all - Total
    <2>1. CASE NumChunks = 0
      <3>1. all = 0
        BY <2>1, MemoryFileAssumption
      <3> QED BY <1>1, <1>2, <2>1, <3>1 DEF Remainder
    <2>2. CASE NumChunks > 0
      <3>1. NumChunks - 1 \in Nat /\ NumChunks - 1 \in 0 .. NumChunks - 1 /\ NumChunks - 1 + 1 = NumChunks
        BY <1>1, <2>2
      <3>2. chunks[NumChunks - 1].allocSize = ChunkSize /\ chunks[NumChunks - 1].size \in 0 .. ChunkSize
        BY <1>1, <3>1, LevelFacts
      <3>3. all = ChunkSize * (NumChunks - 1) + ChunkSize /\ ChunkSize * (NumChunks - 1) \in Nat
        BY <3>1, OneMore, Product
      <3>4. Total = ChunkSize * (NumChunks - 1) + chunks[NumChunks - 1].size
        BY <1>1, <2>2 DEF FileSize, SizeOf
      <3> HIDE DEF all
      <3> QED BY <1>1, <2>2, <3>2, <3>3, <3>4, MemoryFileAssumption DEF Remainder
    <2> QED BY <1>1, <2>1, <2>2
  <1>4. Missing(count) = end - Total
    BY <1>1 DEF Missing
  <1> HIDE DEF all
  <1>5. CASE end <= all
    <2>1. k = 0
      BY <1>1, <1>2, <1>3, <1>4, <1>5 DEF NumExtendChunks
    <2>2. NumChunks + k = NumChunks
      BY <1>1, <2>1
    <2>3. NumChunks > 0
      <3>1. ChunkSize * 0 = 0
        BY MemoryFileAssumption
      <3> QED BY <1>1, <1>2, <1>5, <3>1 DEF all
    <2>4. ChunkSize * (NumChunks - 1) < Larger(Total, end)
      <3>1. ChunkSize * (NumChunks - 1) \in Int
        BY <1>1, MemoryFileAssumption
      <3> QED BY <1>1, <1>2, <2>3, <3>1 DEF Larger
    <2> HIDE DEF k, end
    <2> QED BY <1>1, <1>2, <1>5, <2>1, <2>2, <2>3, <2>4 DEF all, k, end
  <1>6. CASE end > all
    <2> DEFINE d == end - all
    <2>1. d \in Nat /\ d > 0
      BY <1>2, <1>6
    <2>2. k = (d + ChunkSize - 1) \div ChunkSize
      <3>1. ~(Missing(count) <= Remainder)
        BY <1>1, <1>2, <1>3, <1>4, <1>6
      <3>2. Missing(count) - Remainder = d
        BY <1>1, <1>2, <1>3, <1>4
      <3> HIDE DEF d, end
      <3> QED BY <3>1, <3>2 DEF NumExtendChunks
    <2> HIDE DEF d
    <2>3. k \in Nat /\ k > 0 /\ d <= ChunkSize * k /\ ChunkSize * (k - 1) < d
      BY <2>1, <2>2, Rounding
    <2> HIDE DEF k
    <2>4. /\ ChunkSize * (NumChunks + k) = all + ChunkSize * k
          /\ ChunkSize * (NumChunks + k - 1) = all + ChunkSize * (k - 1)
          /\ ChunkSize * k \in Nat /\ ChunkSize * (k - 1) \in Int
      <3>1. NumChunks + k - 1 = NumChunks + (k - 1)
        BY <1>1, <2>3
      <3>2. \A a \in Nat, b \in Int : ChunkSize * (a + b) = ChunkSize * a + ChunkSize * b
        BY MemoryFileAssumption
      <3>3. k - 1 \in Nat
        BY <2>3
      <3> QED BY <1>1, <2>3, <3>1, <3>2, <3>3, Product DEF all
    <2>5. end <= all + ChunkSize * k /\ all + ChunkSize * (k - 1) < end
      <3> HIDE DEF end
      <3> QED BY <1>2, <2>3, <2>4 DEF d
    <2>6. all + ChunkSize * (k - 1) < Larger(Total, end)
      <3> HIDE DEF end
      <3> QED BY <1>1, <1>2, <2>4, <2>5 DEF Larger
    <2>7. NumChunks + k > 0
      BY <1>1, <2>3
    <2> HIDE DEF end
    <2> QED BY <2>3, <2>4, <2>5, <2>6, <2>7 DEF k, end
  <1> HIDE DEF end
  <1> QED BY <1>2, <1>5, <1>6

(* What the chunks are when a write begins.                                *)
LEMMA Preparing ==
    ASSUME IInv, HolesBeginAtChunks, NEW count \in Nat, count > 0, NEW v \in Values, Write(count, v)
    PROVE  LET m == NumChunks + NumExtendChunks(count)
           IN  /\ m \in Nat /\ m > 0 /\ NumChunks <= m
               /\ Level(chunks', m, Larger(Total, position))
               /\ NumChunks' = m /\ Total' = Larger(Total, position)
               /\ \A i \in 0 .. NumChunks - 1 : i \in 0 .. m - 1 /\ chunks'[i].data = chunks[i].data
               /\ \A i \in NumChunks .. m - 1 : chunks'[i].data = NewChunk.data
               /\ position > Total => Total = ChunkSize * NumChunks
  <1> DEFINE m == NumChunks + NumExtendChunks(count)
             new == Extended(NumExtendChunks(count))
  <1>1. /\ mode = "new" /\ pc = "idle" /\ HoleAllowed
        /\ chunks' = Prepared(count)
    BY DEF Write
  <1>2. /\ NumChunks \in Nat /\ Total \in Nat /\ FileSize = Total /\ position \in Nat
        /\ NumChunks > 0 => ChunkSize * (NumChunks - 1) < Total
        /\ Level(chunks, NumChunks, Total)
    BY <1>1, InvFacts DEF Facts, IInv, Fields, Shape
  <1>3. /\ NumExtendChunks(count) \in Nat
        /\ position + count <= ChunkSize * m /\ m > 0
    BY <1>1, Room
  <1>4. m \in Nat /\ NumChunks <= m
    BY <1>2, <1>3
  <1>5. new = [i \in 0 .. m - 1 |-> IF i < NumChunks THEN chunks[i] ELSE NewChunk]
    <2>1. NumChunks + NumExtendChunks(count) - 1 = m - 1
      BY <1>2, <1>3
    <2> QED BY <2>1 DEF Extended
  <1>6. chunks' = IF IsHole THEN HoleFilled(new, m) ELSE new
    BY <1>1 DEF Prepared
  <1> HIDE DEF m, new
  <1>7. /\ Level(new, m, Total)
        /\ \A i \in 0 .. NumChunks - 1 : i \in 0 .. m - 1 /\ new[i] = chunks[i]
        /\ \A i \in NumChunks .. m - 1 : new[i] = NewChunk
    BY <1>2, <1>4, <1>5, Extending
  <1>8. ChunkSize * m \in Nat
    BY <1>4, Product
  <1>9. CASE ~IsHole
    <2>1. chunks' = new /\ Larger(Total, position) = Total /\ ~(position > Total)
      BY <1>2, <1>6, <1>9 DEF IsHole, Larger
    <2>2. Level(chunks', m, Total)
      BY <1>7, <2>1
    <2>3. NumChunks' = m /\ Total' = Total
      BY <2>2, NewLevel
    <2> QED BY <1>3, <1>4, <1>7, <2>1, <2>2, <2>3 DEF m
  <1>10. CASE IsHole
    <2>1. position > Total /\ Larger(Total, position) = position
      BY <1>2, <1>10 DEF IsHole, Larger
    <2>2. Total % ChunkSize = 0
      BY <1>1, <1>2, <1>10 DEF HoleAllowed, HolesBeginAtChunks
    <2> DEFINE f == Total \div ChunkSize
    <2>3. f \in Nat /\ Total = ChunkSize * f
      BY <1>2, <2>2, MemoryFileAssumption
    <2> HIDE DEF f
    <2>4. position <= ChunkSize * m
      BY <1>2, <1>3, <1>8
    <2>5. /\ Level(HoleFilled(new, m), m, position)
          /\ \A i \in 0 .. m - 1 : HoleFilled(new, m)[i].data = new[i].data
      BY <1>2, <1>7, <2>1, <2>3, <2>4, Filling
    <2>6. chunks' = HoleFilled(new, m)
      BY <1>6, <1>10
    <2>7. Level(chunks', m, position) /\ \A i \in 0 .. m - 1 : chunks'[i].data = new[i].data
      BY <2>5, <2>6
    <2>8. NumChunks' = m /\ Total' = position
      BY <2>7, NewLevel
    <2>9. f = NumChunks
      <3>1. Total <= ChunkSize * NumChunks
        BY <1>2, LevelFacts
      <3>2. ~(NumChunks < f)
        BY <1>2, <2>3, <3>1, Order, Product, MemoryFileAssumption
      <3>3. ~(f < NumChunks)
        <4> SUFFICES ASSUME f < NumChunks PROVE FALSE
          OBVIOUS
        <4>1. NumChunks - 1 \in Nat /\ NumChunks > 0
          BY <1>2, <2>3
        <4>2. f = NumChunks - 1 \/ f < NumChunks - 1
          BY <1>2, <2>3
        <4>3. ChunkSize * f <= ChunkSize * (NumChunks - 1)
          <5>1. ChunkSize * f \in Nat /\ ChunkSize * (NumChunks - 1) \in Nat
            BY <2>3, <4>1, Product
          <5>2. f < NumChunks - 1 => ChunkSize * f + ChunkSize <= ChunkSize * (NumChunks - 1)
            BY <2>3, <4>1, Order
          <5>3. CASE f = NumChunks - 1
            BY <5>1, <5>3
          <5>4. CASE f < NumChunks - 1
            BY <5>1, <5>2, <5>4, MemoryFileAssumption
          <5> QED BY <4>2, <5>3, <5>4
        <4>4. ChunkSize * f \in Nat /\ ChunkSize * (NumChunks - 1) \in Nat
          BY <2>3, <4>1, Product
        <4> QED BY <1>2, <2>3, <4>1, <4>3, <4>4
      <3> QED BY <1>2, <2>3, <3>2, <3>3
    <2>10. \A i \in NumChunks .. m - 1 : i \in 0 .. m - 1 /\ chunks'[i].data = NewChunk.data
      BY <1>2, <1>7, <2>7
    <2>11. \A i \in 0 .. NumChunks - 1 : i \in 0 .. m - 1 /\ chunks'[i].data = chunks[i].data
      BY <1>7, <2>7
    <2> QED BY <1>3, <1>4, <2>1, <2>3, <2>7, <2>8, <2>9, <2>10, <2>11 DEF m
  <1> QED BY <1>9, <1>10

LEMMA WriteStep ==
    ASSUME IInv, HolesBeginAtChunks, NEW count \in 1 .. MaxCount, NEW v \in Values, Write(count, v)
    PROVE  IInv' /\ pc' = "write"
  <1> DEFINE m == NumChunks + NumExtendChunks(count)
             t == Larger(Total, position)
             i == IndexAt(position, m)
             o == OffsetAt(position, m)
  <1>1. /\ mode = "new" /\ pc = "idle" /\ mode' = mode /\ target' = NoTarget
        /\ UNCHANGED <<virtualStartPos, position, eof>>
        /\ pc' = IF IsAt(position, chunks', m) THEN "write" ELSE "undefined"
        /\ call' = [op |-> "write", rem |-> count, value |-> v, index |-> i, offset |-> o]
    BY DEF Write
  <1>2. count \in Nat /\ count > 0 /\ Total \in Nat /\ position \in Nat
    BY <1>1, InvFacts, MemoryFileAssumption DEF Facts, IInv, Fields
  <1>3. /\ m \in Nat /\ m > 0 /\ Level(chunks', m, t)
        /\ NumChunks' = m /\ Total' = t
    BY <1>2, Preparing
  <1>4. /\ position + count <= ChunkSize * m
        /\ ChunkSize * (m - 1) < Larger(Total, position + count)
    <2>1. ChunkSize * (NumChunks + NumExtendChunks(count) - 1) < Larger(Total, position + count)
      BY <1>1, <1>2, Room
    <2>2. NumChunks + NumExtendChunks(count) - 1 = m - 1
      BY <1>1, <1>2, Room, InvFacts DEF Facts
    <2> QED BY <1>1, <1>2, <2>1, <2>2, Room
  <1> HIDE DEF m
  <1>5. t \in Nat /\ position <= t /\ Total <= t
    BY <1>2 DEF Larger
  <1> HIDE DEF t
  <1>6. /\ IsAt(position, chunks', m) /\ i \in 0 .. m - 1 /\ o \in 0 .. ChunkSize
        /\ position = ChunkSize * i + o
    BY <1>2, <1>3, <1>5, PlaceOf
  <1>7. o < ChunkSize
    <2> DEFINE j == position \div ChunkSize
    <2>1. j \in Nat /\ InChunk(position, j)
      BY <1>2, ChunkOf
    <2> HIDE DEF j
    <2>2. ChunkSize * j \in Nat /\ ChunkSize * m \in Nat
      BY <1>3, <2>1, Product
    <2>3. ~(m <= j)
      <3>1. m < j => ChunkSize * m + ChunkSize <= ChunkSize * j
        BY <1>3, <2>1, Order
      <3> QED BY <1>2, <1>3, <1>4, <2>1, <2>2, <3>1, MemoryFileAssumption DEF InChunk
    <2>4. j < m
      BY <1>3, <2>1, <2>3
    <2>5. o = position - ChunkSize * j
      BY <1>2, <1>3, <2>1, <2>4, Finding
    <2> QED BY <1>2, <2>1, <2>2, <2>5, MemoryFileAssumption DEF InChunk
  <1> HIDE DEF i, o
  <1>8. pc' = "write"
    BY <1>1, <1>6
  <1>9. Fields'
    <2>1. i \in Nat /\ o \in Nat
      BY <1>3, <1>6, MemoryFileAssumption
    <2>2. call' \in [op : {"none", "read", "write", "flush"}, rem : Nat, value : Bytes, index : Nat, offset : Nat]
      BY <1>1, <1>2, <2>1 DEF Bytes
    <2>3. target' \in [done : BOOLEAN, size : Nat, bytes : [Watched -> Bytes]]
      BY <1>1, NoTargetType
    <2> QED BY <1>1, <1>8, <2>2, <2>3 DEF IInv, Fields
  <1>10. Shape'
    BY <1>1, <1>3 DEF Shape
  <1>11. call'.rem = count /\ call'.index = i /\ call'.offset = o /\ call'.value = v
    BY <1>1
  <1>12. Trim'
    <2>1. Larger(Total', position' + call'.rem) >= Larger(Total, position + count)
      BY <1>1, <1>2, <1>3, <1>5, <1>11 DEF Larger
    <2>2. Larger(Total', position' + call'.rem) \in Int /\ Larger(Total, position + count) \in Int
      BY <1>1, <1>2, <1>3, <1>5, <1>11 DEF Larger
    <2>3. ChunkSize * (m - 1) \in Int
      BY <1>3, MemoryFileAssumption
    <2>4. ChunkSize * (m - 1) < Larger(Total', position' + call'.rem)
      BY <1>4, <2>1, <2>2, <2>3
    <2> QED BY <1>3, <1>8, <2>4 DEF Trim
  <1>13. Writing'
    <2>1. ~target'.done
      BY <1>1 DEF NoTarget
    <2>2. call'.index < NumChunks'
      BY <1>3, <1>6, <1>11
    <2>3. position' = ChunkSize * call'.index + call'.offset /\ position' <= Total'
      BY <1>1, <1>3, <1>5, <1>6, <1>11
    <2>4. position' + call'.rem <= ChunkSize * NumChunks'
      BY <1>1, <1>3, <1>4, <1>11
    <2> QED BY <1>1, <1>2, <1>7, <1>11, <2>1, <2>2, <2>3, <2>4 DEF Writing
  <1> QED BY <1>8, <1>9, <1>10, <1>12, <1>13 DEF IInv, Reading, Flushing

LEMMA StutterIInv ==
    ASSUME IInv, UNCHANGED vars
    PROVE  IInv'
  <1>1. UNCHANGED <<mode, virtualStartPos, chunks, position, eof, pc, call, target>>
    BY DEF vars
  <1>2. NumChunks' = NumChunks /\ Total' = Total /\ \A i : chunks'[i] = chunks[i]
    BY <1>1, SameChunks
  <1>3. Fields'
    BY <1>1 DEF IInv, Fields
  <1>4. Shape' /\ Trim'
    BY <1>1, <1>2 DEF IInv, Shape, Trim
  <1>5. Reading' /\ Writing' /\ Flushing'
    BY <1>1, <1>2 DEF IInv, Reading, Writing, Flushing
  <1> QED BY <1>3, <1>4, <1>5 DEF IInv

LEMMA NextIInv ==
    ASSUME HolesBeginAtChunks, ~LeavesChunks, IInv, [Next]_vars
    PROVE  IInv'
  <1>1. CASE UNCHANGED vars
    BY <1>1, StutterIInv
  <1>2. ASSUME NEW count \in 1 .. MaxCount, ExtendFails(count) PROVE IInv'
    BY <1>1, <1>2, NothingIsLeft
  <1>3. CASE ClientCall
    BY <1>2, <1>3, OpenNewStep, OpenReadStep, CloseStep, ReadStep, WriteStep, SeekStep, SeekEndStep, FlushStep
       DEF ClientCall
  <1>4. CASE Step
    BY <1>4, ReadChunkStep, ReadReturnsStep, WriteChunkStep, FlushChunkStep, FlushReturnsStep, FlushFailsStep
       DEF Step
  <1> QED BY <1>1, <1>3, <1>4 DEF Next

LEMMA Invariance ==
    ASSUME HolesBeginAtChunks, NoChunkIsLeft
    PROVE  Spec => []IInv
  <1>1. IInv /\ [Next]_vars => IInv'
    BY NextIInv, ExtendFailsStep DEF LeavesChunks, vars
  <1> QED BY InitIInv, <1>1, PTL DEF Spec

(* Every variable has its type, the chunks have the indices that they      *)
(* should and no write begins where there is no chunk: the index and       *)
(* offset that get_chunk_pos (mxf_memory_file.c:76) gives are always set.  *)
THEOREM TypeCorrect ==
    ASSUME HolesBeginAtChunks, NoChunkIsLeft
    PROVE  Spec => []TypeOK
  BY Invariance, InvType, PTL

(* mxf_mem_file_get_size (mxf_memory_file.c:452), which looks at the last  *)
(* chunk only, tells how many bytes all of the chunks hold, whatever has   *)
(* failed, for as long as no call has left chunks that it got for bytes it *)
(* did not write: those count as full, all but the last.                   *)
THEOREM SizeIsRight ==
    ASSUME HolesBeginAtChunks
    PROVE  Spec /\ [][~LeavesChunks]_vars => []SizeIsTotal
  <1>1. IInv => SizeIsTotal
    BY InvFacts DEF Facts, SizeIsTotal
  <1>2. IInv /\ [Next]_vars /\ [~LeavesChunks]_vars => IInv'
    BY NextIInv, StutterIInv
  <1> QED BY <1>1, <1>2, InitIInv, PTL DEF Spec

-----------------------------------------------------------------------------
(* The chunks are a file: every step is one of MXFFile, or none.           *)
LEMMA WritePieceIsOne ==
    ASSUME IInv, WriteChunk, IInv'
    PROVE  \E v \in Values : File!WritePiece(v)
  <1> DEFINE i == call.index
             o == call.offset
             n == Piece
             base == ChunkSize * call.index
             v == call.value
             s == virtualStartPos
  <1>1. /\ i \in 0 .. NumChunks - 1 /\ i \in Nat /\ o \in Nat
        /\ n \in Nat /\ n > 0 /\ o + n <= ChunkSize
        /\ position = base + o /\ position <= Total
        /\ Level(chunks, NumChunks, Total)
    BY PieceIs DEF WriteChunk
  <1>2. /\ position' = position + n
        /\ Level(chunks', NumChunks, Larger(Total, position'))
        /\ chunks'[i].data = Written
        /\ \A j \in 0 .. NumChunks - 1 : j # i => chunks'[j] = chunks[j]
        /\ NumChunks' = NumChunks /\ Total' = Larger(Total, position')
    BY WritePiece
  <1>3. v \in Values /\ s \in Nat /\ position \in Nat /\ base \in Nat /\ Total \in Nat /\ NumChunks \in Nat
    BY <1>1, Product, InvFacts DEF IInv, Fields, Writing, WriteChunk, Facts
  <1>4. virtualStartPos' = s /\ eof' = eof
    BY DEF WriteChunk
  <1>5. ViewSize = s + Total /\ ViewSize' = s + Total'
    <2>1. Facts /\ Facts'
      BY InvFacts, PTL
    <2> QED BY <1>4, <2>1 DEF Facts
  <1>6. View = [w \in Watched |-> Seen(chunks, NumChunks, Total, w - s)]
    BY InvFacts DEF Facts
  <1>7. View' = [w \in Watched |-> Seen(chunks', NumChunks, Total', w - s)]
    <2>1. Facts'
      BY InvFacts, PTL
    <2>2. View' = [w \in Watched |-> Seen(chunks', NumChunks', Total', w - virtualStartPos')]
      BY <2>1 DEF Facts
    <2> QED BY <1>2, <1>4, <2>2
  <1>8. Tell' = Tell + n /\ Tell = s + position /\ Tell' = s + position' /\ Tell \in Nat
    BY <1>1, <1>2, <1>3, <1>4 DEF Tell
  <1>9. ASSUME NEW w \in Watched
        PROVE  Seen(chunks', NumChunks, Total', w - s)
                   = IF Tell <= w /\ w < Tell + n THEN v ELSE Seen(chunks, NumChunks, Total, w - s)
    <2> DEFINE p == w - s
    <2>1. w \in Nat /\ p \in Int /\ w = s + p
      BY <1>3, MemoryFileAssumption
    <2>2. (Tell <= w /\ w < Tell + n) <=> (position <= p /\ p < position + n)
      <3> HIDE DEF p
      <3> QED BY <1>1, <1>3, <1>8, <2>1
    <2> HIDE DEF p, i, o, n, s, v
    <2>3. Total' \in Nat /\ Total <= Total' /\ position + n <= Total' /\ (Total' = Total \/ Total' = position + n)
      BY <1>1, <1>2, <1>3 DEF Larger
    <2>4. CASE position <= p /\ p < position + n
      <3>1. InChunk(p, i)
        BY <1>1, <1>3, <2>1, <2>4, MemoryFileAssumption DEF InChunk, base, i
      <3>2. 0 <= p /\ p < Total'
        BY <1>1, <1>3, <2>1, <2>3, <2>4
      <3>3. /\ p - base \in 0 .. ChunkSize - 1
            /\ Seen(chunks', NumChunks, Total', p) = Written[p - base]
        BY <1>1, <1>2, <2>1, <3>1, <3>2, SeenIs DEF i, base
      <3> DEFINE q == p - base
      <3>4. q \in Int /\ o <= q /\ q < o + n /\ base + q = p
        <4> HIDE DEF base
        <4> QED BY <1>1, <1>3, <2>1, <2>4
      <3>5. s + i * ChunkSize + q = w
        <4> DEFINE e == i * ChunkSize
        <4>1. e = base
          BY <1>1, MemoryFileAssumption DEF i, base
        <4> HIDE DEF q, base, e
        <4>2. s + e + q = w
          BY <1>3, <2>1, <3>4, <4>1
        <4> QED BY <4>2 DEF e
      <3>6. Written[q] = v
        <4> HIDE DEF q
        <4>1. q \in 0 .. ChunkSize - 1
          BY <3>3 DEF q
        <4>2. Written[q] = IF o <= q /\ q < o + n
                           THEN IF s + i * ChunkSize + q \in Watched THEN v ELSE Junk
                           ELSE chunks[i].data[q]
          BY <4>1 DEF Written, i, o, n, s, v
        <4> QED BY <3>4, <3>5, <4>2
      <3> QED BY <2>2, <2>4, <3>3, <3>6 DEF p, q
    <2>5. CASE ~(position <= p /\ p < position + n)
      <3>1. CASE 0 <= p /\ p < Total
        <4> DEFINE j == p \div ChunkSize
        <4>1. j \in Nat /\ InChunk(p, j)
          BY <2>1, <3>1, ChunkOf
        <4> HIDE DEF j
        <4>2. /\ j \in 0 .. NumChunks - 1 /\ p - ChunkSize * j \in 0 .. ChunkSize - 1
              /\ Seen(chunks, NumChunks, Total, p) = chunks[j].data[p - ChunkSize * j]
          BY <1>1, <2>1, <3>1, <4>1, SeenIs
        <4>3. p < Total'
          BY <1>3, <2>1, <2>3, <3>1
        <4>4. Seen(chunks', NumChunks, Total', p) = chunks'[j].data[p - ChunkSize * j]
          BY <1>2, <2>1, <3>1, <4>1, <4>3, SeenIs
        <4>5. CASE j # i
          <5>1. chunks'[j] = chunks[j]
            BY <1>2, <4>2, <4>5
          <5> QED BY <2>2, <2>5, <4>2, <4>4, <5>1 DEF p
        <4>6. CASE j = i
          <5> DEFINE q == p - ChunkSize * j
          <5>1. q \in 0 .. ChunkSize - 1 /\ base = ChunkSize * j /\ base + q = p
            <6>1. base = ChunkSize * j
              BY <4>6 DEF base, i
            <6> HIDE DEF base
            <6> QED BY <1>3, <2>1, <4>2, <6>1
          <5>2. ~(o <= q /\ q < o + n)
            <6> HIDE DEF q, base
            <6> QED BY <1>1, <1>3, <2>1, <2>5, <5>1
          <5> HIDE DEF q
          <5>3. Written[q] = chunks[i].data[q]
            BY <5>1, <5>2 DEF Written, i, o, n
          <5>4. chunks'[j].data[q] = chunks[j].data[q]
            BY <1>2, <4>6, <5>3
          <5> QED BY <2>2, <2>5, <4>2, <4>4, <5>4 DEF p, q
        <4> QED BY <4>5, <4>6
      <3>2. CASE ~(0 <= p /\ p < Total)
        <4>1. ~(0 <= p /\ p < Total')
          BY <1>1, <1>3, <2>1, <2>3, <2>5, <3>2
        <4>2. Seen(chunks', NumChunks, Total', p) = Junk /\ Seen(chunks, NumChunks, Total, p) = Junk
          BY <1>1, <1>2, <2>1, <3>2, <4>1, SeenIs
        <4> QED BY <2>2, <2>5, <4>2 DEF p
      <3> QED BY <3>1, <3>2
    <2> QED BY <2>4, <2>5
  <1>10. View' = [w \in Watched |-> IF w \in File!Span(Tell, Tell' - Tell) THEN v ELSE View[w]]
    <2>1. Tell' - Tell = n
      BY <1>1, <1>8
    <2>2. \A w \in Watched : w \in File!Span(Tell, n) <=> Tell <= w /\ w < Tell + n
      BY DEF File!Span
    <2>3. \A w \in Watched : View[w] = Seen(chunks, NumChunks, Total, w - s)
      BY <1>6
    <2> HIDE DEF i, o, n, base, v, s
    <2> QED BY <1>7, <1>9, <2>1, <2>2, <2>3
  <1>11. Tell' > Tell
    BY <1>1, <1>8
  <1>12. ViewSize' = File!Larger(ViewSize, Tell')
    BY <1>1, <1>2, <1>3, <1>5, <1>8 DEF File!Larger, Larger
  <1>13. File!WritePiece(v)
    BY <1>4, <1>10, <1>11, <1>12 DEF File!WritePiece
  <1> QED BY <1>3, <1>13

(* Beginning to write makes a hole part of the file, if there is one.      *)
LEMMA WriteBegins ==
    ASSUME HolesBeginAtChunks, IInv, IInv', NEW count \in 1 .. MaxCount, NEW v \in Values, Write(count, v)
    PROVE  HoleMade \/ UNCHANGED <<ViewSize, View, Tell, eof>>
  <1> DEFINE m == NumChunks + NumExtendChunks(count)
             t == Larger(Total, position)
             s == virtualStartPos
  <1>1. /\ mode = "new" /\ pc = "idle" /\ pc' = "write"
        /\ UNCHANGED <<virtualStartPos, position, eof>>
    BY WriteStep DEF Write
  <1>2. count \in Nat /\ count > 0 /\ Total \in Nat /\ position \in Nat /\ s \in Nat /\ NumChunks \in Nat
    <2>1. count \in Nat /\ count > 0
      BY MemoryFileAssumption
    <2> QED BY <2>1, InvFacts DEF Facts, IInv, Fields
  <1>3. /\ m \in Nat /\ m > 0 /\ NumChunks <= m /\ Level(chunks', m, t)
        /\ NumChunks' = m /\ Total' = t
        /\ \A i \in 0 .. NumChunks - 1 : i \in 0 .. m - 1 /\ chunks'[i].data = chunks[i].data
        /\ \A i \in NumChunks .. m - 1 : chunks'[i].data = NewChunk.data
        /\ position > Total => Total = ChunkSize * NumChunks
    BY <1>2, Preparing
  <1> HIDE DEF m
  <1>4. t \in Nat /\ position <= t /\ Total <= t /\ (position > Total => t = position) /\ (position <= Total => t = Total)
    BY <1>2 DEF Larger
  <1> HIDE DEF t
  <1>5. Level(chunks, NumChunks, Total)
    BY <1>1 DEF IInv, Shape
  <1>6. Facts /\ Facts'
    BY InvFacts, PTL
  <1>7. ViewSize = s + Total /\ ViewSize' = s + t
    BY <1>1, <1>3, <1>6 DEF Facts
  <1>8. Tell = s + position /\ Tell' = Tell
    BY <1>1 DEF Tell
  <1>9. ASSUME NEW p \in Int PROVE Seen(chunks', m, t, p) = Seen(chunks, NumChunks, Total, p)
    <2>1. CASE p < Total \/ p >= t
      BY <1>3, <1>4, <1>5, <2>1, SeenSame
    <2>2. CASE Total <= p /\ p < t
      <3>1. position > Total /\ t = position /\ Total = ChunkSize * NumChunks
        BY <1>2, <1>3, <1>4, <2>2
      <3> DEFINE i == p \div ChunkSize
      <3>2. p \in Nat /\ i \in Nat /\ InChunk(p, i)
        <4>1. p \in Nat
          BY <1>2, <2>2
        <4> QED BY <4>1, ChunkOf
      <3> HIDE DEF i
      <3>3. /\ i \in 0 .. m - 1 /\ p - ChunkSize * i \in 0 .. ChunkSize - 1
            /\ Seen(chunks', m, t, p) = chunks'[i].data[p - ChunkSize * i]
        BY <1>3, <2>2, <3>2, SeenIs
      <3>4. ~(i < NumChunks)
        <4>1. ChunkSize * i \in Nat /\ ChunkSize * NumChunks \in Nat
          BY <1>2, <3>2, Product
        <4>2. i < NumChunks => ChunkSize * i + ChunkSize <= ChunkSize * NumChunks
          BY <1>2, <3>2, Order
        <4> QED BY <1>2, <2>2, <3>1, <3>2, <4>1, <4>2, MemoryFileAssumption DEF InChunk
      <3>5. i \in NumChunks .. m - 1
        BY <1>2, <1>3, <3>2, <3>3, <3>4
      <3>6. chunks'[i].data = [o \in 0 .. ChunkSize - 1 |-> Junk]
        BY <1>3, <3>5 DEF NewChunk
      <3>7. Seen(chunks', m, t, p) = Junk
        <4> DEFINE o == p - ChunkSize * i
        <4> HIDE DEF o
        <4>1. o \in 0 .. ChunkSize - 1 /\ Seen(chunks', m, t, p) = chunks'[i].data[o]
          BY <3>3 DEF o
        <4> QED BY <3>6, <4>1
      <3>8. Seen(chunks, NumChunks, Total, p) = Junk
        BY <1>2, <2>2 DEF Seen
      <3> QED BY <3>7, <3>8
    <2> QED BY <1>2, <1>4, <2>1, <2>2
  <1>10. View' = View
    <2>1. View = [w \in Watched |-> Seen(chunks, NumChunks, Total, w - s)]
      BY <1>6 DEF Facts
    <2>2. View' = [w \in Watched |-> Seen(chunks', m, t, w - s)]
      BY <1>1, <1>3, <1>6 DEF Facts
    <2>3. \A w \in Watched : w - s \in Int
      BY <1>2, MemoryFileAssumption
    <2> HIDE DEF s
    <2> QED BY <1>9, <2>1, <2>2, <2>3
  <1>11. CASE position > Total
    <2>1. Tell > ViewSize /\ ViewSize' = Tell
      BY <1>2, <1>4, <1>7, <1>8, <1>11
    <2> QED BY <1>1, <1>8, <1>10, <2>1 DEF HoleMade
  <1>12. CASE ~(position > Total)
    <2>1. ViewSize' = ViewSize
      BY <1>2, <1>4, <1>7, <1>12
    <2> QED BY <1>1, <1>8, <1>10, <2>1
  <1> QED BY <1>11, <1>12

LEMMA InitIsOpen == Init => File!Open
  <1> SUFFICES ASSUME Init PROVE File!Open
    OBVIOUS
  <1>1. IInv
    BY InitIInv
  <1>2. ViewSize = virtualStartPos + Total /\ Total \in Nat
    BY <1>1, InvFacts DEF Facts
  <1>3. virtualStartPos = 0 /\ position = 0 /\ eof = FALSE
    BY DEF Init, Closed
  <1>4. ViewSize \in Nat /\ Tell = 0
    BY <1>2, <1>3 DEF Tell
  <1> QED BY <1>3, <1>4 DEF File!Open

LEMMA StepIsOne ==
    ASSUME HolesBeginAtChunks, NoChunkIsLeft, IInv, IInv', [Next]_vars
    PROVE  FileStep
  <1>1. Facts /\ Facts'
    BY InvFacts, PTL
  <1>2. ASSUME UNCHANGED <<virtualStartPos, chunks>>
        PROVE  ViewSize' = ViewSize /\ View' = View
    BY <1>1, <1>2, SameFile
  <1>3. /\ virtualStartPos \in Nat /\ virtualStartPos' \in Nat /\ position \in Nat /\ position' \in Nat
        /\ Total \in Nat /\ ViewSize = virtualStartPos + Total /\ eof' \in BOOLEAN
    BY <1>1 DEF IInv, Fields, Facts
  <1>4. /\ Tell = virtualStartPos + position
        /\ \A s : virtualStartPos' = s => Tell' = s + position'
    BY DEF Tell
  <1>5. ASSUME UNCHANGED <<virtualStartPos, chunks, position, eof>>
        PROVE  FileStep
    BY <1>2, <1>4, <1>5 DEF FileStep
  <1>6. ASSUME NEW s \in VirtualStarts, OpenNew(s) PROVE FileStep
    <2>1. mode # mode' /\ position' = 0 /\ eof' = FALSE /\ virtualStartPos' = s
      BY <1>6 DEF IInv, Shape, OpenNew
    <2>2. Tell' = s + 0
      BY <1>4, <2>1
    <2>3. Tell' = virtualStartPos'
      BY <2>1, <2>2, MemoryFileAssumption
    <2> QED BY <2>1, <2>3 DEF FileStep, Opened
  <1>7. ASSUME NEW s \in VirtualStarts, NEW n \in ReadSizes, NEW v \in Values, OpenRead(s, n, v)
        PROVE  FileStep
    <2>1. mode # mode' /\ position' = 0 /\ eof' = FALSE /\ virtualStartPos' = s
      BY <1>7 DEF IInv, Shape, OpenRead
    <2>2. Tell' = s + 0
      BY <1>4, <2>1
    <2>3. Tell' = virtualStartPos'
      BY <2>1, <2>2, MemoryFileAssumption
    <2> QED BY <2>1, <2>3 DEF FileStep, Opened
  <1>8. CASE Close
    <2>1. mode # mode' /\ position' = 0 /\ eof' = FALSE /\ virtualStartPos' = 0
      BY <1>8 DEF Close
    <2>2. Tell' = 0 + 0
      BY <1>4, <2>1
    <2>3. Tell' = virtualStartPos'
      BY <2>1, <2>2
    <2> QED BY <2>1, <2>3 DEF FileStep, Opened
  <1>9. ASSUME NEW p \in 0 .. MaxSize + virtualStartPos, Seek(p) PROVE FileStep
    <2>1. ViewSize' = ViewSize /\ View' = View /\ eof' = FALSE
      BY <1>2, <1>9 DEF Seek
    <2>4. Tell' = virtualStartPos + position'
      BY <1>4, <1>9 DEF Seek
    <2>5. \A a, b \in Nat : a + b >= 0
      OBVIOUS
    <2>2. Tell' >= 0
      BY <1>3, <2>4, <2>5, Zenon
    <2>3. File!Seek(Tell')
      BY <2>1, <2>2 DEF File!Seek
    <2> QED BY <2>3 DEF FileStep, File!FileNext
  <1>10. CASE SeekEnd
    <2>1. ViewSize' = ViewSize /\ View' = View /\ eof' = FALSE
      BY <1>2, <1>10 DEF SeekEnd
    <2>4. Tell' = virtualStartPos + position'
      BY <1>4, <1>10 DEF SeekEnd
    <2>5. \A a, b \in Nat : a + b >= 0
      OBVIOUS
    <2>2. Tell' >= 0
      BY <1>3, <2>4, <2>5, Zenon
    <2>3. File!Seek(Tell')
      BY <2>1, <2>2 DEF File!Seek
    <2> QED BY <2>3 DEF FileStep, File!FileNext
  <1>11. ASSUME NEW n \in 1 .. MaxCount, Read(n) PROVE FileStep
    BY <1>5, <1>11 DEF Read
  <1>12. ASSUME NEW n \in 1 .. MaxCount, NEW v \in Values, Write(n, v) PROVE FileStep
    BY <1>12, WriteBegins DEF FileStep
  <1>13. ASSUME NEW n \in 1 .. MaxCount, ExtendFails(n) PROVE FileStep
    BY <1>5, <1>13, ExtendFailsStep DEF vars
  <1>14. CASE Flush
    BY <1>5, <1>14 DEF Flush
  <1>15. CASE ReadChunk
    <2>1. ViewSize' = ViewSize /\ View' = View /\ eof' = eof /\ virtualStartPos' = virtualStartPos
      BY <1>2, <1>15 DEF ReadChunk
    <2>2. position <= position' /\ position' <= Total
      BY <1>15, ReadPiece
    <2>3. CASE position' = position
      BY <1>4, <2>1, <2>3 DEF FileStep
    <2>4. CASE position' # position
      <3>0. Tell' = virtualStartPos + position'
        BY <1>4, <2>1
      <3>1. Tell' \in Tell + 1 .. ViewSize
        <4>1. \A a, b, c, d \in Nat : b <= c /\ c <= d /\ c # b => a + c \in (a + b) + 1 .. a + d
          OBVIOUS
        <4>2. virtualStartPos + position' \in (virtualStartPos + position) + 1 .. virtualStartPos + Total
          BY <1>3, <2>2, <2>4, <4>1, Zenon
        <4> QED BY <1>3, <1>4, <3>0, <4>2, Zenon
      <3>2. File!ReadPiece
        BY <2>1, <3>1 DEF File!ReadPiece
      <3> QED BY <3>2 DEF FileStep, File!FileNext
    <2> QED BY <2>3, <2>4
  <1>16. CASE ReadReturns
    <2>1. ViewSize' = ViewSize /\ View' = View /\ virtualStartPos' = virtualStartPos /\ position' = position
      BY <1>2, <1>16 DEF ReadReturns
    <2>2. eof' => position >= Total
      <3>1. (eof' <=> call.rem > 0) /\ (call.rem = 0 \/ call.index = NumChunks) /\ pc = "read"
        BY <1>16 DEF ReadReturns
      <3>3. ~(call.rem = 0 /\ call.rem > 0)
        BY DEF IInv, Fields
      <3>2. call.index = NumChunks => position >= Total
        BY <3>1 DEF IInv, Reading
      <3> QED BY <3>1, <3>2, <3>3
    <2>3. eof' => Tell >= ViewSize
      BY <1>3, <1>4, <2>2
    <2>4. Tell' = Tell
      BY <1>4, <2>1
    <2>5. File!ReadReturns
      BY <1>3, <2>1, <2>3, <2>4 DEF File!ReadReturns
    <2> QED BY <2>5 DEF FileStep, File!FileNext
  <1>17. CASE WriteChunk
    BY <1>17, WritePieceIsOne DEF FileStep, File!FileNext
  <1>18. CASE FlushChunk
    BY <1>5, <1>18 DEF FlushChunk
  <1>19. CASE FlushReturns
    BY <1>5, <1>19 DEF FlushReturns
  <1>20. CASE FlushFails
    BY <1>5, <1>20 DEF FlushFails
  <1>21. CASE UNCHANGED vars
    BY <1>5, <1>21 DEF vars
  <1>22. CASE ClientCall
    BY <1>6, <1>7, <1>8, <1>9, <1>10, <1>11, <1>12, <1>13, <1>14, <1>22 DEF ClientCall
  <1>23. CASE Step
    BY <1>15, <1>16, <1>17, <1>18, <1>19, <1>20, <1>23 DEF Step
  <1> QED BY <1>21, <1>22, <1>23 DEF Next

(* For every size of a chunk, every number of them and every virtual start *)
(* the chunks of mxf_memory_file.c are one MXFFile to a client.            *)
THEOREM MemoryImplementsFile ==
    ASSUME HolesBeginAtChunks, NoChunkIsLeft
    PROVE  Spec => ImplementsFile
  <1>1. IInv /\ IInv' /\ [Next]_vars => [File!FileNext \/ Opened \/ HoleMade]_<<ViewSize, View, Tell, eof>>
    BY StepIsOne DEF FileStep
  <1> QED BY InitIsOpen, <1>1, Invariance, PTL DEF Spec, ImplementsFile

-----------------------------------------------------------------------------
(* Flushing.  Up to the chunk that the flush has come to, the target has   *)
(* what the client sees, and nothing else.                                 *)
Through(i) == IF i = NumChunks THEN Total ELSE ChunkSize * i

FlushInv ==
    /\ target.done => target.size = Total
    /\ pc = "flush" => target.size = Through(call.index)
    /\ pc = "flush" \/ target.done =>
          \A w \in Watched :
              target.bytes[w] = IF w - virtualStartPos < target.size
                                THEN Seen(chunks, NumChunks, Total, w - virtualStartPos) ELSE Junk

LEMMA SeenChunk ==
    ASSUME IInv, NEW i \in Nat, i < NumChunks, NEW p \in Int,
           ChunkSize * i <= p, p < ChunkSize * i + chunks[i].size
    PROVE  Seen(chunks, NumChunks, Total, p) = chunks[i].data[p - ChunkSize * i]
  <1>1. NumChunks \in Nat /\ Total \in Nat
    BY InvFacts DEF Facts
  <1>2. CASE mode = "readOnly"
    <2>1. Single(chunks, Total) /\ NumChunks = 1 /\ i = 0
      BY <1>1, <1>2, InvFacts DEF Facts, IInv, Shape
    <2>2. chunks[0].size = Total
      BY <2>1, SingleFacts
    <2>3. ChunkSize * 0 = 0
      BY MemoryFileAssumption
    <2>4. IndexAt(p, 1) = 0 /\ OffsetAt(p, 1) = p
      BY <2>3 DEF IndexAt, OffsetAt
    <2>5. 0 <= p /\ p < Total /\ p - ChunkSize * 0 = p
      BY <1>1, <2>1, <2>2, <2>3
    <2> QED BY <2>1, <2>2, <2>4, <2>5 DEF Seen
  <1>3. CASE mode # "readOnly"
    <2>1. Level(chunks, NumChunks, Total) /\ i \in 0 .. NumChunks - 1
      BY <1>1, <1>3 DEF IInv, Shape
    <2>2. chunks[i].size = Fill(Total, i)
      BY <2>1, LevelFacts
    <2>3. ChunkSize * i \in Nat /\ Fill(Total, i) \in 0 .. ChunkSize
      BY <1>1, Product, FillIs
    <2>4. InChunk(p, i) /\ 0 <= p
      BY <2>2, <2>3, MemoryFileAssumption DEF InChunk
    <2>5. p < Total
      <3> DEFINE b == ChunkSize * i
      <3>1. b \in Nat /\ b <= p /\ p < b + Larger(0, Smaller(Total - b, ChunkSize))
        BY <2>2, <2>3 DEF Fill
      <3> HIDE DEF b
      <3> QED BY <1>1, <3>1, MemoryFileAssumption DEF Larger, Smaller
    <2> QED BY <2>1, <2>4, <2>5, SeenIs
  <1> QED BY <1>2, <1>3

LEMMA FlushChunkWhole ==
    ASSUME TargetTakesAll, IInv, FlushInv, FlushChunk
    PROVE  FlushInv'
  <1> DEFINE i == call.index
             n == chunks[i].size
             s == virtualStartPos
             base == ChunkSize * i
             at == target.size
  <1>1. /\ i \in Nat /\ i < NumChunks /\ pc = "flush" /\ ~target.done
        /\ pc' = pc /\ virtualStartPos' = s /\ s \in Nat
        /\ target \in [done : BOOLEAN, size : Nat, bytes : [Watched -> Bytes]]
    BY DEF IInv, Fields, Flushing, FlushChunk
  <1>2. /\ n \in Nat
        /\ i + 1 < NumChunks => base + n = ChunkSize * (i + 1)
        /\ i + 1 = NumChunks => base + n = Total
    BY <1>1, ChunkEnds
  <1>3. NumChunks \in Nat /\ Total \in Nat /\ base \in Nat
    BY <1>1, InvFacts, Product DEF Facts
  <1>4. NumChunks' = NumChunks /\ Total' = Total /\ chunks' = chunks
    BY SameChunks DEF FlushChunk
  <1>5. at = base
    BY <1>1, <1>3 DEF FlushInv, Through
  <1>6. target' = [target EXCEPT !.size = @ + n,
                      !.bytes = [w \in Watched |->
                          LET o == w - s - at
                          IN  IF 0 <= o /\ o < n THEN chunks[i].data[o] ELSE @[w]]]
    <2>1. \A k \in IF FlushLength(i) = 0 THEN {0} ELSE Taken(FlushLength(i)) : k = n
      BY DEF TargetTakesAll, FlushLength, Taken
    <2> QED BY <2>1 DEF FlushChunk
  <1>7. /\ target'.size = base + n /\ target'.done = target.done
        /\ \A w \in Watched : target'.bytes[w] =
              IF 0 <= w - s - at /\ w - s - at < n THEN chunks[i].data[w - s - at] ELSE target.bytes[w]
    BY <1>1, <1>5, <1>6
  <1>8. call'.index = i + 1
    BY DEF IInv, Fields, FlushChunk
  <1>9. target'.size = IF call'.index = NumChunks' THEN Total' ELSE ChunkSize * call'.index
    <2>1. i + 1 < NumChunks \/ i + 1 = NumChunks
      BY <1>1, <1>3
    <2> HIDE DEF i, n, base
    <2> QED BY <1>2, <1>3, <1>4, <1>7, <1>8, <2>1, <1>1
  <1>10. ASSUME NEW w \in Watched
         PROVE  target'.bytes[w] = IF w - s < target'.size THEN Seen(chunks, NumChunks, Total, w - s) ELSE Junk
    <2> DEFINE p == w - s
    <2>1. w \in Nat /\ p \in Int
      BY <1>1, MemoryFileAssumption
    <2>2. w - s - at = p - base
      BY <1>1, <1>5, <2>1
    <2>3. target.bytes[w] = IF p < base THEN Seen(chunks, NumChunks, Total, p) ELSE Junk
      BY <1>1, <1>5 DEF FlushInv
    <2>4. target'.bytes[w] = IF 0 <= p - base /\ p - base < n THEN chunks[i].data[p - base] ELSE target.bytes[w]
      BY <1>7, <2>2
    <2>5. CASE 0 <= p - base /\ p - base < n
      <3>1. base <= p /\ p < base + n
        <4> HIDE DEF p, base, n
        <4> QED BY <1>2, <1>3, <2>1, <2>5
      <3>2. Seen(chunks, NumChunks, Total, p) = chunks[i].data[p - base]
        BY <1>1, <2>1, <3>1, SeenChunk
      <3> HIDE DEF p, base, n
      <3> QED BY <1>7, <2>4, <2>5, <3>1, <3>2 DEF p
    <2>6. CASE ~(0 <= p - base /\ p - base < n)
      <3>1. p < base <=> p < base + n
        <4> HIDE DEF p, base, n
        <4> QED BY <1>2, <1>3, <2>1, <2>6
      <3> QED BY <1>7, <2>3, <2>4, <2>6, <3>1
    <2> QED BY <2>5, <2>6
  <1>11. ~target'.done
    BY <1>1, <1>7
  <1> HIDE DEF i, n, s, base, at
  <1> QED BY <1>1, <1>4, <1>9, <1>10, <1>11 DEF FlushInv, Through

LEMMA FlushBegins ==
    ASSUME IInv, Flush
    PROVE  FlushInv'
  <1>1. /\ target' = NoTarget /\ pc' = "flush" /\ call' = [NoCall EXCEPT !.op = "flush"] /\ pc = "idle"
        /\ virtualStartPos' = virtualStartPos
    BY DEF Flush
  <1>2. NumChunks' = NumChunks /\ Total' = Total /\ chunks' = chunks
    BY SameChunks DEF Flush
  <1>3. NumChunks \in Nat /\ Total \in Nat /\ FileSize = Total /\ virtualStartPos \in Nat
    BY <1>1, InvFacts DEF Facts, IInv, Fields
  <1>4. call'.index = 0 /\ target'.size = 0 /\ ~target'.done /\ \A w \in Watched : target'.bytes[w] = Junk
    BY <1>1 DEF NoCall, NoTarget
  <1>5. target'.size = IF call'.index = NumChunks' THEN Total' ELSE ChunkSize * call'.index
    <2>1. NumChunks = 0 => Total = 0
      BY <1>3 DEF FileSize, SizeOf
    <2>2. ChunkSize * 0 = 0
      BY MemoryFileAssumption
    <2> QED BY <1>2, <1>4, <2>1, <2>2
  <1>6. ASSUME NEW w \in Watched
        PROVE  target'.bytes[w] = IF w - virtualStartPos < 0
                                  THEN Seen(chunks, NumChunks, Total, w - virtualStartPos) ELSE Junk
    <2> DEFINE p == w - virtualStartPos
    <2>1. p \in Int
      BY <1>3, MemoryFileAssumption
    <2> HIDE DEF p
    <2>2. p < 0 => Seen(chunks, NumChunks, Total, p) = Junk
      BY <2>1 DEF Seen
    <2> QED BY <1>4, <2>2 DEF p
  <1> QED BY <1>1, <1>2, <1>4, <1>5, <1>6 DEF FlushInv, Through

LEMMA NextFlushInv ==
    ASSUME TargetTakesAll, NoChunkIsLeft, IInv, FlushInv, [Next]_vars
    PROVE  FlushInv'
  <1>1. ASSUME ~target'.done, pc' # "flush" PROVE FlushInv'
    BY <1>1 DEF FlushInv
  <1>2. ASSUME UNCHANGED <<virtualStartPos, chunks, target>>, pc # "flush", pc' # "flush"
        PROVE  FlushInv'
    <2>1. NumChunks' = NumChunks /\ Total' = Total
      BY <1>2, SameChunks
    <2> QED BY <1>2, <2>1 DEF FlushInv
  <1>3. mode = "closed" => pc = "idle" /\ target = NoTarget /\ ~NoTarget.done
    BY DEF IInv, Shape, NoTarget
  <1>4. CASE UNCHANGED vars
    <2>1. UNCHANGED <<virtualStartPos, chunks, target, pc, call>>
      BY <1>4 DEF vars
    <2>2. NumChunks' = NumChunks /\ Total' = Total
      BY <2>1, SameChunks
    <2> QED BY <2>1, <2>2 DEF FlushInv, Through
  <1>5. ASSUME NEW s \in VirtualStarts, OpenNew(s) PROVE FlushInv'
    BY <1>1, <1>3, <1>5 DEF OpenNew
  <1>6. ASSUME NEW s \in VirtualStarts, NEW n \in ReadSizes, NEW v \in Values, OpenRead(s, n, v)
        PROVE  FlushInv'
    BY <1>1, <1>3, <1>6 DEF OpenRead
  <1>7. CASE Close
    BY <1>1, <1>7 DEF Close, NoTarget
  <1>8. ASSUME NEW n \in 1 .. MaxCount, Read(n) PROVE FlushInv'
    BY <1>2, <1>8 DEF Read
  <1>9. ASSUME NEW n \in 1 .. MaxCount, NEW v \in Values, Write(n, v) PROVE FlushInv'
    BY <1>1, <1>9 DEF Write, NoTarget
  <1>10. ASSUME NEW n \in 1 .. MaxCount, ExtendFails(n) PROVE FlushInv'
    BY <1>4, <1>10, ExtendFailsStep
  <1>11. ASSUME NEW p \in 0 .. MaxSize + virtualStartPos, Seek(p) PROVE FlushInv'
    BY <1>2, <1>11 DEF Seek
  <1>12. CASE SeekEnd
    BY <1>2, <1>12 DEF SeekEnd
  <1>13. CASE Flush
    BY <1>13, FlushBegins
  <1>14. CASE ReadChunk
    BY <1>2, <1>14 DEF ReadChunk
  <1>15. CASE ReadReturns
    BY <1>2, <1>15 DEF ReadReturns, Return
  <1>16. CASE WriteChunk
    <2>1. target' = target /\ ~target.done /\ pc' # "flush"
      BY <1>16 DEF WriteChunk, Return, IInv, Writing
    <2> QED BY <1>1, <2>1
  <1>17. CASE FlushChunk
    BY <1>17, FlushChunkWhole
  <1>18. CASE FlushReturns
    <2>1. /\ pc = "flush" /\ call.index = NumChunks /\ pc' = "idle"
          /\ target' = [target EXCEPT !.done = TRUE]
          /\ UNCHANGED <<virtualStartPos, chunks>>
          /\ target \in [done : BOOLEAN, size : Nat, bytes : [Watched -> Bytes]]
      BY <1>18 DEF FlushReturns, Return, IInv, Fields
    <2>2. NumChunks' = NumChunks /\ Total' = Total
      BY <2>1, SameChunks
    <2>3. target'.size = target.size /\ target'.bytes = target.bytes
      BY <2>1
    <2>4. target.size = Total
      BY <2>1 DEF FlushInv, Through
    <2> QED BY <2>1, <2>2, <2>3, <2>4 DEF FlushInv
  <1>19. CASE FlushFails
    <2>1. target' = target /\ ~target.done /\ pc' = "idle"
      BY <1>19 DEF FlushFails, Return, IInv, Flushing
    <2> QED BY <1>1, <2>1
  <1>20. CASE ClientCall
    BY <1>5, <1>6, <1>7, <1>8, <1>9, <1>10, <1>11, <1>12, <1>13, <1>20 DEF ClientCall
  <1>21. CASE Step
    BY <1>14, <1>15, <1>16, <1>17, <1>18, <1>19, <1>21 DEF Step
  <1> QED BY <1>4, <1>20, <1>21 DEF Next

LEMMA FlushedIsWhole == IInv /\ FlushInv => FlushIsWhole
  <1> SUFFICES ASSUME IInv, FlushInv, target.done, NEW w \in Watched, w >= virtualStartPos
               PROVE  /\ target.size = Total
                      /\ target.bytes[w] = IF w - virtualStartPos < Total
                                           THEN chunks[IndexAt(w - virtualStartPos, NumChunks)].data[OffsetAt(w - virtualStartPos, NumChunks)]
                                           ELSE Junk
    BY DEF FlushIsWhole, FlushInv
  <1> DEFINE p == w - virtualStartPos
  <1>1. target.size = Total /\ target.bytes[w] = IF p < Total THEN Seen(chunks, NumChunks, Total, p) ELSE Junk
    BY DEF FlushInv
  <1>2. p \in Nat /\ NumChunks \in Nat /\ Total \in Nat /\ ChunkSize * 0 = 0
    BY InvFacts, MemoryFileAssumption, SMTT(30) DEF Facts, IInv, Fields
  <1> HIDE DEF p
  <1>3. ASSUME p < Total
        PROVE  Seen(chunks, NumChunks, Total, p) = chunks[IndexAt(p, NumChunks)].data[OffsetAt(p, NumChunks)]
    <2>1. CASE mode = "readOnly"
      <3>1. Single(chunks, Total) /\ NumChunks = 1
        BY <2>1, InvFacts DEF Facts, IInv, Shape
      <3>2. chunks[0].size = Total
        BY <3>1, SingleFacts
      <3>3. IndexAt(p, 1) = 0 /\ OffsetAt(p, 1) = p
        BY <1>2 DEF IndexAt, OffsetAt
      <3> QED BY <1>2, <1>3, <3>1, <3>2, <3>3 DEF Seen
    <2>2. CASE mode # "readOnly"
      <3>1. Level(chunks, NumChunks, Total)
        BY <2>2 DEF IInv, Shape
      <3> DEFINE i == p \div ChunkSize
      <3>2. i \in Nat /\ InChunk(p, i)
        BY <1>2, ChunkOf
      <3> HIDE DEF i
      <3>3. i \in 0 .. NumChunks - 1 /\ Seen(chunks, NumChunks, Total, p) = chunks[i].data[p - ChunkSize * i]
        BY <1>2, <1>3, <3>1, <3>2, SeenIs
      <3>4. i < NumChunks
        BY <1>2, <3>3
      <3>5. IndexAt(p, NumChunks) = i /\ OffsetAt(p, NumChunks) = p - ChunkSize * i
        BY <1>2, <3>2, <3>4, Finding
      <3> QED BY <3>3, <3>5
    <2> QED BY <2>1, <2>2
  <1> QED BY <1>1, <1>3 DEF p

(* A flush that reports success has put every byte of the file where it    *)
(* belongs and no other (mxf_mem_file_flush_to_file), for every size and   *)
(* number of chunks, whatever was written, sought and flushed before.      *)
THEOREM FlushedWhole ==
    ASSUME HolesBeginAtChunks, NoChunkIsLeft, TargetTakesAll
    PROVE  Spec => []FlushIsWhole
  <1>1. Init => FlushInv
    BY DEF Init, Closed, NoTarget, FlushInv
  <1>2. IInv /\ FlushInv /\ [Next]_vars => FlushInv'
    BY NextFlushInv
  <1> QED BY <1>1, <1>2, Invariance, FlushedIsWhole, PTL DEF Spec
=============================================================================
