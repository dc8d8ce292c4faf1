------------------------- MODULE InterleaverProofs -------------------------
(***************************************************************************)
(* Proofs about the interleaver, for every block and page size, any number *)
(* of writers and reads of any length.                                     *)
(***************************************************************************)
EXTENDS Interleaver, TLAPS

BytesRead == rd.count - rd.rem

(* A round in progress: what it has written and may still write is a block.*)
RoundAdds ==
    loop = "flush" =>
        /\ numWriters > 0
        /\ fl.index = FirstWriter
        /\ fl.index \in Writers
        /\ fl.rem > 0
        /\ fl.pages * PageSize + fl.rem = BlockSize

(* The rounds done and those to come are the ends of blocks to be passed;  *)
(* until then the read goes in whole blocks.                               *)
RoundsAdd ==
    /\ rd.rem <= rd.count
    /\ loop = "read" =>
          /\ ~rd.short
          /\ rd.rounds * BlockSize <= rd.start + BytesRead
          /\ rd.flushCount > 0 => BytesRead = rd.rounds * BlockSize
          /\ ~rd.missed => rd.rounds + rd.flushCount = (rd.start + rd.count) \div BlockSize
          /\ rd.missed => rd.flushCount = 0
    /\ loop = "flush" =>
          /\ rd.flushCount > 0
          /\ ~rd.missed
          /\ rd.rounds + rd.flushCount = (rd.start + rd.count) \div BlockSize
          /\ rd.rounds * BlockSize <= BytesRead
          /\ BytesRead <= (rd.rounds + 1) * BlockSize
          /\ ~rd.short => rd.rem = 0 \/ BytesRead = (rd.rounds + 1) * BlockSize
    /\ loop = "idle" => PaceKept

(* The writers in the order of their turns, the next one first.            *)
Before(w, v) ==
    IF w > lastWriterIndexFlush THEN v <= lastWriterIndexFlush \/ w < v
                                ELSE v <= lastWriterIndexFlush /\ w < v

(* Who was flushed while another waited has his turn after him.            *)
TurnsKept ==
    \A w, v \in Slots :
        \/ overtaken[w][v] = 0
        \/ overtaken[w][v] = 1 /\ w \in Writers /\ v \in Writers /\ Before(w, v)

IInv ==
    /\ InterleaverOK
    /\ RoundIsBounded
    /\ RoundAdds
    /\ RoundsAdd
    /\ TurnsKept

-----------------------------------------------------------------------------
(* Arithmetic.                                                             *)
LEMMA DivMod ==
    ASSUME NEW m \in Nat \ {0}, NEW a \in Nat
    PROVE  a % m \in 0 .. m - 1 /\ a \div m \in Nat
OBVIOUS

LEMMA ProductNat ==
    ASSUME NEW a \in Nat, NEW b \in Nat
    PROVE  a * b \in Nat
OBVIOUS

LEMMA DivAtLeast ==
    ASSUME NEW m \in Nat \ {0}, NEW a \in Nat, NEW k \in Nat, k * m <= a
    PROVE  k <= a \div m
OBVIOUS

LEMMA DivAtMost ==
    ASSUME NEW m \in Nat \ {0}, NEW a \in Nat, NEW k \in Nat, a < (k + 1) * m
    PROVE  a \div m <= k
OBVIOUS

LEMMA DivMonotone ==
    ASSUME NEW m \in Nat \ {0}, NEW a \in Nat, NEW b \in Nat, a <= b
    PROVE  a \div m <= b \div m
OBVIOUS

LEMMA DivTimes ==
    ASSUME NEW m \in Nat \ {0}, NEW a \in Nat
    PROVE  (a \div m) * m <= a
OBVIOUS

LEMMA ModNext ==
    ASSUME NEW n \in Nat \ {0}, NEW i \in 0 .. n - 1
    PROVE  (i + 1) % n = IF i + 1 = n THEN 0 ELSE i + 1
OBVIOUS

LEMMA TimesPlusOne ==
    ASSUME NEW a \in Nat, NEW m \in Nat
    PROVE  (a + 1) * m = a * m + m
OBVIOUS

LEMMA TimesSum ==
    ASSUME NEW a \in Nat, NEW b \in Nat, NEW m \in Nat
    PROVE  (a + b) * m = a * m + b * m /\ (a + b - 1) * m = a * m + b * m - m
OBVIOUS

LEMMA TimesMonotone ==
    ASSUME NEW a \in Nat, NEW b \in Nat, NEW m \in Nat, a <= b
    PROVE  a * m <= b * m
OBVIOUS

LEMMA PagesOfBounds ==
    ASSUME NEW n \in Nat
    PROVE  PagesOf(n) \in Nat /\ PagesOf(n) * PageSize < n + PageSize
<1> DEFINE a == n + PageSize - 1
<1>1. a \in Nat /\ PageSize \in Nat \ {0}
  BY InterleaverAssumption
<1> HIDE DEF a
<1>2. a \div PageSize \in Nat /\ (a \div PageSize) * PageSize <= a
  BY <1>1, DivMod, DivTimes
<1>3. PagesOf(n) = a \div PageSize
  BY DEF PagesOf, a
<1>4. a < n + PageSize
  BY <1>1 DEF a
<1>5. (a \div PageSize) * PageSize \in Nat
  BY <1>1, <1>2, ProductNat
<1>6. QED
  BY <1>1, <1>2, <1>3, <1>4, <1>5

(* A flush of one cache takes no page more than the round still wants.     *)
LEMMA FlushedPages ==
    ASSUME InterleaverOK, NEW w \in Writers, NEW n \in PagesFlushed(w)
    PROVE  /\ n \in 0 .. dirty[w]
           /\ n * PageSize < fl.rem + PageSize
<1>1. fl.rem \in Nat /\ dirty[w] \in Nat
  BY InterleaverAssumption DEF InterleaverOK, Writers, Slots
<1> DEFINE all == Least(dirty[w], PagesOf(fl.rem))
<1>2. all \in Nat /\ all <= PagesOf(fl.rem) /\ all <= dirty[w]
  BY <1>1, PagesOfBounds DEF Least
<1>3. n \in 0 .. all
  BY <1>2 DEF PagesFlushed
<1> HIDE DEF all
<1>7. n \in Nat /\ PagesOf(fl.rem) \in Nat /\ n <= PagesOf(fl.rem)
  BY <1>1, <1>2, <1>3, PagesOfBounds
<1>4. n * PageSize <= PagesOf(fl.rem) * PageSize
  BY <1>7, TimesMonotone, InterleaverAssumption
<1>5. n * PageSize \in Nat /\ PagesOf(fl.rem) * PageSize \in Nat
  BY <1>1, <1>2, <1>3, PagesOfBounds, ProductNat, InterleaverAssumption
<1>6. QED
  BY <1>1, <1>2, <1>3, <1>4, <1>5, PagesOfBounds, InterleaverAssumption

-----------------------------------------------------------------------------
(* The initial state.                                                      *)
LEMMA InitIInv == InterleaverInit => IInv
<1> SUFFICES ASSUME InterleaverInit PROVE IInv
  OBVIOUS
<1>1. InterleaverOK
  <2>1. rd \in [file : Slots \cup {Source}, count : Nat, rem : Nat, flushCount : Nat,
                short : BOOLEAN, start : 0 .. BlockSize - 1, rounds : Nat, missed : BOOLEAN]
    BY InterleaverAssumption DEF InterleaverInit, NoRead
  <2>2. fl \in [index : Writers \cup {0}, i : 0 .. numWriters, rem : 0 .. BlockSize, pages : Nat]
    BY InterleaverAssumption DEF InterleaverInit, NoFlush
  <2>3. QED
    BY <2>1, <2>2, InterleaverAssumption DEF InterleaverInit, InterleaverOK
<1>2. RoundIsBounded
  BY InterleaverAssumption DEF InterleaverInit, NoFlush, RoundIsBounded
<1>3. RoundsAdd
  <2>1. BlocksPassed = 0
    BY InterleaverAssumption DEF InterleaverInit, NoRead, BlocksPassed
  <2>2. QED
    BY <2>1 DEF InterleaverInit, NoRead, RoundsAdd, PaceKept
<1>4. RoundAdds /\ TurnsKept
  BY DEF InterleaverInit, RoundAdds, TurnsKept
<1>5. QED
  BY <1>1, <1>2, <1>3, <1>4 DEF IInv

-----------------------------------------------------------------------------
(* What the reading changes, by the pieces of the invariant.               *)
LEMMA TurnsStay ==
    ASSUME TurnsKept, UNCHANGED <<lastWriterIndexFlush, overtaken>>, Writers \subseteq Writers'
    PROVE  TurnsKept'
BY DEF TurnsKept, Before

LEMMA TransferType ==
    ASSUME InterleaverOK, NEW n \in Nat, Transfer(n)
    PROVE  readCount' \in 0 .. BlockSize - 1 /\ dirty' \in [Slots -> 0 .. CachePages]
<1>1. readCount + n \in Nat
  BY InterleaverAssumption DEF InterleaverOK
<1>2. readCount' \in 0 .. BlockSize - 1
  BY <1>1, DivMod, InterleaverAssumption DEF Transfer
<1>3. dirty' \in [Slots -> 0 .. CachePages]
  <2>1. CASE rd.file \in Writers
    <3>1. PICK d \in 0 .. dirty[rd.file] : dirty' = [dirty EXCEPT ![rd.file] = d]
      BY <2>1 DEF Transfer
    <3>2. dirty[rd.file] \in 0 .. CachePages
      BY <2>1, InterleaverAssumption DEF InterleaverOK, Writers, Slots
    <3>3. d \in 0 .. CachePages
      BY <3>1, <3>2, InterleaverAssumption
    <3>4. QED
      BY <3>1, <3>3 DEF InterleaverOK
  <2>2. CASE rd.file \notin Writers
    BY <2>2 DEF Transfer, InterleaverOK
  <2>3. QED
    BY <2>1, <2>2
<1>4. QED
  BY <1>2, <1>3

LEMMA OpenWriterKeeps == IInv /\ OpenWriter => IInv'
<1> SUFFICES ASSUME IInv, OpenWriter PROVE IInv'
  OBVIOUS
<1> USE DEF OpenWriter
<1>1. Writers \subseteq Writers' /\ numWriters' \in 0 .. MaxWriters
  BY InterleaverAssumption DEF IInv, InterleaverOK, Writers
<1>2. InterleaverOK'
  BY <1>1, InterleaverAssumption DEF IInv, InterleaverOK
<1>3. RoundIsBounded' /\ RoundAdds'
  BY DEF IInv, RoundIsBounded, RoundAdds
<1>4. RoundsAdd'
  BY DEF IInv, RoundsAdd, PaceKept, BlocksPassed, BytesRead
<1>5. TurnsKept'
  BY <1>1, TurnsStay DEF IInv
<1>6. QED
  BY <1>2, <1>3, <1>4, <1>5 DEF IInv

LEMMA WriteKeeps == ASSUME IInv, NEW w \in Writers, WriteOf(w) PROVE IInv'
<1> USE DEF WriteOf
<1>1. InterleaverOK'
  <2>1. PICK d \in 0 .. CachePages : dirty' = [dirty EXCEPT ![w] = d]
    <3>1. (IF "write" \in Failures THEN 0 ELSE 1) .. CachePages \subseteq 0 .. CachePages
      BY InterleaverAssumption
    <3>2. QED
      BY <3>1
  <2>2. dirty' \in [Slots -> 0 .. CachePages]
    BY <2>1 DEF IInv, InterleaverOK
  <2>3. Writers' = Writers
    BY DEF Writers
  <2>4. QED
    BY <2>2, <2>3 DEF IInv, InterleaverOK
<1>2. RoundIsBounded' /\ RoundAdds'
  BY DEF IInv, RoundIsBounded, RoundAdds
<1>3. RoundsAdd'
  BY DEF IInv, RoundsAdd, PaceKept, BlocksPassed, BytesRead
<1>4. TurnsKept'
  BY TurnsStay DEF IInv, Writers
<1>5. QED
  BY <1>1, <1>2, <1>3, <1>4 DEF IInv

LEMMA ReadKeeps ==
    ASSUME IInv, NEW f \in Writers \cup {Source}, NEW n \in 1 .. MaxCount, Read(f, n)
    PROVE  IInv'
<1> USE DEF Read
<1>1. n \in Nat /\ readCount \in Nat /\ BlockSize \in Nat \ {0}
  BY InterleaverAssumption DEF IInv, InterleaverOK
<1>2. FlushCount(n) \in Nat /\ FlushCount(n) = (readCount + n) \div BlockSize
  <2>1. readCount + n \in Nat
    BY <1>1
  <2>2. QED
    BY <1>1, <2>1, DivMod DEF FlushCount
<1>3. Writers' = Writers /\ f \in Slots \cup {Source}
  BY InterleaverAssumption DEF IInv, InterleaverOK, Writers, Slots
<1>4. InterleaverOK'
  BY <1>1, <1>2, <1>3 DEF IInv, InterleaverOK
<1>5. RoundIsBounded' /\ RoundAdds'
  BY DEF IInv, RoundIsBounded, RoundAdds
<1>6. RoundsAdd'
  BY <1>1, <1>2 DEF RoundsAdd, BytesRead
<1>7. TurnsKept'
  BY <1>3, TurnsStay DEF IInv
<1>8. QED
  BY <1>4, <1>5, <1>6, <1>7 DEF IInv

LEMMA ReadBlockKeeps == IInv /\ ReadBlock => IInv'
<1> SUFFICES ASSUME IInv, ReadBlock PROVE IInv'
  OBVIOUS
<1> DEFINE wanted == Least(rd.rem, BlockSize)
<1>1. wanted \in Nat /\ wanted <= rd.rem /\ wanted <= BlockSize
      /\ (wanted = rd.rem \/ wanted = BlockSize)
  BY InterleaverAssumption DEF IInv, InterleaverOK, Least
<1>2. PICK n \in 0 .. wanted :
          /\ Transfer(n)
          /\ rd' = [rd EXCEPT !.rem = rd.rem - n, !.short = (n # wanted)]
  <2>1. Given(wanted) \subseteq 0 .. wanted
    BY <1>1 DEF Given
  <2>2. \E n \in Given(wanted) :
           /\ Transfer(n)
           /\ rd' = [rd EXCEPT !.rem = rd.rem - n, !.short = (n # wanted)]
    BY DEF ReadBlock
  <2>3. QED
    BY <2>1, <2>2
<1> HIDE DEF wanted
<1>3. /\ loop = "read" /\ loop' = "flush" /\ rd.flushCount > 0 /\ fl' = FlushFrame
      /\ UNCHANGED <<numWriters, lastWriterIndexFlush, overtaken>>
  BY DEF ReadBlock
<1>4. numWriters \in Nat \ {0}
  BY DEF ReadBlock, HaveWriterData, Writers, IInv, InterleaverOK
<1>5. n \in Nat /\ rd.rem \in Nat /\ rd.rem - n \in Nat
  BY <1>1, <1>2 DEF IInv, InterleaverOK
<1>6. FirstWriter \in Writers
  BY <1>4, DivMod DEF FirstWriter, IInv, InterleaverOK, Writers
<1>7. InterleaverOK'
  <2>1. readCount' \in 0 .. BlockSize - 1 /\ dirty' \in [Slots -> 0 .. CachePages]
    BY <1>2, <1>5, TransferType DEF IInv
  <2>2. rd' \in [file : Slots \cup {Source}, count : Nat, rem : Nat, flushCount : Nat,
                 short : BOOLEAN, start : 0 .. BlockSize - 1, rounds : Nat, missed : BOOLEAN]
    BY <1>2, <1>5 DEF IInv, InterleaverOK
  <2>3. Writers' = Writers
    BY <1>3 DEF Writers
  <2>4. fl' \in [index : Writers \cup {0}, i : 0 .. numWriters, rem : 0 .. BlockSize, pages : Nat]
    BY <1>3, <1>4, <1>6, InterleaverAssumption DEF FlushFrame
  <2>5. QED
    BY <1>3, <2>1, <2>2, <2>3, <2>4 DEF IInv, InterleaverOK
<1>8. RoundIsBounded' /\ RoundAdds'
  <2>1. fl'.index = FirstWriter /\ fl'.rem = BlockSize /\ fl'.pages = 0
    BY <1>3 DEF FlushFrame
  <2>2. FirstWriter' = FirstWriter /\ Writers' = Writers
    BY <1>3 DEF FirstWriter, Writers
  <2>3. QED
    BY <1>3, <1>4, <1>6, <2>1, <2>2, InterleaverAssumption DEF RoundIsBounded, RoundAdds
<1>9. RoundsAdd'
  <2>1. /\ rd'.rem = rd.rem - n
        /\ rd'.short = (n # wanted)
        /\ rd'.count = rd.count /\ rd'.flushCount = rd.flushCount /\ rd'.start = rd.start
        /\ rd'.rounds = rd.rounds /\ rd'.missed = rd.missed
    BY <1>2 DEF IInv, InterleaverOK
  <2>2. rd.count \in Nat /\ rd.rounds \in Nat /\ BlockSize \in Nat
    BY InterleaverAssumption DEF IInv, InterleaverOK
  <2>3. BytesRead' = BytesRead + n
    BY <1>5, <2>1, <2>2 DEF BytesRead
  <2>4. BytesRead = rd.rounds * BlockSize /\ rd.rem <= rd.count /\ ~rd.missed
        /\ rd.rounds + rd.flushCount = (rd.start + rd.count) \div BlockSize
    BY <1>3 DEF IInv, RoundsAdd
  <2>5. (rd.rounds + 1) * BlockSize = rd.rounds * BlockSize + BlockSize
        /\ rd.rounds * BlockSize \in Nat
    BY <2>2, TimesPlusOne, ProductNat
  <2>6. BytesRead' <= (rd.rounds + 1) * BlockSize /\ rd.rounds * BlockSize <= BytesRead'
    BY <1>1, <1>5, <2>2, <2>3, <2>4, <2>5
  <2>7. n = wanted => rd'.rem = 0 \/ BytesRead' = (rd.rounds + 1) * BlockSize
    BY <1>1, <1>5, <2>1, <2>3, <2>4, <2>5
  <2>8. rd'.rem <= rd'.count
    BY <1>5, <2>1, <2>2, <2>4
  <2>9. QED
    BY <1>3, <2>1, <2>4, <2>6, <2>7, <2>8 DEF RoundsAdd
<1>10. TurnsKept'
  BY <1>3, TurnsStay DEF IInv, Writers
<1>11. QED
  BY <1>7, <1>8, <1>9, <1>10 DEF IInv

LEMMA ReadRestKeeps == IInv /\ ReadRest => IInv'
<1> SUFFICES ASSUME IInv, ReadRest PROVE IInv'
  OBVIOUS
<1>1. PICK n \in 0 .. rd.rem :
          /\ Transfer(n)
          /\ rd' = [rd EXCEPT !.rem = rd.rem - n, !.short = (n # rd.rem), !.flushCount = 0,
                              !.missed = (rd.missed \/ rd.flushCount > 0)]
          /\ loop' = AfterPiece(n)
  <2>1. Given(rd.rem) \subseteq 0 .. rd.rem
    BY DEF Given, IInv, InterleaverOK
  <2>2. QED
    BY <2>1 DEF ReadRest
<1>2. /\ loop = "read"
      /\ UNCHANGED <<numWriters, lastWriterIndexFlush, fl, overtaken>>
  BY DEF ReadRest
<1>3. n \in Nat /\ rd.rem \in Nat /\ rd.rem - n \in Nat
  BY <1>1 DEF IInv, InterleaverOK
<1>4. loop' = IF n = rd.rem THEN "read" ELSE "idle"
  BY <1>1 DEF AfterPiece
<1>5. Writers' = Writers
  BY <1>2 DEF Writers
<1>6. InterleaverOK'
  <2>1. readCount' \in 0 .. BlockSize - 1 /\ dirty' \in [Slots -> 0 .. CachePages]
    BY <1>1, <1>3, TransferType DEF IInv
  <2>2. rd' \in [file : Slots \cup {Source}, count : Nat, rem : Nat, flushCount : Nat,
                 short : BOOLEAN, start : 0 .. BlockSize - 1, rounds : Nat, missed : BOOLEAN]
    BY <1>1, <1>3 DEF IInv, InterleaverOK
  <2>3. QED
    BY <1>2, <1>4, <1>5, <2>1, <2>2 DEF IInv, InterleaverOK
<1>7. RoundIsBounded' /\ RoundAdds'
  BY <1>2, <1>4 DEF IInv, RoundIsBounded, RoundAdds
<1>8. RoundsAdd'
  <2>1. /\ rd'.rem = rd.rem - n
        /\ rd'.short = (n # rd.rem)
        /\ rd'.count = rd.count /\ rd'.flushCount = 0 /\ rd'.start = rd.start
        /\ rd'.rounds = rd.rounds /\ rd'.missed = (rd.missed \/ rd.flushCount > 0)
    BY <1>1 DEF IInv, InterleaverOK
  <2>2. /\ rd.count \in Nat /\ rd.rounds \in Nat /\ BlockSize \in Nat \ {0} /\ rd.start \in Nat
        /\ rd.flushCount \in Nat /\ rd.rounds * BlockSize \in Nat
    BY ProductNat, InterleaverAssumption DEF IInv, InterleaverOK
  <2>3. BytesRead' = BytesRead + n /\ BytesRead \in Nat /\ rd.rem <= rd.count
    BY <1>2, <1>3, <2>1, <2>2 DEF BytesRead, IInv, RoundsAdd
  <2>4. /\ ~rd.missed => rd.rounds + rd.flushCount = (rd.start + rd.count) \div BlockSize
        /\ rd.rounds * BlockSize <= rd.start + BytesRead
    BY <1>2 DEF IInv, RoundsAdd
  <2>5. ~rd'.missed => ~rd.missed /\ rd.flushCount = 0
    <3>1. rd.missed \in BOOLEAN
      BY DEF IInv, InterleaverOK
    <3>2. rd.flushCount > 0 \/ rd.flushCount = 0
      BY <2>2
    <3>3. QED
      BY <2>1, <3>1, <3>2
  <2>6. ~rd'.missed => rd.rounds = (rd.start + rd.count) \div BlockSize
    <3> SUFFICES ASSUME ~rd'.missed PROVE rd.rounds = (rd.start + rd.count) \div BlockSize
      OBVIOUS
    <3>1. rd.rounds + rd.flushCount = (rd.start + rd.count) \div BlockSize /\ rd.flushCount = 0
      BY <2>4, <2>5
    <3>2. QED
      BY <2>2, <3>1
  <2>7. rd.rounds * BlockSize <= rd'.start + BytesRead'
    BY <1>3, <2>1, <2>2, <2>3, <2>4
  <2>8. PaceKept'
    <3> DEFINE passed == rd'.start + (rd'.count - rd'.rem)
    <3>1. passed \in Nat /\ passed <= rd.start + rd.count /\ passed = rd'.start + BytesRead'
      BY <1>3, <2>1, <2>2, <2>3 DEF BytesRead
    <3> HIDE DEF passed
    <3>2. rd.rounds <= passed \div BlockSize
      BY <2>2, <2>7, <3>1, DivAtLeast
    <3>3. passed \div BlockSize <= (rd.start + rd.count) \div BlockSize
      <4>1. rd.start + rd.count \in Nat
        BY <2>2
      <4>2. QED
        BY <2>2, <3>1, <4>1, DivMonotone
    <3>4. BlocksPassed' = passed \div BlockSize
      BY DEF BlocksPassed, passed
    <3>5. passed \div BlockSize \in Nat
      BY <2>2, <3>1, DivMod
    <3>6. rd'.rounds <= BlocksPassed' + (IF rd'.short THEN 1 ELSE 0)
      BY <2>1, <2>2, <3>2, <3>4, <3>5
    <3>7. ~rd'.missed => rd'.rounds >= BlocksPassed'
      BY <2>1, <2>2, <2>6, <3>3, <3>4, <3>5
    <3>8. QED
      BY <3>6, <3>7 DEF PaceKept
  <2>9. rd'.rem <= rd'.count
    BY <1>3, <2>1, <2>2, <2>3
  <2>10. CASE n = rd.rem
    <3>1. ~rd'.short
      BY <2>1, <2>10
    <3>4. ~(rd'.flushCount > 0)
      BY <2>1
    <3>2. ~rd'.missed => rd'.rounds + rd'.flushCount = (rd'.start + rd'.count) \div BlockSize
      BY <2>1, <2>2, <2>6
    <3>3. QED
      BY <1>4, <2>1, <2>7, <2>9, <2>10, <3>1, <3>2, <3>4 DEF RoundsAdd
  <2>11. CASE n # rd.rem
    BY <1>4, <2>8, <2>9, <2>11 DEF RoundsAdd
  <2>12. QED
    BY <2>10, <2>11
<1>9. TurnsKept'
  BY <1>2, <1>5, TurnsStay DEF IInv
<1>10. QED
  BY <1>6, <1>7, <1>8, <1>9 DEF IInv

LEMMA ReadReturnsKeeps == IInv /\ ReadReturns => IInv'
<1> SUFFICES ASSUME IInv, ReadReturns PROVE IInv'
  OBVIOUS
<1> USE DEF ReadReturns
<1>1. Writers' = Writers
  BY DEF Writers
<1>2. InterleaverOK'
  BY <1>1 DEF IInv, InterleaverOK
<1>3. RoundIsBounded' /\ RoundAdds'
  BY DEF IInv, RoundIsBounded, RoundAdds
<1>4. TurnsKept'
  BY <1>1, TurnsStay DEF IInv
<1>5. RoundsAdd'
  <2>1. /\ rd.count \in Nat /\ rd.rounds \in Nat /\ BlockSize \in Nat \ {0} /\ rd.start \in Nat
        /\ rd.flushCount \in Nat /\ rd.rem = 0
    BY InterleaverAssumption DEF IInv, InterleaverOK
  <2>2. /\ ~rd.short
        /\ rd.rounds * BlockSize <= rd.start + rd.count
        /\ rd.flushCount > 0 => rd.count = rd.rounds * BlockSize
        /\ ~rd.missed => rd.rounds + rd.flushCount = (rd.start + rd.count) \div BlockSize
    BY <2>1 DEF IInv, RoundsAdd, BytesRead
  <2>3. BlocksPassed = (rd.start + rd.count) \div BlockSize
    BY <2>1 DEF BlocksPassed
  <2>4. rd.rounds <= BlocksPassed /\ BlocksPassed \in Nat
    <3>1. rd.start + rd.count \in Nat
      BY <2>1
    <3>2. QED
      BY <2>1, <2>2, <2>3, <3>1, DivAtLeast, DivMod
  <2>5. ~rd.missed => rd.rounds >= BlocksPassed
    <3> SUFFICES ASSUME ~rd.missed, rd.flushCount > 0 PROVE FALSE
      BY <2>1, <2>2, <2>3
    <3>1. rd.start + rd.count < (rd.rounds + 1) * BlockSize
      BY <2>1, <2>2, TimesPlusOne, ProductNat, InterleaverAssumption DEF IInv, InterleaverOK
    <3>2. BlocksPassed <= rd.rounds
      <4>1. rd.start + rd.count \in Nat
        BY <2>1
      <4>2. QED
        BY <2>1, <2>3, <3>1, <4>1, DivAtMost
    <3>3. QED
      BY <2>1, <2>2, <2>3, <3>2
  <2>6. PaceKept'
    BY <2>1, <2>2, <2>4, <2>5 DEF PaceKept, BlocksPassed
  <2>7. QED
    BY <2>6 DEF IInv, RoundsAdd
<1>6. QED
  BY <1>2, <1>3, <1>4, <1>5 DEF IInv

-----------------------------------------------------------------------------
(* What the rounds change.                                                 *)
RdType == [file : Slots \cup {Source}, count : Nat, rem : Nat, flushCount : Nat,
           short : BOOLEAN, start : 0 .. BlockSize - 1, rounds : Nat, missed : BOOLEAN]

LEMMA RoundDoneReads ==
    ASSUME IInv, loop = "flush", NEW n \in Nat, RoundDone(n)
    PROVE  /\ rd' \in RdType
           /\ loop' \in {"idle", "read"}
           /\ fl' = [index |-> 0, i |-> 0, rem |-> 0, pages |-> n]
           /\ RoundsAdd'
<1>1. /\ rd.count \in Nat /\ rd.rounds \in Nat /\ rd.start \in 0 .. BlockSize - 1
      /\ BlockSize \in Nat \ {0}
      /\ rd.flushCount \in Nat /\ rd.rem \in Nat /\ rd.short \in BOOLEAN
  BY InterleaverAssumption DEF IInv, InterleaverOK
<1>2. /\ rd.flushCount > 0
      /\ ~rd.missed
      /\ rd.rem <= rd.count
      /\ rd.rounds + rd.flushCount = (rd.start + rd.count) \div BlockSize
      /\ rd.rounds * BlockSize <= BytesRead
      /\ BytesRead <= (rd.rounds + 1) * BlockSize
      /\ ~rd.short => rd.rem = 0 \/ BytesRead = (rd.rounds + 1) * BlockSize
  BY DEF IInv, RoundsAdd
<1>3. rd' = [rd EXCEPT !.flushCount = rd.flushCount - 1, !.rounds = rd.rounds + 1]
  BY DEF RoundDone
<1>4. rd.flushCount - 1 \in Nat /\ rd.rounds + 1 \in Nat
  BY <1>1, <1>2
<1>5. rd' \in RdType
  BY <1>3, <1>4 DEF IInv, InterleaverOK, RdType
<1>6. /\ rd'.rem = rd.rem /\ rd'.short = rd.short /\ rd'.count = rd.count
      /\ rd'.flushCount = rd.flushCount - 1 /\ rd'.start = rd.start
      /\ rd'.rounds = rd.rounds + 1 /\ rd'.missed = rd.missed
  BY <1>3 DEF IInv, InterleaverOK
<1>7. loop' = (IF rd.short THEN "idle" ELSE "read") /\ fl' = [index |-> 0, i |-> 0, rem |-> 0, pages |-> n]
  BY DEF RoundDone, NoFlush
<1> DEFINE b == BlockSize
           all == rd.start + rd.count
           passed == rd.start + BytesRead
<1>8. BytesRead \in Nat /\ all \in Nat /\ passed \in Nat /\ passed <= all /\ BytesRead' = BytesRead
  <2>1. BytesRead \in Nat /\ BytesRead <= rd.count
    BY <1>1, <1>2 DEF BytesRead
  <2>2. BytesRead' = BytesRead
    BY <1>6 DEF BytesRead
  <2>3. QED
    BY <1>1, <2>1, <2>2
<1>9. passed' = passed /\ BlocksPassed' = passed \div b
  BY <1>6, <1>8 DEF BlocksPassed, BytesRead
<1>10. /\ (rd.rounds + 1) * b = rd.rounds * b + b
       /\ (rd.rounds + 2) * b = rd.rounds * b + b + b
       /\ rd.rounds * b \in Nat
  <2>1. rd.rounds * b \in Nat /\ (rd.rounds + 1) * b = rd.rounds * b + b
    BY <1>1, ProductNat, TimesPlusOne
  <2>2. ((rd.rounds + 1) + 1) * b = (rd.rounds + 1) * b + b
    BY <1>1, <1>4, TimesPlusOne
  <2>3. (rd.rounds + 1) + 1 = rd.rounds + 2
    BY <1>1
  <2>4. QED
    BY <2>1, <2>2, <2>3
<1>11. (rd.rounds + rd.flushCount) * b <= all
  BY <1>1, <1>2, <1>8, DivTimes
<1>12. (rd.rounds + 1) * b <= all
  <2>1. (rd.rounds + 1) * b <= (rd.rounds + rd.flushCount) * b
    <3>1. rd.rounds + rd.flushCount \in Nat /\ rd.rounds + 1 <= rd.rounds + rd.flushCount
      BY <1>1, <1>2
    <3>2. QED
      BY <1>1, <1>4, <3>1, TimesMonotone
  <2>2. (rd.rounds + rd.flushCount) * b \in Nat /\ (rd.rounds + 1) * b \in Nat
    BY <1>1, <1>4, ProductNat
  <2>3. QED
    BY <1>8, <1>11, <2>1, <2>2
(* The last piece, shorter than a block, ends the call and needs no other  *)
(* round.                                                                  *)
<1>13. rd.rem = 0 /\ BytesRead < (rd.rounds + 1) * b => rd.flushCount = 1
  <2> SUFFICES ASSUME rd.rem = 0, BytesRead < (rd.rounds + 1) * b, rd.flushCount >= 2 PROVE FALSE
    BY <1>1, <1>2
  <2>1. (rd.rounds + 2) * b <= (rd.rounds + rd.flushCount) * b
    BY <1>1, TimesMonotone
  <2>2. all < (rd.rounds + 2) * b
    BY <1>1, <1>8, <1>10 DEF BytesRead
  <2>3. (rd.rounds + rd.flushCount) * b \in Nat /\ (rd.rounds + 2) * b \in Nat
    BY <1>1, ProductNat
  <2>4. QED
    BY <1>8, <1>11, <2>1, <2>2, <2>3
<1>14. CASE ~rd.short
  <2>1. rd.rem = 0 \/ BytesRead = (rd.rounds + 1) * b
    BY <1>2, <1>14
  <2>2. (rd.rounds + 1) * b <= passed
    <3>1. rd.rem = 0 => passed = all
      BY <1>1 DEF BytesRead
    <3>2. QED
      BY <1>1, <1>8, <1>10, <1>12, <2>1, <3>1
  <2>3. rd.flushCount - 1 > 0 => BytesRead = (rd.rounds + 1) * b
    BY <1>1, <1>2, <1>8, <1>10, <1>13, <2>1
  <2>4. (rd.rounds + 1) + (rd.flushCount - 1) = all \div b
    BY <1>1, <1>2
  <2>5. loop' = "read" /\ rd'.rem <= rd'.count
    BY <1>2, <1>6, <1>7, <1>14
  <2> HIDE DEF all, passed, b
  <2>6. rd'.rounds * b <= rd'.start + BytesRead'
    BY <1>6, <1>8, <2>2 DEF passed
  <2>7. rd'.flushCount > 0 => BytesRead' = rd'.rounds * b
    BY <1>6, <1>8, <2>3
  <2>8. rd'.rounds + rd'.flushCount = (rd'.start + rd'.count) \div b
    BY <1>6, <2>4 DEF all
  <2>9. ~rd'.short /\ ~rd'.missed
    BY <1>2, <1>6, <1>14
  <2>10. RoundsAdd'
    BY <2>5, <2>6, <2>7, <2>8, <2>9 DEF RoundsAdd, b
  <2>11. QED
    BY <1>5, <1>7, <2>5, <2>10
<1>15. CASE rd.short
  <2>1. loop' = "idle" /\ rd'.rem <= rd'.count
    BY <1>2, <1>6, <1>7, <1>15
  <2>2. rd.rounds <= passed \div b
    <3>1. rd.rounds * b <= passed
      BY <1>1, <1>2, <1>8, <1>10
    <3>2. QED
      BY <1>1, <1>8, <3>1, DivAtLeast
  <2>3. passed \div b <= rd.rounds + 1
    <3>1. passed < ((rd.rounds + 1) + 1) * b
      <4>1. (rd.rounds + 1) + 1 = rd.rounds + 2
        BY <1>1
      <4>2. QED
        BY <1>1, <1>2, <1>8, <1>10, <4>1
    <3>2. QED
      BY <1>1, <1>4, <1>8, <3>1, DivAtMost
  <2>4. passed \div b \in Nat
    BY <1>1, <1>8, DivMod
  <2> HIDE DEF all, passed, b
  <2>5. rd'.rounds <= BlocksPassed' + 1 /\ rd'.rounds >= BlocksPassed'
    BY <1>1, <1>6, <1>9, <2>2, <2>3, <2>4
  <2>6. rd'.short
    BY <1>6, <1>15
  <2>7. PaceKept'
    BY <2>5, <2>6 DEF PaceKept
  <2>8. QED
    BY <1>5, <1>7, <2>1, <2>7 DEF RoundsAdd
<1>16. QED
  BY <1>1, <1>14, <1>15

LEMMA RoundStopsKeeps == IInv /\ RoundStops => IInv'
<1> SUFFICES ASSUME IInv, RoundStops PROVE IInv'
  OBVIOUS
<1>1. /\ loop = "flush" /\ RoundDone(fl.pages)
      /\ UNCHANGED <<readCount, numWriters, dirty, lastWriterIndexFlush, overtaken>>
  BY DEF RoundStops
<1>2. fl.pages \in Nat
  BY DEF IInv, InterleaverOK
<1>3. /\ rd' \in RdType
      /\ loop' \in {"idle", "read"}
      /\ fl' = [index |-> 0, i |-> 0, rem |-> 0, pages |-> fl.pages]
      /\ RoundsAdd'
  BY <1>1, <1>2, RoundDoneReads
<1>4. Writers' = Writers
  BY <1>1 DEF Writers
<1>5. InterleaverOK'
  <2>1. fl' \in [index : Writers \cup {0}, i : 0 .. numWriters, rem : 0 .. BlockSize, pages : Nat]
    BY <1>2, <1>3, InterleaverAssumption DEF IInv, InterleaverOK
  <2>2. QED
    BY <1>1, <1>3, <1>4, <2>1 DEF IInv, InterleaverOK, RdType
<1>6. RoundIsBounded' /\ RoundAdds'
  <2>1. fl'.pages = fl.pages /\ loop' # "flush"
    BY <1>3
  <2>2. QED
    BY <2>1 DEF IInv, RoundIsBounded, RoundAdds
<1>7. TurnsKept'
  BY <1>1, <1>4, TurnsStay DEF IInv
<1>8. QED
  BY <1>3, <1>5, <1>6, <1>7 DEF IInv

LEMMA RoundFailsKeeps == IInv /\ RoundFails => IInv'
<1> SUFFICES ASSUME IInv, RoundFails PROVE IInv'
  OBVIOUS
<1>1. /\ loop = "flush" /\ loop' = "idle" /\ fl' = NoFlush
      /\ rd' = [rd EXCEPT !.missed = TRUE]
      /\ UNCHANGED <<readCount, numWriters, dirty, lastWriterIndexFlush, overtaken>>
  BY DEF RoundFails
<1>2. Writers' = Writers
  BY <1>1 DEF Writers
<1>3. InterleaverOK'
  <2>1. fl' \in [index : Writers \cup {0}, i : 0 .. numWriters, rem : 0 .. BlockSize, pages : Nat]
    BY <1>1, InterleaverAssumption DEF NoFlush, IInv, InterleaverOK
  <2>2. rd' \in RdType
    BY <1>1 DEF IInv, InterleaverOK, RdType
  <2>3. QED
    BY <1>1, <1>2, <2>1, <2>2 DEF IInv, InterleaverOK, RdType
<1>4. RoundIsBounded' /\ RoundAdds'
  BY <1>1, InterleaverAssumption DEF NoFlush, RoundIsBounded, RoundAdds
<1>5. TurnsKept'
  BY <1>1, <1>2, TurnsStay DEF IInv
<1>6. RoundsAdd'
  <2>1. /\ rd'.rem = rd.rem /\ rd'.count = rd.count /\ rd'.start = rd.start
        /\ rd'.rounds = rd.rounds /\ rd'.missed /\ rd'.short = rd.short
    BY <1>1 DEF IInv, InterleaverOK
  <2>2. /\ rd.count \in Nat /\ rd.rounds \in Nat /\ rd.start \in Nat /\ rd.rem \in Nat
        /\ BlockSize \in Nat \ {0}
    BY InterleaverAssumption DEF IInv, InterleaverOK
  <2>3. rd.rem <= rd.count /\ rd.rounds * BlockSize <= BytesRead
    BY <1>1 DEF IInv, RoundsAdd
  <2> DEFINE passed == rd.start + (rd.count - rd.rem)
  <2>4. passed \in Nat /\ rd.rounds * BlockSize <= passed
    BY <2>2, <2>3, ProductNat DEF BytesRead
  <2>5. BlocksPassed' = passed \div BlockSize
    BY <2>1 DEF BlocksPassed
  <2> HIDE DEF passed
  <2>6. rd.rounds <= passed \div BlockSize /\ passed \div BlockSize \in Nat
    BY <2>2, <2>4, DivAtLeast, DivMod
  <2>7. rd'.rounds <= BlocksPassed' + (IF rd'.short THEN 1 ELSE 0)
    BY <2>1, <2>2, <2>5, <2>6
  <2>8. PaceKept'
    BY <2>1, <2>7 DEF PaceKept
  <2>9. QED
    BY <1>1, <2>1, <2>3, <2>8 DEF RoundsAdd
<1>7. QED
  BY <1>3, <1>4, <1>5, <1>6 DEF IInv

(* The writer flushed is the first in the order of turns, and goes to its  *)
(* end; the others keep their order.                                       *)
LEMMA TurnTaken ==
    ASSUME IInv, numWriters > 0, lastWriterIndexFlush' = FirstWriter,
           overtaken' = OvertakenBy(FirstWriter), numWriters' = numWriters
    PROVE  TurnsKept' /\ overtaken' \in [Slots -> [Slots -> 0 .. 2]]
<1> DEFINE u == FirstWriter
           last == lastWriterIndexFlush
<1>1. numWriters \in Nat \ {0} /\ last \in 0 .. numWriters - 1 /\ MaxWriters \in Nat
      /\ numWriters <= MaxWriters
  BY InterleaverAssumption DEF IInv, InterleaverOK, Writers
<1>2. u = IF last + 1 = numWriters THEN 0 ELSE last + 1
  BY <1>1, ModNext DEF FirstWriter
<1>3. u \in Writers /\ Writers \subseteq Slots /\ Writers' = Writers
  BY <1>1, <1>2 DEF Writers, Slots
<1>4. \A w, v \in Slots : overtaken[w][v] \in 0 .. 1
  BY DEF IInv, TurnsKept
<1> HIDE DEF u
<1>5. \A w, v \in Slots :
          overtaken'[w][v] = IF w = u \/ w \notin Writers THEN 0
                             ELSE IF v = u THEN Least(overtaken[w][v] + 1, 2)
                             ELSE overtaken[w][v]
  BY DEF OvertakenBy, u
<1>6. overtaken' \in [Slots -> [Slots -> 0 .. 2]]
  <2>1. \A w, v \in Slots : overtaken'[w][v] \in 0 .. 2
    BY <1>4, <1>5 DEF Least
  <2>2. overtaken' = [w \in Slots |-> [v \in Slots |-> overtaken'[w][v]]]
    BY DEF OvertakenBy
  <2>3. QED
    BY <2>1, <2>2
<1>7. TurnsKept'
  <2> SUFFICES ASSUME NEW w \in Slots, NEW v \in Slots
               PROVE  \/ overtaken'[w][v] = 0
                      \/ /\ overtaken'[w][v] = 1
                         /\ w \in Writers /\ v \in Writers
                         /\ IF w > u THEN v <= u \/ w < v ELSE v <= u /\ w < v
    BY <1>3 DEF TurnsKept, Before, u
  <2>1. w \in Nat /\ v \in Nat
    BY DEF Slots
  <2>2. CASE w = u \/ w \notin Writers
    BY <1>5, <2>2
  <2>3. CASE w # u /\ w \in Writers /\ v = u
    <3>1. overtaken[w][u] = 0
      BY <1>1, <1>2, <2>1, <2>3 DEF IInv, TurnsKept, Before, Writers
    <3>2. overtaken'[w][v] = 1
      BY <1>5, <2>3, <3>1 DEF Least
    <3>3. IF w > u THEN v <= u \/ w < v ELSE v <= u /\ w < v
      BY <1>1, <1>2, <2>1, <2>3
    <3>4. QED
      BY <1>3, <2>3, <3>2, <3>3
  <2>4. CASE w # u /\ w \in Writers /\ v # u
    <3>1. overtaken'[w][v] = overtaken[w][v]
      BY <1>5, <2>4
    <3>2. CASE overtaken[w][v] = 0
      BY <3>1, <3>2
    <3>3. CASE overtaken[w][v] # 0
      <4>1. overtaken[w][v] = 1 /\ v \in Writers /\ Before(w, v)
        BY <3>3 DEF IInv, TurnsKept
      <4>2. v \in 0 .. numWriters - 1 /\ w \in 0 .. numWriters - 1
        BY <2>4, <4>1 DEF Writers
      <4>3. IF w > u THEN v <= u \/ w < v ELSE v <= u /\ w < v
        BY <1>1, <1>2, <2>4, <4>1, <4>2 DEF Before
      <4>4. QED
        BY <2>4, <3>1, <4>1, <4>3
    <3>4. QED
      BY <3>2, <3>3
  <2>5. QED
    BY <2>2, <2>3, <2>4
<1>8. QED
  BY <1>6, <1>7

LEMMA FlushWriterKeeps == IInv /\ FlushWriter => IInv'
<1> SUFFICES ASSUME IInv, FlushWriter PROVE IInv'
  OBVIOUS
<1> DEFINE w == fl.index
<1>1. PICK n \in PagesFlushed(w) \ {0} :
          /\ dirty' = [dirty EXCEPT ![w] = dirty[w] - n]
          /\ IF n * PageSize >= fl.rem
             THEN RoundDone(fl.pages + n)
             ELSE /\ fl' = [index |-> (w + 1) % numWriters, i |-> fl.i + 1,
                            rem |-> fl.rem - n * PageSize, pages |-> fl.pages + n]
                  /\ UNCHANGED <<rd, loop>>
  BY DEF FlushWriter
<1>2. /\ loop = "flush" /\ ~Stops /\ lastWriterIndexFlush' = w /\ overtaken' = OvertakenBy(w)
      /\ UNCHANGED <<readCount, numWriters>>
  BY DEF FlushWriter
<1>3. /\ w = FirstWriter /\ w \in Writers /\ numWriters \in Nat \ {0}
      /\ fl.rem \in Nat \ {0} /\ fl.pages \in Nat /\ fl.i \in Nat /\ fl.i < numWriters
      /\ fl.pages * PageSize + fl.rem = BlockSize
      /\ PageSize \in Nat \ {0} /\ BlockSize \in Nat \ {0}
  <2>1. w = FirstWriter /\ w \in Writers /\ fl.rem > 0 /\ numWriters > 0
        /\ fl.pages * PageSize + fl.rem = BlockSize
    BY <1>2 DEF IInv, RoundAdds
  <2>2. numWriters \in Nat /\ fl.rem \in Nat /\ fl.pages \in Nat /\ fl.i \in 0 .. numWriters
        /\ PageSize \in Nat \ {0} /\ BlockSize \in Nat \ {0}
    BY InterleaverAssumption DEF IInv, InterleaverOK
  <2>3. fl.i # numWriters
    BY <1>2 DEF Stops
  <2>4. fl.i \in Nat /\ fl.i < numWriters
    BY <2>2, <2>3
  <2>5. numWriters \in Nat \ {0} /\ fl.rem \in Nat \ {0}
    BY <2>1, <2>2
  <2>6. QED
    BY <2>1, <2>2, <2>4, <2>5
<1>4. n \in 0 .. dirty[w] /\ n * PageSize < fl.rem + PageSize
  BY <1>1, <1>3, FlushedPages DEF IInv
<1>5. dirty[w] \in 0 .. CachePages /\ w \in Slots
  <2>1. w \in Slots
    BY <1>3, InterleaverAssumption DEF IInv, InterleaverOK, Writers, Slots
  <2>2. QED
    BY <2>1 DEF IInv, InterleaverOK
<1>6. n \in Nat /\ n * PageSize \in Nat /\ dirty[w] - n \in 0 .. CachePages
  BY <1>3, <1>4, <1>5, ProductNat, InterleaverAssumption
<1>7. dirty' \in [Slots -> 0 .. CachePages]
  BY <1>1, <1>5, <1>6 DEF IInv, InterleaverOK
<1>8. Writers' = Writers
  BY <1>2 DEF Writers
<1>9. TurnsKept' /\ overtaken' \in [Slots -> [Slots -> 0 .. 2]]
  BY <1>2, <1>3, TurnTaken
<1>10. (fl.pages + n) * PageSize = fl.pages * PageSize + n * PageSize
       /\ (fl.pages + n - 1) * PageSize = fl.pages * PageSize + n * PageSize - PageSize
       /\ fl.pages * PageSize \in Nat
  BY <1>3, <1>6, ProductNat, TimesSum
<1> HIDE DEF w
<1>11. CASE n * PageSize >= fl.rem
  <2>1. RoundDone(fl.pages + n) /\ fl.pages + n \in Nat
    BY <1>1, <1>3, <1>6, <1>11
  <2>2. /\ rd' \in RdType
        /\ loop' \in {"idle", "read"}
        /\ fl' = [index |-> 0, i |-> 0, rem |-> 0, pages |-> fl.pages + n]
        /\ RoundsAdd'
    BY <1>2, <2>1, RoundDoneReads
  <2>3. fl' \in [index : Writers \cup {0}, i : 0 .. numWriters, rem : 0 .. BlockSize, pages : Nat]
    BY <1>3, <2>1, <2>2
  <2>4. InterleaverOK'
    BY <1>2, <1>3, <1>7, <1>8, <1>9, <2>2, <2>3 DEF IInv, InterleaverOK, RdType
  <2>5. RoundIsBounded'
    <3>1. fl'.pages = fl.pages + n
      BY <2>2
    <3>2. (fl.pages + n - 1) * PageSize < BlockSize
      BY <1>3, <1>4, <1>6, <1>10
    <3>3. QED
      BY <1>3, <1>6, <3>1, <3>2 DEF RoundIsBounded
  <2>6. RoundAdds'
    BY <2>2 DEF RoundAdds
  <2>7. QED
    BY <1>9, <2>2, <2>4, <2>5, <2>6 DEF IInv
<1>12. CASE ~(n * PageSize >= fl.rem)
  <2>1. /\ fl' = [index |-> (w + 1) % numWriters, i |-> fl.i + 1,
                  rem |-> fl.rem - n * PageSize, pages |-> fl.pages + n]
        /\ UNCHANGED <<rd, loop>>
    BY <1>1, <1>12 DEF w
  <2>2. (w + 1) % numWriters \in Writers
    <3>1. w + 1 \in Nat
      BY <1>3 DEF Writers
    <3>2. QED
      BY <1>3, <3>1, DivMod DEF Writers
  <2>3. fl.rem - n * PageSize \in 0 .. BlockSize /\ fl.rem - n * PageSize > 0
        /\ fl.pages + n \in Nat /\ fl.i + 1 \in 0 .. numWriters
    BY <1>3, <1>6, <1>10, <1>12
  <2>4. fl' \in [index : Writers \cup {0}, i : 0 .. numWriters, rem : 0 .. BlockSize, pages : Nat]
    BY <2>1, <2>2, <2>3
  <2>5. InterleaverOK'
    BY <1>2, <1>3, <1>7, <1>8, <1>9, <2>1, <2>4 DEF IInv, InterleaverOK
  <2>6. RoundIsBounded'
    <3>1. fl'.pages = fl.pages + n
      BY <2>1
    <3>2. (fl.pages + n - 1) * PageSize < BlockSize
      BY <1>3, <1>4, <1>6, <1>10
    <3>3. QED
      BY <1>3, <1>6, <3>1, <3>2 DEF RoundIsBounded
  <2>7. RoundAdds'
    <3>1. fl'.pages * PageSize + fl'.rem = BlockSize
      BY <1>3, <1>6, <1>10, <2>1
    <3>2. fl'.index = FirstWriter'
      BY <1>2, <2>1 DEF FirstWriter
    <3>3. QED
      BY <1>2, <1>3, <1>8, <2>1, <2>2, <2>3, <3>1, <3>2 DEF RoundAdds
  <2>8. RoundsAdd'
    BY <1>2, <2>1 DEF IInv, RoundsAdd, BytesRead
  <2>9. QED
    BY <1>9, <2>5, <2>6, <2>7, <2>8 DEF IInv
<1>13. QED
  BY <1>11, <1>12

-----------------------------------------------------------------------------
LEMMA StutterKeeps == IInv /\ UNCHANGED interleaverVars => IInv'
BY DEF IInv, interleaverVars, InterleaverOK, RoundIsBounded, RoundAdds, RoundsAdd, TurnsKept, Writers, FirstWriter,
       BytesRead, PaceKept, BlocksPassed, Before

LEMMA NextKeeps == IInv /\ [NextInterleaver]_interleaverVars => IInv'
<1> SUFFICES ASSUME IInv, [NextInterleaver]_interleaverVars PROVE IInv'
  OBVIOUS
<1>1. CASE OpenWriter
  BY <1>1, OpenWriterKeeps
<1>2. ASSUME NEW w \in Writers, WriteOf(w) PROVE IInv'
  BY <1>2, WriteKeeps
<1>3. ASSUME NEW f \in Writers \cup {Source}, NEW n \in 1 .. MaxCount, Read(f, n) PROVE IInv'
  BY <1>3, ReadKeeps
<1>4. CASE ReadBlock
  BY <1>4, ReadBlockKeeps
<1>5. CASE ReadRest
  BY <1>5, ReadRestKeeps
<1>6. CASE ReadReturns
  BY <1>6, ReadReturnsKeeps
<1>7. CASE FlushWriter
  BY <1>7, FlushWriterKeeps
<1>8. CASE RoundStops
  BY <1>8, RoundStopsKeeps
<1>9. CASE RoundFails
  BY <1>9, RoundFailsKeeps
<1>10. CASE UNCHANGED interleaverVars
  BY <1>10, StutterKeeps
<1>11. QED
  BY <1>1, <1>2, <1>3, <1>4, <1>5, <1>6, <1>7, <1>8, <1>9, <1>10 DEF NextInterleaver, Call, Step

THEOREM Inductive == InterleaverSpec => []IInv
BY InitIInv, NextKeeps, PTL DEF InterleaverSpec

(* No index leaves the array of writers, and no unsigned count of the two  *)
(* loops goes below zero.                                                  *)
THEOREM TypeCorrect == InterleaverSpec => []InterleaverOK
<1>1. IInv => InterleaverOK
  BY DEF IInv
<1>2. QED
  BY <1>1, Inductive, PTL

(* A round of flushes never writes a page more than a block takes.         *)
THEOREM RoundsAreBounded == InterleaverSpec => []RoundIsBounded
<1>1. IInv => RoundIsBounded
  BY DEF IInv
<1>2. QED
  BY <1>1, Inductive, PTL

(* There is a round for each block read.                                   *)
THEOREM ReadsAndWritesKeepPace == InterleaverSpec => []PaceKept
<1>1. IInv => PaceKept
  <2> SUFFICES ASSUME IInv, loop = "read" PROVE PaceKept
    BY DEF IInv, RoundsAdd, InterleaverOK, PaceKept
  <2>1. /\ rd.count \in Nat /\ rd.rounds \in Nat /\ rd.start \in Nat /\ rd.rem \in Nat
        /\ BlockSize \in Nat \ {0}
    BY InterleaverAssumption DEF IInv, InterleaverOK
  <2>2. rd.rem <= rd.count /\ rd.rounds * BlockSize <= rd.start + BytesRead /\ ~rd.short
    BY DEF IInv, RoundsAdd
  <2> DEFINE passed == rd.start + (rd.count - rd.rem)
  <2>3. passed \in Nat /\ rd.rounds * BlockSize <= passed
    BY <2>1, <2>2 DEF BytesRead
  <2>4. BlocksPassed = passed \div BlockSize
    BY DEF BlocksPassed
  <2> HIDE DEF passed
  <2>5. rd.rounds <= BlocksPassed /\ BlocksPassed \in Nat
    BY <2>1, <2>3, <2>4, DivAtLeast, DivMod
  <2>6. QED
    BY <2>1, <2>2, <2>5 DEF PaceKept
<1>2. QED
  BY <1>1, Inductive, PTL

(* The writers are flushed in turn.                                        *)
THEOREM WritersTakeTurns == InterleaverSpec => []InTurn
<1>1. IInv => InTurn
  <2>1. ASSUME IInv PROVE Writers \subseteq Slots
    BY <2>1, InterleaverAssumption DEF IInv, InterleaverOK, Writers, Slots
  <2>2. ASSUME IInv, NEW w \in Writers, NEW v \in Writers PROVE overtaken[w][v] <= 1
    BY <2>1, <2>2 DEF IInv, TurnsKept
  <2>3. QED
    BY <2>2 DEF InTurn
<1>2. QED
  BY <1>1, Inductive, PTL
=============================================================================
