-------------------------- MODULE CacheFileProofs --------------------------
(***************************************************************************)
(* Proofs about the page cache, for every number and size of pages and for *)
(* every client: its state stays in its bounds; its dirty pages are one    *)
(* run of consecutive pages; and what a client sees through it is a file,  *)
(* whatever is in the cache and whatever has gone to the target.           *)
(***************************************************************************)
EXTENDS CacheFile, WellFoundedInduction, TLAPS

(* Slot i is in the run of dirtyCount slots from firstDirtyPage on.        *)
InRun(i) ==
    IF i >= firstDirtyPage THEN i - firstDirtyPage < dirtyCount
                           ELSE i + NumPages - firstDirtyPage < dirtyCount

RunIntact == \A i \in Slots : (pages[i].isDirty <=> InRun(i))

(* What a flush that starts in the middle of a run which continues at the  *)
(* first slot makes of the run: the slots before the start, and the slots  *)
(* from the current one on.  Both counts still add up.                     *)
RunCut ==
    /\ fl.back # "mark"
    /\ \E e, r \in Slots :
          /\ firstDirtyPage < e
          /\ e < NumPages
          /\ fl.index < r
          /\ r <= firstDirtyPage
          /\ dirtyCount = (e - firstDirtyPage) + (r - fl.index)
          /\ fl.rem >= r - fl.index
          /\ \A i \in Slots : pages[i].isDirty <=> ((firstDirtyPage <= i /\ i < e)
                                                  \/ (fl.index <= i /\ i < r))

(* A flush of the whole cache, from slot 0, has cleaned what it has passed.*)
Swept ==
    /\ \/ fl.rem + fl.index = NumPages
       \/ fl.rem = 0 /\ fl.index = 0
    /\ \A i \in Slots : i < NumPages - fl.rem => ~pages[i].isDirty

IInv ==
    /\ TypeOK
    /\ RunIntact \/ (pc \in {"flush", "aborted"} /\ RunCut)
    /\ pc = "flush" /\ fl.back = "mark" => RunIntact /\ Swept
    /\ pc = "mark" => dirtyCount = 0

(* No flush meets a target that refuses a seek or a write.                 *)
FlushSucceeds == "seek" \notin Failures /\ "write" \notin Failures

-----------------------------------------------------------------------------
(* Arithmetic.                                                             *)
LEMMA DivMod ==
    ASSUME NEW m \in Nat \ {0}, NEW a \in Nat
    PROVE  a % m \in 0 .. m - 1 /\ a \div m \in Nat
OBVIOUS

LEMMA ModWraps ==
    ASSUME NEW m \in Nat \ {0}, NEW a \in Nat, a < 2 * m
    PROVE  a % m = IF a < m THEN a ELSE a - m
OBVIOUS

LEMMA DivBelow ==
    ASSUME NEW m \in Nat \ {0}, NEW a \in Nat, NEW n \in Nat, a < n * m
    PROVE  a \div m < n
OBVIOUS

LEMMA ProductNat ==
    ASSUME NEW a \in Nat, NEW b \in Nat
    PROVE  a * b \in Nat
OBVIOUS

(* Pages that n bytes need.                                                *)
LEMMA PagesOfNat ==
    ASSUME NEW n \in Nat
    PROVE  PagesOf(n) \in Nat
BY CacheAssumption, DivMod DEF PagesOf

(* Where the position is.                                                  *)
LEMMA Current ==
    ASSUME position \in Nat
    PROVE  /\ CurrentPage \in Nat
           /\ CurrentSlot \in Slots
           /\ CurrentOffset \in Offsets
<1>1. CurrentPage \in Nat /\ CurrentOffset \in Offsets
  BY CacheAssumption, DivMod DEF CurrentPage, CurrentOffset, Offsets
<1>2. CurrentSlot \in Slots
  BY <1>1, CacheAssumption, DivMod DEF CurrentSlot, Slots
<1>3. QED
  BY <1>1, <1>2

LEMMA PageCounts ==
    ASSUME TypeOK
    PROVE  /\ PagesToRead \in Nat
           /\ PagesToWrite \in Nat
           /\ PagesToWrite * PageSize \in Nat
<1>1. CurrentSlot \in Slots
  BY Current DEF TypeOK
<1>2. PagesToRead \in Nat
  BY <1>1, PagesOfNat, CacheAssumption DEF TypeOK, PagesToRead, Smaller, Slots
<1>3. PagesToWrite \in Nat
  BY PagesOfNat, CacheAssumption DEF TypeOK, PagesToWrite, Smaller
<1>4. QED
  BY <1>2, <1>3, ProductNat, CacheAssumption

-----------------------------------------------------------------------------
(* The initial state.                                                      *)
LEMMA InitIInv == Init => IInv
<1> SUFFICES ASSUME Init PROVE IInv
  OBVIOUS
<1>1. TypeOK
  <2>1. pages \in [Slots -> [page : Nat \cup {-1}, size : 0 .. PageSize, isDirty : BOOLEAN]]
    BY CacheAssumption DEF Init
  <2>2. cacheData \in [Slots -> [Offsets -> Bytes]]
    BY DEF Init, Bytes
  <2>3. target \in [size : Nat, bytes : [Watched -> Bytes]]
    BY CacheAssumption DEF Init, Bytes
  <2>4. rd \in [count : Nat, rem : Nat, back : {"idle", "ahead"}]
    BY DEF Init, NoRead
  <2>5. fl \in [index : Slots, rem : Nat, back : {"idle", "load", "mark", "evict", "closed"}]
    BY CacheAssumption DEF Init, NoFlush, Slots
  <2>6. wr \in [count : Nat, rem : Nat, value : Bytes, position : Nat, eof : BOOLEAN]
    BY DEF Init, NoWrite, Bytes
  <2>7. position \in Nat /\ firstDirtyPage \in Slots /\ dirtyCount \in 0 .. NumPages
    BY CacheAssumption DEF Init, Slots
  <2>8. eof \in BOOLEAN /\ writingAtEOF \in BOOLEAN
    BY DEF Init
  <2>9. QED
    BY <2>1, <2>2, <2>3, <2>4, <2>5, <2>6, <2>7, <2>8 DEF Init, TypeOK
<1>2. RunIntact
  BY CacheAssumption DEF Init, RunIntact, InRun, Slots
<1>3. QED
  BY <1>1, <1>2 DEF IInv, Init

(* A step outside flush_dirty_pages that leaves the isDirty flags and the  *)
(* two counters alone keeps the invariant.                                 *)
LEMMA KeepRun ==
    ASSUME IInv, TypeOK', pc \notin {"flush", "aborted"}, pc' # "mark",
           \A i \in Slots : pages'[i].isDirty = pages[i].isDirty,
           UNCHANGED <<firstDirtyPage, dirtyCount>>,
           pc' = "flush" => (fl'.back # "mark" \/ (fl'.index = 0 /\ fl'.rem = NumPages))
    PROVE  IInv'
<1>1. RunIntact'
  BY DEF IInv, RunIntact, InRun
<1>2. pc' = "flush" /\ fl'.back = "mark" => Swept'
  BY CacheAssumption DEF Swept, Slots
<1>3. QED
  BY <1>1, <1>2 DEF IInv

LEMMA ReadIInv == ASSUME IInv, NEW n \in 1 .. MaxCount, Read(n) PROVE IInv'
<1>1. TypeOK'
  <2>1. rd' \in [count : Nat, rem : Nat, back : {"idle", "ahead"}]
    BY CacheAssumption DEF Read
  <2>2. QED
    BY <2>1 DEF IInv, TypeOK, Read, cacheVars
<1>2. QED
  BY <1>1, KeepRun DEF cacheVars, IInv, TypeOK, Read

LEMMA WriteIInv == ASSUME IInv, NEW n \in 1 .. MaxCount, NEW v \in Values, Write(n, v) PROVE IInv'
<1>1. TypeOK'
  <2>1. wr' \in [count : Nat, rem : Nat, value : Bytes, position : Nat, eof : BOOLEAN]
    BY CacheAssumption DEF Write, NoWrite, Bytes
  <2>2. QED
    BY <2>1 DEF IInv, TypeOK, Write, cacheVars
<1>2. QED
  BY <1>1, KeepRun DEF cacheVars, IInv, TypeOK, Write, NoWrite, Bytes

LEMMA SeekIInv == ASSUME IInv, NEW p \in Nat, pc = "idle", SeekTo(p) PROVE IInv'
<1>1. TypeOK'
  BY CacheAssumption, Current, PagesOfNat, PageCounts DEF IInv, TypeOK, Slots, cacheVars, SeekTo, frames
<1>2. QED
  BY <1>1, KeepRun DEF cacheVars, IInv, TypeOK, SeekTo, frames

LEMMA FlushIInv == ASSUME IInv, NEW n \in Nat, Flush(n) PROVE IInv'
<1>1. TypeOK'
  BY CacheAssumption, Current, PagesOfNat, PageCounts DEF IInv, TypeOK, Slots, cacheVars, Flush, StartFlush
<1>2. QED
  BY <1>1, KeepRun DEF cacheVars, IInv, TypeOK, Flush, StartFlush

LEMMA CloseIInv == ASSUME IInv, Close PROVE IInv'
<1>1. TypeOK'
  <2>1. fl' \in [index : Slots, rem : Nat, back : {"idle", "load", "mark", "evict", "closed"}]
    BY CacheAssumption DEF Close, StartFlush, Slots
  <2>2. QED
    BY <2>1 DEF IInv, TypeOK, Close, StartFlush, cacheVars
<1>2. QED
  BY <1>1, KeepRun DEF cacheVars, IInv, TypeOK, Close, StartFlush

LEMMA ReadCachedIInv == ASSUME IInv, ReadCached PROVE IInv'
<1> DEFINE n == Smaller(pages[CurrentSlot].size - CurrentOffset, rd.rem)
<1>1. TypeOK'
  <2>1. CurrentSlot \in Slots /\ CurrentOffset \in Nat
    BY Current, CacheAssumption DEF IInv, TypeOK, Offsets
  <2>2. n \in Nat /\ n <= rd.rem
    BY <2>1, CacheAssumption DEF IInv, TypeOK, ReadCached, Smaller
  <2>3. position' = position + n /\ rd' = [rd EXCEPT !.rem = rd.rem - n]
    BY DEF ReadCached
  <2>4. position' \in Nat /\ rd' \in [count : Nat, rem : Nat, back : {"idle", "ahead"}]
    <3> HIDE DEF n
    <3> QED BY <2>2, <2>3 DEF IInv, TypeOK
  <2>5. QED
    BY <2>4 DEF IInv, TypeOK, ReadCached
<1>2. QED
  BY <1>1, KeepRun DEF cacheVars, IInv, TypeOK, ReadCached

LEMMA ReadMissIInv == ASSUME IInv, ReadMiss PROVE IInv'
<1>1. TypeOK'
  BY CacheAssumption, Current, PagesOfNat, PageCounts DEF IInv, TypeOK, Slots, cacheVars, ReadMiss, StartFlush
<1>2. QED
  BY <1>1, KeepRun DEF cacheVars, IInv, TypeOK, ReadMiss, StartFlush

LEMMA ReadReturnsIInv == ASSUME IInv, ReadReturns PROVE IInv'
<1>1. TypeOK'
  BY CacheAssumption, Current, PagesOfNat, PageCounts DEF IInv, TypeOK, Slots, cacheVars, ReadReturns, NoRead
<1>2. QED
  BY <1>1, KeepRun DEF cacheVars, IInv, TypeOK, ReadReturns, NoRead

LEMMA ReadLoadFailsIInv == ASSUME IInv, ReadLoadFails PROVE IInv'
<1>1. TypeOK'
  BY CacheAssumption, Current, PagesOfNat, PageCounts DEF IInv, TypeOK, Slots, cacheVars, ReadLoadFails, ReadFails, NoRead
<1>2. QED
  BY <1>1, KeepRun DEF cacheVars, IInv, TypeOK, ReadLoadFails, ReadFails, NoRead

LEMMA WriteGapIInv == ASSUME IInv, WriteGap PROVE IInv'
<1>1. TypeOK'
  <2>1. CurrentSlot \in Slots /\ CurrentPage \in Nat
    BY Current DEF IInv, TypeOK
  <2>2. Claimed(CurrentSlot) \in [page : Nat \cup {-1}, size : 0 .. PageSize, isDirty : BOOLEAN]
    BY <2>1, CacheAssumption DEF IInv, TypeOK, Claimed
  <2>3. pages' \in [Slots -> [page : Nat \cup {-1}, size : 0 .. PageSize, isDirty : BOOLEAN]]
    BY <2>1, <2>2 DEF IInv, TypeOK, WriteGap
  <2>4. fl' \in [index : Slots, rem : Nat, back : {"idle", "load", "mark", "evict", "closed"}]
    BY CacheAssumption DEF WriteGap, StartFlush, Slots
  <2>5. QED
    BY <2>3, <2>4 DEF IInv, TypeOK, WriteGap, StartFlush
<1>2. QED
  BY <1>1, KeepRun DEF cacheVars, IInv, TypeOK, WriteGap, StartFlush, Claimed

LEMMA WriteMissAtEOFIInv == ASSUME IInv, WriteMissAtEOF PROVE IInv'
<1>1. TypeOK'
  BY CacheAssumption, Current, PagesOfNat, PageCounts DEF IInv, TypeOK, Slots, cacheVars, WriteMissAtEOF, StartFlush
<1>2. QED
  BY <1>1, KeepRun DEF cacheVars, IInv, TypeOK, WriteMissAtEOF, StartFlush

LEMMA WriteEvictIInv == ASSUME IInv, WriteEvict PROVE IInv'
<1>0. pages' = [i \in Slots |->
                  IF i \in Evicted THEN [page |-> -1, size |-> 0, isDirty |-> pages[i].isDirty]
                                   ELSE pages[i]]
  BY DEF WriteEvict
<1>1. TypeOK'
  <2>1. pages' \in [Slots -> [page : Nat \cup {-1}, size : 0 .. PageSize, isDirty : BOOLEAN]]
    BY <1>0, CacheAssumption DEF IInv, TypeOK
  <2>2. QED
    BY <2>1 DEF IInv, TypeOK, WriteEvict, frames
<1>2. \A i \in Slots : pages'[i].isDirty = pages[i].isDirty
  BY <1>0 DEF IInv, TypeOK
<1>3. QED
  BY <1>1, <1>2, KeepRun DEF WriteEvict

LEMMA WriteMissIInv == ASSUME IInv, WriteMiss PROVE IInv'
<1>1. TypeOK'
  BY CacheAssumption, Current, PagesOfNat, PageCounts DEF IInv, TypeOK, Slots, cacheVars, WriteMiss
<1>2. QED
  BY <1>1, KeepRun DEF cacheVars, IInv, TypeOK, WriteMiss

LEMMA WriteAheadIInv == ASSUME IInv, WriteAhead PROVE IInv'
<1>1. TypeOK'
  BY CacheAssumption, Current, PagesOfNat, PageCounts DEF IInv, TypeOK, Slots, cacheVars, WriteAhead, NoRead
<1>2. QED
  BY <1>1, KeepRun DEF cacheVars, IInv, TypeOK, WriteAhead, NoRead

LEMMA WriteAheadFailsIInv == ASSUME IInv, WriteAheadFails PROVE IInv'
<1>1. TypeOK'
  BY CacheAssumption, Current, PagesOfNat, PageCounts DEF IInv, TypeOK, Slots, cacheVars, WriteAheadFails, NoRead, NoWrite, Bytes
<1>2. QED
  BY <1>1, KeepRun DEF cacheVars, IInv, TypeOK, WriteAheadFails, NoRead, NoWrite, Bytes

LEMMA WriteReturnsIInv == ASSUME IInv, WriteReturns PROVE IInv'
<1>1. TypeOK'
  BY CacheAssumption, Current, PagesOfNat, PageCounts DEF IInv, TypeOK, Slots, cacheVars, WriteReturns, NoWrite, Bytes
<1>2. QED
  BY <1>1, KeepRun DEF cacheVars, IInv, TypeOK, WriteReturns, NoWrite, Bytes

LEMMA ReadLoadIInv == ASSUME IInv, ReadLoad PROVE IInv'
<1> DEFINE Start(i) == (i - CurrentSlot) * PageSize
           In(i, o, n) == i >= CurrentSlot /\ Start(i) + o < n
           Byte(w) == IF w \in Watched THEN target.bytes[w] ELSE Junk
<1>1. CurrentSlot \in Slots /\ CurrentPage \in Nat /\ PageSize \in Nat \ {0} /\ NumPages \in Nat
  BY Current, CacheAssumption DEF IInv, TypeOK
<1>2. PICK n \in Nat :
        /\ pages' = [i \in Slots |->
               IF In(i, 0, n)
               THEN [page |-> CurrentPage + (i - CurrentSlot),
                     size |-> Smaller(n - Start(i), PageSize),
                     isDirty |-> pages[i].isDirty]
               ELSE pages[i]]
        /\ cacheData' = [i \in Slots |-> [o \in Offsets |->
               IF In(i, o, n) THEN Byte(CurrentPage * PageSize + Start(i) + o)
                              ELSE cacheData[i][o]]]
  <2> DEFINE there == Smaller(target.size - CurrentPage * PageSize, PagesToRead * PageSize)
  <2>1. there > 0 /\ there \in Int
    <3>1. CurrentPage * PageSize \in Nat /\ PagesToRead * PageSize \in Nat
      BY <1>1, PageCounts, ProductNat DEF IInv
    <3>2. there > 0
      BY DEF ReadLoad
    <3>3. there \in Int
      BY <3>1 DEF IInv, TypeOK, Smaller
    <3>4. QED
      BY <3>2, <3>3
  <2>2. \A n \in (IF "read" \in Failures THEN 1 .. there ELSE {there}) : n \in Nat
    <3> HIDE DEF there
    <3> QED BY <2>1
  <2>3. QED
    BY <2>2 DEF ReadLoad
<1>3. \A i \in Slots : Start(i) \in Int
  BY <1>1 DEF Slots
<1>4. ASSUME NEW i \in Slots, In(i, 0, n)
      PROVE  /\ CurrentPage + (i - CurrentSlot) \in Nat
             /\ Smaller(n - Start(i), PageSize) \in 0 .. PageSize
  <2>1. i >= CurrentSlot /\ Start(i) < n
    BY <1>3, <1>4
  <2>2. QED
    <3> HIDE DEF Start
    <3> QED BY <1>1, <1>3, <2>1 DEF Slots, Smaller
<1>5. pages' \in [Slots -> [page : Nat \cup {-1}, size : 0 .. PageSize, isDirty : BOOLEAN]]
  <2> HIDE DEF In, Start
  <2> QED BY <1>2, <1>4 DEF IInv, TypeOK
<1>6. cacheData' \in [Slots -> [Offsets -> Bytes]]
  <2>1. \A w : Byte(w) \in Bytes
    BY DEF IInv, TypeOK, Bytes
  <2>2. QED
    <3> HIDE DEF In, Start, Byte
    <3> QED BY <1>2, <2>1 DEF IInv, TypeOK
<1>7. TypeOK'
  BY <1>5, <1>6 DEF IInv, TypeOK, ReadLoad, frames
<1>8. \A i \in Slots : pages'[i].isDirty = pages[i].isDirty
  <2> HIDE DEF In, Start
  <2> QED BY <1>2 DEF IInv, TypeOK
<1>9. QED
  BY <1>7, <1>8, KeepRun DEF ReadLoad

-----------------------------------------------------------------------------
(* Copying into a page extends the run by one slot or not at all.          *)
LEMMA WriteCopyIInv == ASSUME IInv, WriteCopy PROVE IInv'
<1> DEFINE i == CurrentSlot
           n == Smaller(PageSize - CurrentOffset, wr.rem)
           Byte(o) == IF CurrentPage * PageSize + o \in Watched THEN wr.value ELSE Junk
           Written(o) == CurrentOffset <= o /\ o < CurrentOffset + n
<1>1. /\ i \in Slots /\ CurrentPage \in Nat /\ CurrentOffset \in 0 .. PageSize - 1
      /\ PageSize \in Nat \ {0} /\ NumPages \in Nat \ {0}
  BY Current, CacheAssumption DEF IInv, TypeOK, Offsets
<1>2. n \in Nat /\ n <= wr.rem /\ CurrentOffset + n <= PageSize
  BY <1>1 DEF IInv, TypeOK, Smaller
<1>3. RunIntact
  BY DEF IInv, WriteCopy
<1>4. /\ pages' = [pages EXCEPT ![i] = [page |-> CurrentPage,
                                       size |-> Larger(Claimed(i).size, CurrentOffset + n),
                                       isDirty |-> TRUE]]
      /\ cacheData' = [cacheData EXCEPT ![i] =
                          [o \in Offsets |-> IF Written(o) THEN Byte(o) ELSE cacheData[i][o]]]
      /\ dirtyCount' = IF pages[i].isDirty THEN dirtyCount ELSE dirtyCount + 1
      /\ firstDirtyPage' = IF dirtyCount = 0 THEN i ELSE firstDirtyPage
      /\ wr' = [wr EXCEPT !.rem = wr.rem - n]
      /\ position' = position + n
      /\ pc' = "write"
      /\ UNCHANGED <<eof, writingAtEOF, target, rd, fl>>
  BY DEF WriteCopy
<1>5. /\ pages'[i].isDirty
      /\ \A k \in Slots \ {i} : pages'[k].isDirty = pages[k].isDirty
  <2> HIDE DEF i, n
  <2> QED BY <1>1, <1>4 DEF IInv, TypeOK
<1>6. RunIntact' /\ dirtyCount' \in 0 .. NumPages /\ firstDirtyPage' \in Slots
  <2>1. firstDirtyPage \in Slots /\ dirtyCount \in 0 .. NumPages
    BY DEF IInv, TypeOK
  <2>2. CASE pages[i].isDirty
    <3>1. InRun(i)
      BY <1>1, <1>3, <2>2 DEF RunIntact
    <3>2. dirtyCount > 0
      BY <1>1, <2>1, <3>1 DEF InRun, Slots
    <3> HIDE DEF i
    <3>3. UNCHANGED <<firstDirtyPage, dirtyCount>>
      BY <1>4, <2>1, <2>2, <3>2
    <3>4. QED
      BY <1>3, <1>5, <2>1, <2>2, <3>3 DEF RunIntact, InRun
  <2>3. CASE ~pages[i].isDirty /\ dirtyCount = 0
    <3>1. \A k \in Slots : ~pages[k].isDirty
      BY <1>1, <1>3, <2>1, <2>3 DEF RunIntact, InRun, Slots
    <3> HIDE DEF i
    <3>2. firstDirtyPage' = i /\ dirtyCount' = 1
      BY <1>4, <2>3
    <3>3. \A k \in Slots : InRun(k)' <=> k = i
      BY <1>1, <3>2 DEF InRun, Slots
    <3>4. QED
      BY <1>1, <1>5, <3>1, <3>2, <3>3 DEF RunIntact, Slots
  <2>4. CASE ~pages[i].isDirty /\ dirtyCount > 0
    <3>1. pages[PreviousSlot].isDirty
      BY <2>4 DEF WriteCopy, Gap, IInv
    <3>2. PreviousSlot \in Slots /\ PreviousSlot = IF i = 0 THEN NumPages - 1 ELSE i - 1
      BY <1>1 DEF PreviousSlot, Slots
    <3>3. InRun(PreviousSlot) /\ ~InRun(i)
      BY <1>1, <1>3, <2>4, <3>1, <3>2 DEF RunIntact
    <3> HIDE DEF i
    <3>4. firstDirtyPage' = firstDirtyPage /\ dirtyCount' = dirtyCount + 1
      BY <1>4, <2>1, <2>4
    <3>5. \A k \in Slots : InRun(k)' <=> InRun(k) \/ k = i
      BY <1>1, <2>1, <3>2, <3>3, <3>4 DEF InRun, Slots
    <3>6. dirtyCount < NumPages
      BY <1>1, <2>1, <3>3 DEF InRun, Slots
    <3>7. QED
      BY <1>1, <1>3, <1>5, <2>1, <3>4, <3>5, <3>6 DEF RunIntact
  <2>5. QED
    BY <2>1, <2>2, <2>3, <2>4
<1>7. TypeOK'
  <2>1. Claimed(i).size \in 0 .. PageSize
    BY <1>1 DEF IInv, TypeOK, Claimed
  <2>2. Larger(Claimed(i).size, CurrentOffset + n) \in 0 .. PageSize
    <3> HIDE DEF i, n
    <3> QED BY <1>1, <1>2, <2>1 DEF Larger
  <2>3. pages' \in [Slots -> [page : Nat \cup {-1}, size : 0 .. PageSize, isDirty : BOOLEAN]]
    <3> HIDE DEF i, n
    <3> QED BY <1>1, <1>4, <2>2 DEF IInv, TypeOK
  <2>4. cacheData' \in [Slots -> [Offsets -> Bytes]]
    <3>1. \A o : Byte(o) \in Bytes
      BY DEF IInv, TypeOK, Bytes
    <3>2. QED
      <4>1. [o \in Offsets |-> IF Written(o) THEN Byte(o) ELSE cacheData[i][o]] \in [Offsets -> Bytes]
        <5> HIDE DEF Byte, Written, i
        <5> QED BY <1>1, <3>1 DEF IInv, TypeOK
      <4> HIDE DEF i, n, Byte, Written
      <4> QED BY <1>1, <1>4, <4>1 DEF IInv, TypeOK
  <2>5. wr' \in [count : Nat, rem : Nat, value : Bytes, position : Nat, eof : BOOLEAN]
        /\ position' \in Nat
    <3> DEFINE rem == wr.rem - n
    <3>1. rem \in Nat /\ position + n \in Nat
      <4> HIDE DEF n
      <4> QED BY <1>2 DEF IInv, TypeOK
    <3>2. wr' = [wr EXCEPT !.rem = rem] /\ position' = position + n
      BY <1>4
    <3> HIDE DEF rem, n
    <3>3. wr' \in [count : Nat, rem : Nat, value : Bytes, position : Nat, eof : BOOLEAN]
      BY <3>1, <3>2 DEF IInv, TypeOK
    <3>4. QED
      BY <3>1, <3>2, <3>3
  <2>6. eof' \in BOOLEAN /\ writingAtEOF' \in BOOLEAN
    BY <1>4 DEF IInv, TypeOK
  <2>7. QED
    <3> HIDE DEF i, n
    <3> QED BY <1>4, <1>6, <2>3, <2>4, <2>5, <2>6 DEF IInv, TypeOK
<1>8. QED
  <2> HIDE DEF i, n
  <2> QED BY <1>4, <1>6, <1>7 DEF IInv

-----------------------------------------------------------------------------
(* flush_dirty_pages                                                       *)
LEMMA FlushSkipIInv == ASSUME IInv, FlushSkip PROVE IInv'
<1> DEFINE i == fl.index
           n == Smaller(IF i >= firstDirtyPage THEN NumPages - i ELSE firstDirtyPage - i, fl.rem)
<1>1. /\ i \in Slots /\ fl.rem \in Nat /\ fl.rem > 0 /\ NumPages \in Nat \ {0}
      /\ firstDirtyPage \in Slots /\ dirtyCount \in 0 .. NumPages /\ dirtyCount > 0
  BY CacheAssumption DEF IInv, TypeOK, FlushSkip, Flushing
<1>2. n \in Nat /\ n <= fl.rem /\ i + n <= NumPages
  BY <1>1 DEF Smaller, Slots
<1>3. /\ fl' = [fl EXCEPT !.index = (i + n) % NumPages, !.rem = fl.rem - n]
      /\ pc = "flush" /\ ~pages[i].isDirty
      /\ UNCHANGED <<cacheVars, target, pc, wr, rd>>
  BY DEF FlushSkip, Flushing
<1>4. (i + n) % NumPages = IF i + n = NumPages THEN 0 ELSE i + n
  <2> HIDE DEF i, n
  <2> DEFINE a == i + n
  <2>1. a \in Nat /\ a < 2 * NumPages
    BY <1>1, <1>2 DEF Slots
  <2>2. a % NumPages = IF a < NumPages THEN a ELSE a - NumPages
    <3> HIDE DEF a
    <3> QED BY <1>1, <2>1, ModWraps
  <2>3. QED
    BY <1>1, <1>2, <2>2 DEF Slots
<1>5. fl'.index \in Slots /\ fl'.rem \in Nat /\ fl'.back = fl.back
      /\ fl'.index = (IF i + n = NumPages THEN 0 ELSE i + n) /\ fl'.rem = fl.rem - n
  <2> HIDE DEF n
  <2>1. fl \in [index : Slots, rem : Nat, back : {"idle", "load", "mark", "evict", "closed"}]
    BY DEF IInv, TypeOK
  <2>2. fl'.index = (i + n) % NumPages /\ fl'.rem = fl.rem - n /\ fl'.back = fl.back
    BY <1>3, <2>1
  <2>3. QED
    BY <1>1, <1>2, <1>4, <2>2 DEF Slots
<1>6. TypeOK'
  <2> HIDE DEF n
  <2>1. fl' \in [index : Slots, rem : Nat, back : {"idle", "load", "mark", "evict", "closed"}]
    BY <1>3, <1>5 DEF IInv, TypeOK
  <2>2. QED
    BY <1>3, <2>1 DEF IInv, TypeOK, cacheVars
<1>7. RunIntact
  <2>1. ASSUME RunCut PROVE FALSE
    <3>1. PICK r \in Slots : /\ i < r
                             /\ \A k \in Slots : i <= k /\ k < r => pages[k].isDirty
      BY <2>1 DEF RunCut
    <3>2. QED
      BY <1>1, <1>3, <3>1 DEF Slots
  <2>2. QED
    BY <1>3, <2>1 DEF IInv
<1>8. RunIntact'
  <2> HIDE DEF n
  <2> QED BY <1>3, <1>7 DEF RunIntact, InRun, cacheVars
<1>9. ASSUME fl.back = "mark" PROVE Swept'
  <2>0. Swept
    BY <1>3, <1>9 DEF IInv
  <2>1. Swept /\ fl.rem = NumPages - i
    BY <1>1, <2>0 DEF Swept, Slots
  <2>2. ~InRun(i)
    BY <1>1, <1>3, <1>7 DEF RunIntact
  <2>3. \A k \in Slots : i <= k /\ k < i + n => ~InRun(k)
    BY <1>1, <2>2 DEF InRun, Slots, Smaller
  <2>4. \A k \in Slots : k < i + n => ~pages[k].isDirty
    <3> HIDE DEF n
    <3> QED BY <1>1, <1>2, <1>7, <2>1, <2>3 DEF RunIntact, Swept, Slots
  <2> HIDE DEF n
  <2>5. \A k \in Slots : k < NumPages - fl'.rem => ~pages'[k].isDirty
    BY <1>1, <1>2, <1>3, <1>5, <2>1, <2>4 DEF cacheVars, Slots
  <2>6. fl'.rem + fl'.index = NumPages \/ (fl'.rem = 0 /\ fl'.index = 0)
    BY <1>1, <1>2, <1>5, <2>1 DEF Slots
  <2>7. QED
    BY <2>5, <2>6 DEF Swept
<1>10. QED
  <2> HIDE DEF n
  <2> QED BY <1>3, <1>5, <1>6, <1>8, <1>9 DEF IInv

LEMMA FlushReturnsIInv == ASSUME IInv, FlushReturns PROVE IInv'
<1>1. /\ firstDirtyPage \in Slots /\ dirtyCount \in 0 .. NumPages /\ NumPages \in Nat \ {0}
      /\ fl.rem \in Nat /\ fl.index \in Slots
  BY CacheAssumption DEF IInv, TypeOK
<1>2. pc = "flush" /\ (dirtyCount = 0 \/ fl.rem = 0) /\ pc' = fl.back /\ fl' = NoFlush
      /\ UNCHANGED <<cacheVars, target, wr, rd>>
  BY DEF FlushReturns
<1>3. RunIntact
  BY <1>1, <1>2 DEF IInv, RunCut, Slots
<1>4. TypeOK'
  BY <1>1, <1>2 DEF IInv, TypeOK, NoFlush, cacheVars, Slots
<1>5. RunIntact'
  BY <1>2, <1>3 DEF RunIntact, InRun, cacheVars
<1>6. ASSUME fl.back = "mark" PROVE dirtyCount = 0
  <2>1. SUFFICES ASSUME fl.rem = 0 PROVE dirtyCount = 0
    BY <1>2
  <2>2. ~InRun(firstDirtyPage)
    BY <1>1, <1>2, <1>3, <1>6, <2>1 DEF IInv, Swept, RunIntact, Slots
  <2>3. QED
    BY <1>1, <2>2 DEF InRun, Slots
<1>7. pc' # "flush"
  BY <1>2 DEF IInv, TypeOK
<1>8. QED
  BY <1>2, <1>4, <1>5, <1>6, <1>7 DEF IInv, cacheVars

LEMMA FlushAbortsIInv == ASSUME IInv, FlushAborts PROVE IInv'
<1>1. TypeOK'
  BY DEF IInv, TypeOK, FlushAborts, cacheVars, frames
<1>2. RunIntact => RunIntact'
  BY DEF RunIntact, InRun, FlushAborts, cacheVars
<1>3. RunCut => RunCut'
  BY DEF RunCut, FlushAborts, cacheVars, frames
<1>4. QED
  BY <1>1, <1>2, <1>3 DEF IInv, FlushAborts

(* The arithmetic of one write of a flush: which slots it cleans.          *)
LEMMA OneWrite ==
    ASSUME TypeOK, fl.rem > 0, dirtyCount > 0, FlushAsserts(fl.index),
           (RunIntact /\ pages[fl.index].isDirty) \/ RunCut
    PROVE  /\ InOneWrite(fl.index) \in Nat \ {0}
           /\ fl.index + InOneWrite(fl.index) <= NumPages
           /\ InOneWrite(fl.index) <= Wanted(fl.index)
           /\ InOneWrite(fl.index) <= dirtyCount
           /\ Wanted(fl.index) \in Nat
           /\ RunFrom(fl.index) \in Nat
<1> DEFINE i == fl.index
<1>1. /\ i \in Slots /\ fl.rem \in Nat /\ NumPages \in Nat \ {0}
      /\ firstDirtyPage \in Slots /\ dirtyCount \in 0 .. NumPages
  BY CacheAssumption DEF TypeOK
<1>2. (firstDirtyPage + dirtyCount) % NumPages =
          IF firstDirtyPage + dirtyCount < NumPages THEN firstDirtyPage + dirtyCount
                                                    ELSE firstDirtyPage + dirtyCount - NumPages
  <2> DEFINE a == firstDirtyPage + dirtyCount
  <2>1. a \in Nat /\ a < 2 * NumPages
    BY <1>1 DEF Slots
  <2>2. a % NumPages = IF a < NumPages THEN a ELSE a - NumPages
    <3> HIDE DEF a
    <3> QED BY <1>1, <2>1, ModWraps
  <2>3. QED
    BY <1>1, <2>2 DEF Slots
<1>3. RunFrom(i) \in Nat \ {0} /\ RunFrom(i) <= dirtyCount
  BY <1>1, <1>2 DEF RunFrom, FlushAsserts, Slots
<1>4. Wanted(i) \in Nat \ {0}
  BY <1>1, <1>3 DEF Wanted, Larger
<1>5. QED
  BY <1>1, <1>3, <1>4 DEF InOneWrite, Smaller, Slots

(* What a flush writes keeps the target a file.                            *)
LEMMA TargetTyped ==
    ASSUME TypeOK, NEW i \in Slots, NEW n \in Nat \ {0}, i + n <= NumPages,
           NEW num \in 0 .. FlushBytes(i, n)
    PROVE  TargetAfter(i, num) \in [size : Nat, bytes : [Watched -> Bytes]]
<1> DEFINE start == pages[i].page * PageSize
           Byte(w) == cacheData[i + (w - start) \div PageSize][(w - start) % PageSize]
<1>1. PageSize \in Nat \ {0} /\ NumPages \in Nat \ {0} /\ Watched \subseteq Nat
  BY CacheAssumption
<1>2. start \in Int
  BY <1>1 DEF TypeOK
<1>3. FlushBytes(i, n) \in Nat /\ FlushBytes(i, n) <= n * PageSize /\ n * PageSize \in Nat
  <2>1. i + n - 1 \in Slots
    BY <1>1 DEF Slots
  <2>2. pages[i + n - 1].size \in 0 .. PageSize
    BY <2>1 DEF TypeOK
  <2>3. (n - 1) * PageSize \in Nat /\ n * PageSize = (n - 1) * PageSize + PageSize
    BY <1>1
  <2>4. QED
    BY <1>1, <2>2, <2>3 DEF FlushBytes
<1>4. (IF num = 0 THEN target.size ELSE Larger(target.size, start + num)) \in Nat
  <2> HIDE DEF start
  <2> QED BY <1>2, <1>3 DEF TypeOK, Larger
<1>5. ASSUME NEW w \in Watched, start <= w, w < start + num
      PROVE  Byte(w) \in Bytes
  <2> DEFINE a == w - start
  <2> HIDE DEF start
  <2>1. a \in Nat /\ a < n * PageSize
    BY <1>1, <1>2, <1>3, <1>5
  <2>2. a \div PageSize \in Nat /\ a \div PageSize < n /\ a % PageSize \in Offsets
    <3> HIDE DEF a
    <3> QED BY <1>1, <2>1, DivMod, DivBelow DEF Offsets
  <2>3. i + a \div PageSize \in Slots
    <3> HIDE DEF a
    <3> QED BY <1>1, <2>2 DEF Slots
  <2>4. cacheData[i + a \div PageSize][a % PageSize] \in Bytes
    <3> HIDE DEF a
    <3> QED BY <2>2, <2>3 DEF TypeOK
  <2>5. QED
    BY <2>4
<1>6. [w \in Watched |-> IF start <= w /\ w < start + num THEN Byte(w) ELSE target.bytes[w]]
         \in [Watched -> Bytes]
  <2> HIDE DEF start, Byte
  <2> QED BY <1>5 DEF TypeOK
<1>7. QED
  BY <1>4, <1>6 DEF TargetAfter

LEMMA FlushWriteIInv == ASSUME IInv, FlushWrite PROVE IInv'
<1> DEFINE i == fl.index
           n == InOneWrite(i)
           rem == Wanted(i)
<1>1. /\ i \in Slots /\ fl.rem \in Nat /\ fl.rem > 0 /\ NumPages \in Nat \ {0}
      /\ firstDirtyPage \in Slots /\ dirtyCount \in 0 .. NumPages /\ dirtyCount > 0
  BY CacheAssumption DEF IInv, TypeOK, FlushWrite, Flushing
<1>2. pc = "flush" /\ pages[i].isDirty /\ FlushAsserts(i)
  BY DEF FlushWrite, Flushing
<1>3. /\ n \in Nat \ {0} /\ i + n <= NumPages /\ n <= rem /\ n <= dirtyCount
      /\ rem \in Nat /\ RunFrom(i) \in Nat
  BY <1>1, <1>2, OneWrite DEF IInv
<1>4. /\ pages' = [j \in Slots |->
                     [pages[j] EXCEPT !.isDirty = pages[j].isDirty /\ ~(i <= j /\ j < i + n)]]
      /\ target' = TargetAfter(i, FlushBytes(i, n))
      /\ dirtyCount' = dirtyCount - n
      /\ firstDirtyPage' = IF i = firstDirtyPage THEN (firstDirtyPage + n) % NumPages
                                                ELSE firstDirtyPage
      /\ fl' = [fl EXCEPT !.index = (i + n) % NumPages, !.rem = rem - n]
      /\ UNCHANGED <<position, eof, writingAtEOF, cacheData, pc, wr, rd>>
  BY DEF FlushWrite, FirstDirtyAfter
<1> HIDE DEF n, rem
<1>5. (i + n) % NumPages = IF i + n = NumPages THEN 0 ELSE i + n
  <2> DEFINE a == i + n
  <2>1. a \in Nat /\ a < 2 * NumPages
    BY <1>1, <1>3 DEF Slots
  <2>2. a % NumPages = IF a < NumPages THEN a ELSE a - NumPages
    <3> HIDE DEF a
    <3> QED BY <1>1, <2>1, ModWraps
  <2>3. QED
    BY <1>1, <1>3, <2>2 DEF Slots
<1>6. /\ fl'.index = (IF i + n = NumPages THEN 0 ELSE i + n) /\ fl'.rem = rem - n
      /\ fl'.back = fl.back
      /\ firstDirtyPage' = IF i # firstDirtyPage THEN firstDirtyPage
                            ELSE IF i + n = NumPages THEN 0 ELSE i + n
      /\ fl'.index \in Slots /\ fl'.rem \in Nat /\ firstDirtyPage' \in Slots
  <2>1. fl \in [index : Slots, rem : Nat, back : {"idle", "load", "mark", "evict", "closed"}]
    BY DEF IInv, TypeOK
  <2>2. fl'.index = (i + n) % NumPages /\ fl'.rem = rem - n /\ fl'.back = fl.back
    BY <1>4, <2>1
  <2>3. firstDirtyPage' = IF i # firstDirtyPage THEN firstDirtyPage
                            ELSE IF i + n = NumPages THEN 0 ELSE i + n
    BY <1>4, <1>5
  <2>4. QED
    BY <1>1, <1>3, <1>5, <2>2, <2>3 DEF Slots
<1>7. \A j \in Slots : pages'[j].isDirty <=> pages[j].isDirty /\ ~(i <= j /\ j < i + n)
  <2>1. pages \in [Slots -> [page : Nat \cup {-1}, size : 0 .. PageSize, isDirty : BOOLEAN]]
    BY DEF IInv, TypeOK
  <2>2. QED
    BY <1>4, <2>1
<1>8. TypeOK'
  <2>1. pages' \in [Slots -> [page : Nat \cup {-1}, size : 0 .. PageSize, isDirty : BOOLEAN]]
    <3>1. pages \in [Slots -> [page : Nat \cup {-1}, size : 0 .. PageSize, isDirty : BOOLEAN]]
      BY DEF IInv, TypeOK
    <3>2. ASSUME NEW j \in Slots, NEW b \in BOOLEAN
          PROVE [pages[j] EXCEPT !.isDirty = b]
                  \in [page : Nat \cup {-1}, size : 0 .. PageSize, isDirty : BOOLEAN]
      BY <3>1
    <3>3. \A j \in Slots : pages'[j]
                  \in [page : Nat \cup {-1}, size : 0 .. PageSize, isDirty : BOOLEAN]
      <4>1. TAKE j \in Slots
      <4> DEFINE b == pages[j].isDirty /\ ~(i <= j /\ j < i + n)
      <4>2. pages'[j] = [pages[j] EXCEPT !.isDirty = b]
        BY <1>4
      <4>3. b \in BOOLEAN
        OBVIOUS
      <4> HIDE DEF b
      <4>4. QED
        BY <3>2, <4>2, <4>3
    <3>4. QED
      BY <1>4, <3>3
  <2>2. target' \in [size : Nat, bytes : [Watched -> Bytes]]
    <3>1. FlushBytes(i, n) \in 0 .. FlushBytes(i, n)
      <4>1. i + n - 1 \in Slots
        BY <1>1, <1>3 DEF Slots
      <4>2. pages[i + n - 1].size \in Nat
        BY <4>1, CacheAssumption DEF IInv, TypeOK
      <4>3. (n - 1) * PageSize \in Nat
        BY <1>3, CacheAssumption, ProductNat
      <4>4. QED
        BY <4>2, <4>3 DEF FlushBytes
    <3>2. QED
      BY <1>1, <1>3, <1>4, <3>1, TargetTyped DEF IInv
  <2>3. fl' \in [index : Slots, rem : Nat, back : {"idle", "load", "mark", "evict", "closed"}]
    BY <1>4, <1>6 DEF IInv, TypeOK
  <2>4. dirtyCount' \in 0 .. NumPages
    BY <1>1, <1>3, <1>4
  <2>5. QED
    BY <1>4, <1>6, <2>1, <2>2, <2>3, <2>4 DEF IInv, TypeOK
(* n and rem again, from the run.                                          *)
<1>9. /\ n = Smaller(Smaller(RunFrom(i), NumPages - i), rem)
      /\ rem = IF i # firstDirtyPage THEN Larger(fl.rem, RunFrom(i)) ELSE fl.rem
  BY DEF n, rem, InOneWrite, Wanted
<1>10. (firstDirtyPage + dirtyCount) % NumPages =
          IF firstDirtyPage + dirtyCount < NumPages THEN firstDirtyPage + dirtyCount
                                                    ELSE firstDirtyPage + dirtyCount - NumPages
  <2> DEFINE a == firstDirtyPage + dirtyCount
  <2>1. a \in Nat /\ a < 2 * NumPages
    BY <1>1 DEF Slots
  <2>2. a % NumPages = IF a < NumPages THEN a ELSE a - NumPages
    <3> HIDE DEF a
    <3> QED BY <1>1, <2>1, ModWraps
  <2>3. QED
    BY <1>1, <2>2 DEF Slots
<1>11. CASE RunIntact
  <2>1. InRun(i)
    BY <1>1, <1>2, <1>11 DEF RunIntact
  (* Flushing from the beginning of the run.                               *)
  <2>2. CASE i = firstDirtyPage
    <3>1. RunFrom(i) = dirtyCount
      BY <1>1, <2>2 DEF RunFrom, Slots
    <3>2. \A j \in Slots : InRun(j)' <=> InRun(j) /\ ~(i <= j /\ j < i + n)
      <4>1. TAKE j \in Slots
      <4>2. firstDirtyPage' = IF i + n = NumPages THEN 0 ELSE i + n
        BY <1>6, <2>2
      <4>3. InRun(j)' <=> IF j >= firstDirtyPage' THEN j - firstDirtyPage' < dirtyCount'
                                                ELSE j + NumPages - firstDirtyPage' < dirtyCount'
        BY DEF InRun
      <4>4. InRun(j) <=> IF j >= i THEN j - i < dirtyCount ELSE j + NumPages - i < dirtyCount
        BY <2>2 DEF InRun
      <4>5. i \in Nat /\ j \in Nat /\ j < NumPages /\ n \in Nat /\ dirtyCount \in Nat
            /\ i < NumPages /\ dirtyCount <= NumPages
        BY <1>1, <1>3 DEF Slots
      <4> HIDE DEF i
      <4>6. CASE i + n = NumPages
        BY <1>1, <1>3, <1>4, <4>2, <4>3, <4>4, <4>5, <4>6
      <4>7. CASE i + n # NumPages
        BY <1>1, <1>3, <1>4, <4>2, <4>3, <4>4, <4>5, <4>7
      <4>8. QED
        BY <4>6, <4>7
    <3>3. RunIntact'
      BY <1>7, <1>11, <3>2 DEF RunIntact
    <3>4. ASSUME fl.back = "mark" PROVE Swept'
      <4>1. Swept
        BY <1>2, <3>4 DEF IInv
      <4>2. fl.rem = NumPages - i
        BY <1>1, <4>1 DEF Swept, Slots
      <4>3. \A j \in Slots : j < i => ~pages[j].isDirty
        BY <1>1, <4>1 DEF Swept, Slots
      <4>4. \A j \in Slots : j < i + n => ~pages'[j].isDirty
        BY <1>1, <1>3, <1>7, <4>3 DEF Slots
      <4>5. fl'.rem = NumPages - (i + n)
        BY <1>1, <1>3, <1>6, <1>9, <2>2, <4>2 DEF Slots
      <4>6. QED
        BY <1>1, <1>3, <1>6, <4>4, <4>5 DEF Swept, Slots
    <3>5. QED
      BY <1>2, <1>4, <1>6, <1>8, <3>3, <3>4 DEF IInv
  (* From further on, to the end of a run that does not go on at slot 0.   *)
  <2>3. CASE i > firstDirtyPage /\ firstDirtyPage + dirtyCount <= NumPages
    <3>1. RunFrom(i) = dirtyCount - (i - firstDirtyPage) /\ n = RunFrom(i)
      BY <1>1, <1>9, <2>1, <2>3 DEF RunFrom, InRun, Slots, Smaller, Larger
    <3>2. \A j \in Slots : InRun(j)' <=> InRun(j) /\ ~(i <= j /\ j < i + n)
      <4>1. TAKE j \in Slots
      <4>2. firstDirtyPage' = firstDirtyPage /\ dirtyCount' = i - firstDirtyPage
        <5>1. n = dirtyCount - (i - firstDirtyPage)
          BY <3>1
        <5>2. dirtyCount' = dirtyCount - n /\ firstDirtyPage' = firstDirtyPage
          BY <1>1, <1>4, <1>6, <2>3 DEF Slots
        <5>3. i \in Nat /\ firstDirtyPage \in Nat /\ dirtyCount \in Nat
          BY <1>1 DEF Slots
        <5> HIDE DEF i
        <5>4. QED
          BY <5>1, <5>2, <5>3
      <4>3. InRun(j)' <=> IF j >= firstDirtyPage' THEN j - firstDirtyPage' < dirtyCount'
                                                ELSE j + NumPages - firstDirtyPage' < dirtyCount'
        BY DEF InRun
      <4>4. i + n = firstDirtyPage + dirtyCount
        BY <1>1, <3>1 DEF Slots
      <4>5. j \in 0 .. NumPages - 1 /\ firstDirtyPage \in 0 .. NumPages - 1 /\ i \in 0 .. NumPages - 1
        BY <1>1 DEF Slots
      <4>6. InRun(j) <=> IF j >= firstDirtyPage THEN j - firstDirtyPage < dirtyCount
                                              ELSE j + NumPages - firstDirtyPage < dirtyCount
        BY DEF InRun
      <4> HIDE DEF i
      <4>7. QED
        BY <1>1, <1>3, <2>3, <4>2, <4>3, <4>4, <4>5, <4>6
    <3>3. RunIntact'
      BY <1>7, <1>11, <3>2 DEF RunIntact
    <3>4. fl.back # "mark"
      BY <1>1, <1>2, <1>11, <2>3 DEF IInv, Swept, RunIntact, InRun, Slots
    <3>5. QED
      BY <1>2, <1>4, <1>6, <1>8, <3>3, <3>4 DEF IInv
  (* From further on, to the last slot only: the run is cut.               *)
  <2>4. CASE i > firstDirtyPage /\ firstDirtyPage + dirtyCount > NumPages
    <3>1. fl.back # "mark"
      BY <1>1, <1>2, <1>11, <2>4 DEF IInv, Swept, RunIntact, InRun, Slots
    <3>2. RunFrom(i) = dirtyCount - (i - firstDirtyPage) /\ n = NumPages - i
      BY <1>1, <1>9, <2>1, <2>4 DEF RunFrom, InRun, Slots, Smaller, Larger
    <3>3. fl'.index = 0 /\ firstDirtyPage' = firstDirtyPage
      BY <1>1, <1>6, <2>4, <3>2 DEF Slots
    <3> DEFINE r == firstDirtyPage + dirtyCount - NumPages
    <3>4. r \in Slots /\ r > 0 /\ r <= firstDirtyPage
      BY <1>1, <2>4 DEF Slots
    <3>5. dirtyCount' = (i - firstDirtyPage) + (r - 0)
      BY <1>1, <1>4, <3>2 DEF Slots
    <3>6. fl'.rem >= r
      BY <1>1, <1>6, <1>9, <2>4, <3>2 DEF Slots, Larger
    <3>7. \A j \in Slots : pages'[j].isDirty <=> ((firstDirtyPage <= j /\ j < i) \/ (0 <= j /\ j < r))
      BY <1>1, <1>7, <1>11, <2>4, <3>2, <3>4 DEF RunIntact, InRun, Slots
    <3>8. RunCut'
      <4> HIDE DEF r
      <4> QED BY <1>1, <1>6, <2>4, <3>1, <3>3, <3>4, <3>5, <3>6, <3>7 DEF RunCut, Slots
    <3>9. QED
      BY <1>2, <1>4, <1>6, <1>8, <3>1, <3>8 DEF IInv
  (* From a slot of the part of the run that goes on at slot 0.            *)
  <2>5. CASE i < firstDirtyPage
    <3>1. /\ firstDirtyPage + dirtyCount >= NumPages
          /\ RunFrom(i) = firstDirtyPage + dirtyCount - NumPages - i
      BY <1>1, <1>10, <2>1, <2>5 DEF RunFrom, InRun, Slots
    <3>2. n = RunFrom(i)
      BY <1>1, <1>3, <1>9, <2>5, <3>1 DEF Slots, Smaller, Larger
    <3>3. \A j \in Slots : InRun(j)' <=> InRun(j) /\ ~(i <= j /\ j < i + n)
      <4>1. TAKE j \in Slots
      <4>2. firstDirtyPage' = firstDirtyPage /\ dirtyCount' = NumPages - firstDirtyPage + i
        <5>1. n = firstDirtyPage + dirtyCount - NumPages - i
          BY <3>1, <3>2
        <5>2. dirtyCount' = dirtyCount - n /\ firstDirtyPage' = firstDirtyPage
          BY <1>1, <1>4, <1>6, <2>5 DEF Slots
        <5>3. i \in Nat /\ firstDirtyPage \in Nat /\ dirtyCount \in Nat
          BY <1>1 DEF Slots
        <5> HIDE DEF i
        <5>4. QED
          BY <1>1, <5>1, <5>2, <5>3
      <4>3. InRun(j)' <=> IF j >= firstDirtyPage' THEN j - firstDirtyPage' < dirtyCount'
                                                ELSE j + NumPages - firstDirtyPage' < dirtyCount'
        BY DEF InRun
      <4>4. i + n = firstDirtyPage + dirtyCount - NumPages
        BY <1>1, <3>1, <3>2 DEF Slots
      <4>5. j \in 0 .. NumPages - 1 /\ firstDirtyPage \in 0 .. NumPages - 1 /\ i \in 0 .. NumPages - 1
        BY <1>1 DEF Slots
      <4>6. InRun(j) <=> IF j >= firstDirtyPage THEN j - firstDirtyPage < dirtyCount
                                              ELSE j + NumPages - firstDirtyPage < dirtyCount
        BY DEF InRun
      <4> HIDE DEF i
      <4>7. QED
        BY <1>1, <1>3, <2>5, <4>2, <4>3, <4>4, <4>5, <4>6
    <3>4. RunIntact'
      BY <1>7, <1>11, <3>3 DEF RunIntact
    <3>5. ASSUME fl.back = "mark" PROVE Swept'
      <4>1. Swept
        BY <1>2, <3>5 DEF IInv
      <4>2. fl.rem = NumPages - i
        BY <1>1, <4>1 DEF Swept, Slots
      <4>3. \A j \in Slots : j < i => ~pages[j].isDirty
        BY <1>1, <4>1 DEF Swept, Slots
      <4>4. \A j \in Slots : j < i + n => ~pages'[j].isDirty
        BY <1>1, <1>3, <1>7, <4>3 DEF Slots
      <4>5. fl'.rem = NumPages - (i + n)
        BY <1>1, <1>3, <1>6, <1>9, <2>5, <3>1, <3>2, <4>2 DEF Slots, Larger
      <4>6. QED
        BY <1>1, <1>3, <1>6, <4>4, <4>5 DEF Swept, Slots
    <3>6. QED
      BY <1>2, <1>4, <1>6, <1>8, <3>4, <3>5 DEF IInv
  <2>6. QED
    BY <1>1, <2>2, <2>3, <2>4, <2>5 DEF Slots
(* A run that is cut stays cut, until an assertion fails.                  *)
<1>12. CASE RunCut /\ ~RunIntact
  <2>1. PICK e \in Slots, r \in Slots :
          /\ firstDirtyPage < e /\ e < NumPages /\ i < r /\ r <= firstDirtyPage
          /\ dirtyCount = (e - firstDirtyPage) + (r - i)
          /\ fl.rem >= r - i
          /\ \A j \in Slots : pages[j].isDirty <=> ((firstDirtyPage <= j /\ j < e)
                                                     \/ (i <= j /\ j < r))
    BY <1>12 DEF RunCut
  <2>2. /\ firstDirtyPage + dirtyCount >= NumPages
        /\ RunFrom(i) = firstDirtyPage + dirtyCount - NumPages - i
    BY <1>1, <1>2, <1>10, <2>1 DEF RunFrom, FlushAsserts, Slots
  <2>3. n = RunFrom(i) /\ i + n < r
    BY <1>1, <1>3, <1>9, <2>1, <2>2 DEF Slots, Smaller, Larger
  <2>4. fl'.index = i + n /\ firstDirtyPage' = firstDirtyPage
    BY <1>1, <1>6, <2>1, <2>3 DEF Slots
  <2>5. fl'.rem >= r - fl'.index
    BY <1>1, <1>3, <1>6, <1>9, <2>1, <2>3, <2>4 DEF Slots, Larger
  <2>6. dirtyCount' = (e - firstDirtyPage) + (r - fl'.index)
    BY <1>1, <1>3, <1>4, <2>1, <2>4, SMTT(30) DEF Slots
  <2>7. \A j \in Slots : pages'[j].isDirty <=> ((firstDirtyPage <= j /\ j < e)
                                                  \/ (i + n <= j /\ j < r))
    BY <1>1, <1>3, <1>7, <2>1, <2>3 DEF Slots
  <2>8. RunCut'
    BY <1>6, <1>12, <2>1, <2>3, <2>4, <2>5, <2>6, <2>7 DEF RunCut
  <2>9. fl.back # "mark"
    BY <1>12 DEF RunCut
  <2>10. QED
    BY <1>2, <1>4, <1>6, <1>8, <2>8, <2>9 DEF IInv
<1>13. QED
  BY <1>11, <1>12 DEF IInv

-----------------------------------------------------------------------------
(* Every step.                                                             *)
LEMMA NextIInv == ASSUME FlushSucceeds, IInv, [Next]_vars PROVE IInv'
<1>1. CASE UNCHANGED vars
  BY <1>1 DEF vars, IInv, TypeOK, RunIntact, InRun, RunCut, Swept
<1>2. CASE ClientCall
  <2>1. ASSUME NEW n \in 1 .. MaxCount, Read(n) PROVE IInv'
    BY <2>1, ReadIInv
  <2>2. ASSUME NEW n \in 1 .. MaxCount, NEW v \in Values, Write(n, v) PROVE IInv'
    BY <2>2, WriteIInv
  <2>3. ASSUME NEW p \in 0 .. MaxSize, Seek(p) PROVE IInv'
    BY <2>3, SeekIInv, CacheAssumption DEF Seek
  <2>4. CASE SeekEnd
    <3>1. target.size \in Nat
      BY DEF IInv, TypeOK
    <3>2. QED
      BY <2>4, <3>1, SeekIInv DEF SeekEnd
  <2>5. ASSUME NEW n \in 1 .. NumPages * PageSize, Flush(n) PROVE IInv'
    BY <2>5, FlushIInv, ProductNat, CacheAssumption
  <2>6. CASE Close
    BY <2>6, CloseIInv
  <2>7. QED
    BY <1>2, <2>1, <2>2, <2>3, <2>4, <2>5, <2>6 DEF ClientCall
<1>3. CASE FlushStep
  <2>1. ~FlushFails
    BY DEF FlushSucceeds, FlushFails
  <2>2. QED
    BY <1>3, <2>1, FlushWriteIInv, FlushSkipIInv, FlushReturnsIInv, FlushAbortsIInv DEF FlushStep
<1>4. CASE ReadStep
  BY <1>4, ReadCachedIInv, ReadMissIInv, ReadReturnsIInv, ReadLoadIInv, ReadLoadFailsIInv
     DEF ReadStep
<1>5. CASE WriteStep
  BY <1>5, WriteCopyIInv, WriteGapIInv, WriteMissAtEOFIInv, WriteEvictIInv, WriteMissIInv,
     WriteAheadIInv, WriteAheadFailsIInv, WriteReturnsIInv DEF WriteStep
<1>6. QED
  BY <1>1, <1>2, <1>3, <1>4, <1>5 DEF Next, Step

(* Where the slots of the run are.                                         *)
LEMMA RunSlotWraps ==
    ASSUME firstDirtyPage \in Slots, dirtyCount \in 0 .. NumPages, NEW k \in 0 .. dirtyCount - 1
    PROVE  RunSlot(k) = IF firstDirtyPage + k < NumPages THEN firstDirtyPage + k
                                                       ELSE firstDirtyPage + k - NumPages
<1> DEFINE a == firstDirtyPage + k
<1>1. a \in Nat /\ a < 2 * NumPages
  BY CacheAssumption DEF Slots
<1>2. a % NumPages = IF a < NumPages THEN a ELSE a - NumPages
  <2> HIDE DEF a
  <2> QED BY <1>1, ModWraps, CacheAssumption
<1>3. QED
  BY <1>2, CacheAssumption DEF RunSlot, Slots

(* The run, slot by slot, is the set that DirtyRun speaks of.              *)
LEMMA RunSlots ==
    ASSUME firstDirtyPage \in Slots, dirtyCount \in 0 .. NumPages
    PROVE  {i \in Slots : InRun(i)} = {RunSlot(k) : k \in 0 .. dirtyCount - 1}
<1>1. ASSUME NEW k \in 0 .. dirtyCount - 1
      PROVE  RunSlot(k) = IF firstDirtyPage + k < NumPages THEN firstDirtyPage + k
                                                         ELSE firstDirtyPage + k - NumPages
  BY RunSlotWraps
<1>2. ASSUME NEW k \in 0 .. dirtyCount - 1
      PROVE  RunSlot(k) \in Slots /\ InRun(RunSlot(k))
  BY <1>1, CacheAssumption DEF Slots, InRun
<1>3. ASSUME NEW i \in Slots, InRun(i)
      PROVE  \E k \in 0 .. dirtyCount - 1 : i = RunSlot(k)
  <2> DEFINE k == IF i >= firstDirtyPage THEN i - firstDirtyPage
                                         ELSE i + NumPages - firstDirtyPage
  <2>1. k \in 0 .. dirtyCount - 1
    BY <1>3, CacheAssumption DEF Slots, InRun
  <2>2. i = IF firstDirtyPage + k < NumPages THEN firstDirtyPage + k
                                             ELSE firstDirtyPage + k - NumPages
    BY CacheAssumption DEF Slots
  <2>3. i = RunSlot(k)
    <3> HIDE DEF k
    <3> QED BY <1>1, <2>1, <2>2
  <2>4. QED
    BY <2>1, <2>3
<1>4. QED
  BY <1>2, <1>3

-----------------------------------------------------------------------------
(* As long as the target takes every seek and write, every variable keeps  *)
(* its type: no slot index leaves the arrays, dirtyCount (unsigned, and    *)
(* decreased by each flush) does not wrap below 0 or exceed the number of  *)
(* pages, and the bytes left of a read, write or flush do not wrap below 0.*)
THEOREM TypeCorrect == ASSUME FlushSucceeds PROVE Spec => []TypeOK
<1>1. IInv /\ [Next]_vars => IInv'
  BY NextIInv
<1>2. IInv => TypeOK
  BY DEF IInv
<1>3. QED
  BY InitIInv, <1>1, <1>2, PTL DEF Spec

-----------------------------------------------------------------------------
(* The run of dirty pages: which slots it is, and that they hold           *)
(* consecutive pages of the file, for clients that leave holes or write    *)
(* blindly too.                                                            *)

(* The slot after slot i, and the slots from slot s on to slot j.          *)
After(i) == IF i = NumPages - 1 THEN 0 ELSE i + 1
Ahead(s, j) == IF j >= s THEN j - s ELSE j + NumPages - s

(* A dirty slot holds a page, and the next one the next page.              *)
Chained ==
    /\ \A i \in Slots : pages[i].isDirty => pages[i].page # -1
    /\ \A i \in Slots :
          /\ pages[i].isDirty /\ pages[After(i)].isDirty
          /\ After(i) # firstDirtyPage
          => pages[After(i)].page = pages[i].page + 1

(* The count slots from the current one on are clean.                      *)
CleanAhead(count) == \A j \in Slots : Ahead(CurrentSlot, j) < count => ~pages[j].isDirty

(* A flush of the count slots from the current one on has cleaned those it *)
(* has passed, or all of them already.                                     *)
Sweeping(count) ==
    \/ CleanAhead(count)
    \/ /\ fl.rem <= count
       /\ fl.index = IF CurrentSlot + (count - fl.rem) < NumPages
                     THEN CurrentSlot + (count - fl.rem)
                     ELSE CurrentSlot + (count - fl.rem) - NumPages
       /\ CleanAhead(count - fl.rem)

(* The slots that a read fills, or a write drops, have been flushed.  A    *)
(* flush that has cut the run in two never returns.                        *)
Flushed ==
    /\ pc = "load"  => CleanAhead(PagesToRead)
    /\ pc = "evict" => CleanAhead(PagesToWrite)
    /\ pc = "flush" /\ fl.back = "load"  => (RunIntact => Sweeping(PagesToRead))
    /\ pc = "flush" /\ fl.back = "evict" => (RunIntact => Sweeping(PagesToWrite))

RunInv == IInv /\ Chained /\ Flushed

-----------------------------------------------------------------------------
LEMMA InitRunInv == Init => RunInv
BY InitIInv DEF Init, RunInv, Chained, Flushed

(* A step that leaves the dirty slots and their pages alone, and starts no *)
(* flush for a read or at the end of the file, keeps the chain.            *)
LEMMA KeepChain ==
    ASSUME RunInv, pc' \notin {"load", "evict"},
           pc' = "flush" => fl'.back \notin {"load", "evict"},
           \A i \in Slots : /\ pages'[i].isDirty = pages[i].isDirty
                            /\ pages[i].isDirty => pages'[i].page = pages[i].page,
           UNCHANGED firstDirtyPage
    PROVE  Chained' /\ Flushed'
<1>1. \A i \in Slots : After(i) \in Slots
  BY CacheAssumption DEF After, Slots
<1>2. Chained'
  BY <1>1 DEF RunInv, Chained, After
<1>3. QED
  BY <1>2 DEF Flushed

(* A call of the client changes no slot.                                   *)
LEMMA CallChain == ASSUME RunInv, ClientCall PROVE Chained' /\ Flushed'
<1>1. pc' \notin {"load", "evict"} /\ (pc' = "flush" => fl'.back \notin {"load", "evict"})
      /\ UNCHANGED <<pages, firstDirtyPage>>
  BY DEF ClientCall, Read, Write, Seek, SeekEnd, SeekTo, Flush, Close, StartFlush, cacheVars, frames
<1>2. QED
  BY <1>1, KeepChain

LEMMA ReadMissChain == ASSUME RunInv, ReadMiss PROVE Chained' /\ Flushed'
<1>1. /\ fl' = [index |-> CurrentSlot, rem |-> PagesToRead, back |-> "load"] /\ pc' = "flush"
      /\ UNCHANGED <<cacheVars, rd, wr>>
  BY DEF ReadMiss, StartFlush
<1>2. Chained'
  BY <1>1 DEF RunInv, Chained, cacheVars, After
<1>3. CurrentSlot' = CurrentSlot /\ PagesToRead' = PagesToRead
  BY <1>1 DEF cacheVars, CurrentSlot, CurrentPage, PagesToRead, PagesOf, Smaller
<1>4. CurrentSlot \in Slots /\ PagesToRead \in Nat /\ NumPages \in Nat \ {0}
  BY Current, PageCounts, CacheAssumption DEF RunInv, IInv, TypeOK
<1>5. fl'.index = CurrentSlot /\ fl'.rem = PagesToRead /\ fl'.back = "load"
  BY <1>1
<1>6. Sweeping(PagesToRead)'
  <2>1. CleanAhead(PagesToRead - fl.rem)'
    BY <1>3, <1>4, <1>5 DEF CleanAhead, Ahead, Slots
  <2>2. QED
    BY <1>3, <1>4, <1>5, <2>1 DEF Sweeping, Slots
<1>7. QED
  BY <1>1, <1>2, <1>5, <1>6 DEF Flushed

LEMMA WriteMissAtEOFChain == ASSUME RunInv, WriteMissAtEOF PROVE Chained' /\ Flushed'
<1>1. /\ fl' = [index |-> CurrentSlot, rem |-> PagesToWrite, back |-> "evict"] /\ pc' = "flush"
      /\ UNCHANGED <<cacheVars, rd, wr>>
  BY DEF WriteMissAtEOF, StartFlush
<1>2. Chained'
  BY <1>1 DEF RunInv, Chained, cacheVars, After
<1>3. CurrentSlot' = CurrentSlot /\ PagesToWrite' = PagesToWrite
  BY <1>1 DEF cacheVars, CurrentSlot, CurrentPage, PagesToWrite, PagesOf, Smaller
<1>4. CurrentSlot \in Slots /\ PagesToWrite \in Nat /\ NumPages \in Nat \ {0}
  BY Current, PageCounts, CacheAssumption DEF RunInv, IInv, TypeOK
<1>5. fl'.index = CurrentSlot /\ fl'.rem = PagesToWrite /\ fl'.back = "evict"
  BY <1>1
<1>6. Sweeping(PagesToWrite)'
  <2>1. CleanAhead(PagesToWrite - fl.rem)'
    BY <1>3, <1>4, <1>5 DEF CleanAhead, Ahead, Slots
  <2>2. QED
    BY <1>3, <1>4, <1>5, <2>1 DEF Sweeping, Slots
<1>7. QED
  BY <1>1, <1>2, <1>5, <1>6 DEF Flushed

-----------------------------------------------------------------------------
(* flush_dirty_pages only cleans slots, and the beginning of the run moves *)
(* only when the slot it was at is clean.                                  *)
LEMMA CleaningKeepsChain ==
    ASSUME RunInv,
           \A i \in Slots : /\ pages'[i].page = pages[i].page
                            /\ pages'[i].isDirty => pages[i].isDirty,
           firstDirtyPage' = firstDirtyPage \/ ~pages'[firstDirtyPage].isDirty
    PROVE  Chained'
<1>1. \A i \in Slots : After(i) \in Slots
  BY CacheAssumption DEF After, Slots
<1>2. QED
  BY <1>1 DEF RunInv, IInv, TypeOK, Chained, After

(* The counts that a flush is called with are those of its slots, as long  *)
(* as the call of the client stays where it is.                            *)
LEMMA SameCounts ==
    ASSUME UNCHANGED <<position, rd, wr>>
    PROVE  CurrentSlot' = CurrentSlot /\ PagesToRead' = PagesToRead /\ PagesToWrite' = PagesToWrite
BY DEF CurrentSlot, CurrentPage, PagesToRead, PagesToWrite, PagesOf, Smaller

(* No flush is called with more pages than the cache has.                  *)
LEMMA CountsBounded ==
    ASSUME TypeOK
    PROVE  PagesToRead \in 0 .. NumPages /\ PagesToWrite \in 0 .. NumPages
<1>1. CurrentSlot \in Slots /\ NumPages \in Nat \ {0} /\ PagesToRead \in Nat /\ PagesToWrite \in Nat
  BY Current, PageCounts, CacheAssumption DEF TypeOK
<1>2. PagesOf(rd.rem) \in Nat /\ PagesOf(wr.rem) \in Nat
  BY PagesOfNat DEF TypeOK
<1>3. QED
  BY <1>1, <1>2 DEF PagesToRead, PagesToWrite, Smaller, Slots

(* Passing n slots that are clean then carries a sweep on.                 *)
LEMMA SweepOn ==
    ASSUME NEW count \in 0 .. NumPages, NEW n \in Nat \ {0},
           CurrentSlot \in Slots, CurrentSlot' = CurrentSlot, fl.index \in Slots, fl.rem \in Nat,
           n <= fl.rem, fl.index + n <= NumPages,
           fl'.index = (IF fl.index + n = NumPages THEN 0 ELSE fl.index + n),
           fl'.rem = fl.rem - n,
           \A j \in Slots : pages'[j].isDirty => pages[j].isDirty,
           \A j \in Slots : fl.index <= j /\ j < fl.index + n => ~pages'[j].isDirty,
           Sweeping(count)
    PROVE  \/ \A j \in Slots : Ahead(CurrentSlot, j) < count => ~pages'[j].isDirty
           \/ /\ fl'.rem <= count
              /\ fl'.index = IF CurrentSlot + (count - fl'.rem) < NumPages
                             THEN CurrentSlot + (count - fl'.rem)
                             ELSE CurrentSlot + (count - fl'.rem) - NumPages
              /\ \A j \in Slots : Ahead(CurrentSlot, j) < count - fl'.rem => ~pages'[j].isDirty
<1>1. CASE CleanAhead(count)
  BY <1>1 DEF CleanAhead
<1>2. CASE ~CleanAhead(count)
  <2>1. /\ fl.rem <= count
        /\ fl.index = IF CurrentSlot + (count - fl.rem) < NumPages
                      THEN CurrentSlot + (count - fl.rem)
                      ELSE CurrentSlot + (count - fl.rem) - NumPages
        /\ CleanAhead(count - fl.rem)
    BY <1>2 DEF Sweeping
  <2>2. ASSUME NEW j \in Slots, Ahead(CurrentSlot, j) < count - fl'.rem
        PROVE  ~pages'[j].isDirty
    <3>1. Ahead(CurrentSlot, j) < count - fl.rem \/ (fl.index <= j /\ j < fl.index + n)
      BY <2>1, <2>2, CacheAssumption DEF Ahead, Slots
    <3>2. QED
      BY <2>1, <3>1 DEF CleanAhead
  <2>3. /\ fl'.rem <= count
        /\ fl'.index = IF CurrentSlot + (count - fl'.rem) < NumPages
                       THEN CurrentSlot + (count - fl'.rem)
                       ELSE CurrentSlot + (count - fl'.rem) - NumPages
    BY <2>1, CacheAssumption DEF Slots
  <2>4. QED
    BY <2>2, <2>3
<1>3. QED
  BY <1>1, <1>2

(* Only a flush that has not cut the run comes to a clean slot.            *)
LEMMA SkipIntact == ASSUME IInv, FlushSkip PROVE RunIntact
<1>1. pc = "flush" /\ ~pages[fl.index].isDirty /\ fl.index \in Slots
  BY DEF IInv, TypeOK, FlushSkip, Flushing
<1>2. ASSUME RunCut PROVE FALSE
  <2>1. PICK r \in Slots : /\ fl.index < r
                           /\ \A k \in Slots : fl.index <= k /\ k < r => pages[k].isDirty
    BY <1>2 DEF RunCut
  <2>2. QED
    BY <1>1, <2>1 DEF Slots
<1>3. QED
  BY <1>1, <1>2 DEF IInv

LEMMA FlushSkipChain == ASSUME RunInv, FlushSkip PROVE Chained' /\ Flushed'
<1> DEFINE i == fl.index
           n == Smaller(IF i >= firstDirtyPage THEN NumPages - i ELSE firstDirtyPage - i, fl.rem)
<1>1. /\ i \in Slots /\ fl.rem \in Nat /\ fl.rem > 0 /\ NumPages \in Nat \ {0}
      /\ firstDirtyPage \in Slots /\ dirtyCount \in 0 .. NumPages
      /\ fl \in [index : Slots, rem : Nat, back : {"idle", "load", "mark", "evict", "closed"}]
  BY CacheAssumption DEF RunInv, IInv, TypeOK, FlushSkip, Flushing
<1>2. n \in Nat \ {0} /\ n <= fl.rem /\ i + n <= NumPages
  BY <1>1 DEF Smaller, Slots
<1>3. /\ fl' = [fl EXCEPT !.index = (i + n) % NumPages, !.rem = fl.rem - n]
      /\ pc = "flush" /\ ~pages[i].isDirty
      /\ UNCHANGED <<cacheVars, target, pc, wr, rd>>
  BY DEF FlushSkip, Flushing
<1>4. RunIntact
  BY SkipIntact DEF RunInv
<1>5. \A k \in Slots : i <= k /\ k < i + n => ~pages[k].isDirty
  BY <1>1, <1>3, <1>4 DEF RunIntact, InRun, Slots, Smaller
<1> HIDE DEF n
<1>6. fl'.index = (IF i + n = NumPages THEN 0 ELSE i + n) /\ fl'.rem = fl.rem - n /\ fl'.back = fl.back
  <2>1. (i + n) % NumPages = IF i + n = NumPages THEN 0 ELSE i + n
    <3> DEFINE a == i + n
    <3>1. a \in Nat /\ a < 2 * NumPages
      BY <1>1, <1>2 DEF Slots
    <3>2. a % NumPages = IF a < NumPages THEN a ELSE a - NumPages
      <4> HIDE DEF a
      <4> QED BY <1>1, <3>1, ModWraps
    <3>3. QED
      BY <1>1, <1>2, <3>2 DEF Slots
  <2>2. QED
    BY <1>1, <1>3, <2>1
<1>7. Chained'
  BY <1>3, CleaningKeepsChain DEF cacheVars
<1>8. CurrentSlot' = CurrentSlot /\ PagesToRead' = PagesToRead /\ PagesToWrite' = PagesToWrite
      /\ CurrentSlot \in Slots
  BY <1>3, SameCounts, Current DEF cacheVars, RunInv, IInv, TypeOK
<1>9. ASSUME NEW count \in 0 .. NumPages, count' = count, Sweeping(count)
      PROVE  Sweeping(count)'
  <2>1. \/ \A j \in Slots : Ahead(CurrentSlot, j) < count => ~pages'[j].isDirty
        \/ /\ fl'.rem <= count
           /\ fl'.index = IF CurrentSlot + (count - fl'.rem) < NumPages
                          THEN CurrentSlot + (count - fl'.rem)
                          ELSE CurrentSlot + (count - fl'.rem) - NumPages
           /\ \A j \in Slots : Ahead(CurrentSlot, j) < count - fl'.rem => ~pages'[j].isDirty
    BY <1>1, <1>2, <1>3, <1>5, <1>6, <1>8, <1>9, SweepOn DEF cacheVars
  <2>2. QED
    BY <1>8, <1>9, <2>1 DEF Sweeping, CleanAhead, Ahead
<1>10. PagesToRead \in 0 .. NumPages /\ PagesToWrite \in 0 .. NumPages
  BY CountsBounded DEF RunInv, IInv
<1>11. fl.back = "load" => Sweeping(PagesToRead)'
  BY <1>3, <1>4, <1>8, <1>9, <1>10 DEF RunInv, Flushed
<1>12. fl.back = "evict" => Sweeping(PagesToWrite)'
  BY <1>3, <1>4, <1>8, <1>9, <1>10 DEF RunInv, Flushed
<1>13. QED
  BY <1>3, <1>6, <1>7, <1>11, <1>12 DEF Flushed

LEMMA FlushReturnsChain == ASSUME RunInv, FlushReturns PROVE Chained' /\ Flushed'
<1>1. /\ firstDirtyPage \in Slots /\ dirtyCount \in 0 .. NumPages /\ NumPages \in Nat \ {0}
      /\ fl.rem \in Nat /\ fl.index \in Slots
  BY CacheAssumption DEF RunInv, IInv, TypeOK
<1>2. pc = "flush" /\ (dirtyCount = 0 \/ fl.rem = 0) /\ pc' = fl.back
      /\ UNCHANGED <<cacheVars, target, wr, rd>>
  BY DEF FlushReturns
<1>3. RunIntact
  BY <1>1, <1>2 DEF RunInv, IInv, RunCut, Slots
<1>4. Chained'
  BY <1>2, CleaningKeepsChain DEF cacheVars
<1>5. CurrentSlot' = CurrentSlot /\ PagesToRead' = PagesToRead /\ PagesToWrite' = PagesToWrite
  BY <1>2, SameCounts DEF cacheVars
<1>6. ASSUME NEW count \in 0 .. NumPages, Sweeping(count)
      PROVE  CleanAhead(count)
  <2>1. CASE dirtyCount = 0
    BY <1>1, <1>3, <2>1 DEF RunIntact, InRun, CleanAhead, Slots
  <2>2. CASE fl.rem = 0
    BY <1>6, <2>2 DEF Sweeping, CleanAhead
  <2>3. QED
    BY <1>2, <2>1, <2>2
<1>7. PagesToRead \in 0 .. NumPages /\ PagesToWrite \in 0 .. NumPages
  BY CountsBounded DEF RunInv, IInv
<1>8. fl.back = "load" => CleanAhead(PagesToRead)'
  BY <1>2, <1>3, <1>5, <1>6, <1>7 DEF RunInv, Flushed, CleanAhead, Ahead, cacheVars
<1>9. fl.back = "evict" => CleanAhead(PagesToWrite)'
  BY <1>2, <1>3, <1>5, <1>6, <1>7 DEF RunInv, Flushed, CleanAhead, Ahead, cacheVars
<1>10. pc' # "flush"
  BY <1>2 DEF RunInv, IInv, TypeOK
<1>11. QED
  BY <1>2, <1>4, <1>8, <1>9, <1>10 DEF Flushed

LEMMA FlushAbortsChain == ASSUME RunInv, FlushAborts PROVE Chained' /\ Flushed'
<1>1. pc' = "aborted" /\ UNCHANGED <<pages, firstDirtyPage>>
  BY DEF FlushAborts, cacheVars
<1>2. QED
  BY <1>1, KeepChain

LEMMA FlushWriteChain == ASSUME RunInv, IInv', FlushWrite PROVE Chained' /\ Flushed'
<1> DEFINE i == fl.index
           n == InOneWrite(i)
           rem == Wanted(i)
<1>1. /\ i \in Slots /\ fl.rem \in Nat /\ fl.rem > 0 /\ NumPages \in Nat \ {0}
      /\ firstDirtyPage \in Slots /\ dirtyCount \in 0 .. NumPages /\ dirtyCount > 0
      /\ fl \in [index : Slots, rem : Nat, back : {"idle", "load", "mark", "evict", "closed"}]
  BY CacheAssumption DEF RunInv, IInv, TypeOK, FlushWrite, Flushing
<1>2. pc = "flush" /\ pages[i].isDirty /\ FlushAsserts(i)
  BY DEF FlushWrite, Flushing
<1>3. /\ n \in Nat \ {0} /\ i + n <= NumPages /\ n <= rem /\ n <= dirtyCount
      /\ rem \in Nat /\ RunFrom(i) \in Nat
  BY <1>1, <1>2, OneWrite DEF RunInv, IInv
<1>4. /\ n = Smaller(Smaller(RunFrom(i), NumPages - i), rem)
      /\ rem = IF i # firstDirtyPage THEN Larger(fl.rem, RunFrom(i)) ELSE fl.rem
  BY DEF InOneWrite, Wanted
<1>5. /\ pages' = [j \in Slots |->
                     [pages[j] EXCEPT !.isDirty = pages[j].isDirty /\ ~(i <= j /\ j < i + n)]]
      /\ dirtyCount' = dirtyCount - n
      /\ firstDirtyPage' = IF i = firstDirtyPage THEN (firstDirtyPage + n) % NumPages
                                                ELSE firstDirtyPage
      /\ fl' = [fl EXCEPT !.index = (i + n) % NumPages, !.rem = rem - n]
      /\ UNCHANGED <<position, cacheData, pc, wr, rd>>
  BY DEF FlushWrite, FirstDirtyAfter
<1> HIDE DEF n, rem
<1>6. \A j \in Slots : /\ pages'[j].page = pages[j].page
                       /\ pages'[j].isDirty <=> pages[j].isDirty /\ ~(i <= j /\ j < i + n)
  <2> HIDE DEF i
  <2> QED BY <1>5 DEF RunInv, IInv, TypeOK
<1>7. Chained'
  <2>1. firstDirtyPage' # firstDirtyPage => ~pages'[firstDirtyPage].isDirty
    <3>1. SUFFICES ASSUME i = firstDirtyPage PROVE ~pages'[firstDirtyPage].isDirty
      BY <1>5
    <3>2. QED
      BY <1>1, <1>3, <1>6, <3>1 DEF Slots
  <2>2. QED
    BY <1>6, <2>1, CleaningKeepsChain
<1>8. CurrentSlot' = CurrentSlot /\ PagesToRead' = PagesToRead /\ PagesToWrite' = PagesToWrite
      /\ CurrentSlot \in Slots
  BY <1>5, SameCounts, Current DEF RunInv, IInv, TypeOK
<1>9. fl'.index = (IF i + n = NumPages THEN 0 ELSE i + n) /\ fl'.rem = rem - n /\ fl'.back = fl.back
  <2>1. (i + n) % NumPages = IF i + n = NumPages THEN 0 ELSE i + n
    <3> DEFINE a == i + n
    <3>1. a \in Nat /\ a < 2 * NumPages
      BY <1>1, <1>3 DEF Slots
    <3>2. a % NumPages = IF a < NumPages THEN a ELSE a - NumPages
      <4> HIDE DEF a
      <4> QED BY <1>1, <3>1, ModWraps
    <3>3. QED
      BY <1>1, <1>3, <3>2 DEF Slots
  <2>2. QED
    BY <1>1, <1>5, <2>1
<1>10. (firstDirtyPage + dirtyCount) % NumPages =
          IF firstDirtyPage + dirtyCount < NumPages THEN firstDirtyPage + dirtyCount
                                                    ELSE firstDirtyPage + dirtyCount - NumPages
  <2> DEFINE a == firstDirtyPage + dirtyCount
  <2>1. a \in Nat /\ a < 2 * NumPages
    BY <1>1 DEF Slots
  <2>2. a % NumPages = IF a < NumPages THEN a ELSE a - NumPages
    <3> HIDE DEF a
    <3> QED BY <1>1, <2>1, ModWraps
  <2>3. QED
    BY <1>1, <2>2 DEF Slots
(* A run that is cut is not whole afterwards: slot e is clean, and the two *)
(* counts of what is left of it reach past e.                              *)
<1>11. ASSUME ~RunIntact PROVE ~RunIntact'
  <2>1. PICK e \in Slots, r \in Slots :
          /\ firstDirtyPage < e /\ e < NumPages /\ i < r /\ r <= firstDirtyPage
          /\ dirtyCount = (e - firstDirtyPage) + (r - i)
          /\ \A j \in Slots : pages[j].isDirty <=> ((firstDirtyPage <= j /\ j < e)
                                                     \/ (i <= j /\ j < r))
    BY <1>2, <1>11 DEF RunInv, IInv, RunCut
  <2>2. RunFrom(i) = firstDirtyPage + dirtyCount - NumPages - i
    BY <1>1, <1>2, <1>10, <2>1 DEF RunFrom, FlushAsserts, Slots
  <2>3. n < r - i
    BY <1>1, <1>3, <1>4, <2>1, <2>2 DEF Slots, Smaller, Larger
  <2>4. firstDirtyPage' = firstDirtyPage /\ dirtyCount' > e - firstDirtyPage
    BY <1>1, <1>3, <1>5, <2>1, <2>3, SMTT(30) DEF Slots
  <2>5. ~pages'[e].isDirty /\ InRun(e)'
    BY <1>1, <1>6, <2>1, <2>4 DEF InRun, Slots
  <2>6. QED
    BY <2>5 DEF RunIntact
(* A whole run: the sweep goes on, is done at once, or cuts the run.       *)
<1>12. ASSUME RunIntact, RunIntact', NEW count \in 0 .. NumPages, Sweeping(count)
       PROVE  Sweeping(count)'
  <2>1. InRun(i)
    BY <1>1, <1>2, <1>12 DEF RunIntact
  <2>2. CASE rem = fl.rem
    <3>1. \/ \A j \in Slots : Ahead(CurrentSlot, j) < count => ~pages'[j].isDirty
          \/ /\ fl'.rem <= count
             /\ fl'.index = IF CurrentSlot + (count - fl'.rem) < NumPages
                            THEN CurrentSlot + (count - fl'.rem)
                            ELSE CurrentSlot + (count - fl'.rem) - NumPages
             /\ \A j \in Slots : Ahead(CurrentSlot, j) < count - fl'.rem => ~pages'[j].isDirty
      BY <1>1, <1>3, <1>6, <1>8, <1>9, <1>12, <2>2, SweepOn
    <3>2. QED
      BY <1>8, <3>1 DEF Sweeping, CleanAhead, Ahead
  <2>3. CASE rem # fl.rem
    <3>1. i # firstDirtyPage /\ rem = RunFrom(i) /\ RunFrom(i) > fl.rem
      BY <1>1, <1>3, <1>4, <2>3 DEF Larger
    <3>2. n = Smaller(RunFrom(i), NumPages - i)
      BY <1>1, <1>3, <1>4, <3>1 DEF Smaller, Slots
    <3>3. CASE n >= fl.rem
      <4>1. \A j \in Slots : Ahead(CurrentSlot, j) < count => ~pages'[j].isDirty
        <5>1. CASE CleanAhead(count)
          BY <1>6, <5>1 DEF CleanAhead
        <5>2. CASE ~CleanAhead(count)
          <6>1. /\ fl.rem <= count
                /\ i = IF CurrentSlot + (count - fl.rem) < NumPages
                       THEN CurrentSlot + (count - fl.rem)
                       ELSE CurrentSlot + (count - fl.rem) - NumPages
                /\ CleanAhead(count - fl.rem)
            BY <1>12, <5>2 DEF Sweeping
          <6>2. TAKE j \in Slots
          <6>3. HAVE Ahead(CurrentSlot, j) < count
          <6>4. Ahead(CurrentSlot, j) < count - fl.rem \/ (i <= j /\ j < i + n)
            BY <1>1, <1>3, <1>8, <3>3, <6>1, <6>3 DEF Ahead, Slots
          <6>5. QED
            BY <1>6, <6>1, <6>4 DEF CleanAhead
        <5>3. QED
          BY <5>1, <5>2
      <4>2. QED
        BY <1>8, <4>1 DEF Sweeping, CleanAhead, Ahead
    <3>4. CASE n < fl.rem
      <4>1. n = NumPages - i /\ RunFrom(i) > NumPages - i
        BY <1>1, <1>3, <3>1, <3>2, <3>4 DEF Smaller, Slots
      <4>2. i > firstDirtyPage /\ firstDirtyPage + dirtyCount > NumPages
        <5>1. CASE i > firstDirtyPage
          <6>1. RunFrom(i) = dirtyCount - (i - firstDirtyPage)
            BY <1>1, <5>1 DEF RunFrom, Slots
          <6>2. QED
            BY <1>1, <4>1, <5>1, <6>1 DEF Slots
        <5>2. CASE i < firstDirtyPage
          <6>1. RunFrom(i) < NumPages - i
            <7> DEFINE a == (firstDirtyPage + dirtyCount) % NumPages
            <7>1. RunFrom(i) = a - i
              BY <1>1, <5>2 DEF RunFrom, Slots
            <7>2. a \in Nat /\ a < NumPages
              BY <1>1, <1>10 DEF Slots
            <7> HIDE DEF a
            <7>3. QED
              BY <1>1, <7>1, <7>2 DEF Slots
          <6>2. QED
            BY <1>1, <1>3, <4>1, <6>1 DEF Slots
        <5>3. QED
          BY <1>1, <3>1, <5>1, <5>2 DEF Slots
      <4>3. \A j \in Slots : j = i => ~pages'[j].isDirty /\ InRun(j)'
        <5>1. firstDirtyPage' = firstDirtyPage /\ dirtyCount' > i - firstDirtyPage
          BY <1>1, <1>5, <4>1, <4>2 DEF Slots
        <5>2. QED
          BY <1>1, <1>3, <1>6, <4>2, <5>1 DEF InRun, Slots
      <4>4. QED
        BY <1>1, <1>12, <4>3 DEF RunIntact
    <3>5. QED
      BY <1>1, <1>3, <3>3, <3>4
  <2>4. QED
    BY <2>2, <2>3
<1>13. PagesToRead \in 0 .. NumPages /\ PagesToWrite \in 0 .. NumPages
  BY CountsBounded DEF RunInv, IInv
<1>14. fl.back = "load" => (RunIntact' => Sweeping(PagesToRead)')
  BY <1>2, <1>8, <1>11, <1>12, <1>13 DEF RunInv, Flushed
<1>15. fl.back = "evict" => (RunIntact' => Sweeping(PagesToWrite)')
  BY <1>2, <1>8, <1>11, <1>12, <1>13 DEF RunInv, Flushed
<1>16. QED
  BY <1>2, <1>5, <1>7, <1>9, <1>14, <1>15 DEF Flushed

-----------------------------------------------------------------------------
LEMMA Cancelled ==
    ASSUME NEW a \in Int, NEW b \in Nat, NEW m \in Nat \ {0}, a * m < b * m
    PROVE  a < b
OBVIOUS

(* The target's bytes only go to slots that the flush before has cleaned.  *)
LEMMA ReadLoadChain == ASSUME RunInv, ReadLoad PROVE Chained' /\ Flushed'
<1> DEFINE Start(i) == (i - CurrentSlot) * PageSize
           In(i, o, n) == i >= CurrentSlot /\ Start(i) + o < n
           there == Smaller(target.size - CurrentPage * PageSize, PagesToRead * PageSize)
<1>1. /\ CurrentSlot \in Slots /\ CurrentPage \in Nat /\ PageSize \in Nat \ {0} /\ NumPages \in Nat
      /\ PagesToRead \in Nat
  BY Current, PageCounts, CacheAssumption DEF RunInv, IInv, TypeOK
<1>2. there \in Int /\ there <= PagesToRead * PageSize
  <2>1. CurrentPage * PageSize \in Nat /\ PagesToRead * PageSize \in Nat
    BY <1>1, ProductNat
  <2>2. QED
    BY <2>1 DEF RunInv, IInv, TypeOK, Smaller
<1>3. PICK n \in Int :
        /\ n <= PagesToRead * PageSize
        /\ pages' = [i \in Slots |->
               IF In(i, 0, n)
               THEN [page |-> CurrentPage + (i - CurrentSlot),
                     size |-> Smaller(n - Start(i), PageSize),
                     isDirty |-> pages[i].isDirty]
               ELSE pages[i]]
  <2>0. PagesToRead * PageSize \in Int
    BY <1>1
  <2>1. \A n \in (IF "read" \in Failures THEN 1 .. there ELSE {there}) :
            n \in Int /\ n <= PagesToRead * PageSize
    <3> HIDE DEF there
    <3> QED BY <1>2, <2>0
  <2>2. QED
    BY <2>1 DEF ReadLoad
<1>4. pc = "load" /\ pc' = "read" /\ UNCHANGED firstDirtyPage
  BY DEF ReadLoad
<1>5. ASSUME NEW i \in Slots, In(i, 0, n) PROVE ~pages[i].isDirty
  <2>1. i >= CurrentSlot /\ (i - CurrentSlot) * PageSize < PagesToRead * PageSize
    <3>1. (i - CurrentSlot) * PageSize \in Int /\ PagesToRead * PageSize \in Int
      BY <1>1 DEF Slots
    <3>2. i >= CurrentSlot /\ (i - CurrentSlot) * PageSize < n
      BY <1>5, <3>1
    <3>3. QED
      BY <1>3, <3>1, <3>2
  <2>2. i - CurrentSlot < PagesToRead
    BY <1>1, <2>1, Cancelled DEF Slots
  <2>3. QED
    BY <1>1, <1>4, <2>1, <2>2 DEF RunInv, Flushed, CleanAhead, Ahead
<1>6. \A i \in Slots : /\ pages'[i].isDirty = pages[i].isDirty
                       /\ pages[i].isDirty => pages'[i].page = pages[i].page
  <2> HIDE DEF In, Start
  <2> QED BY <1>3, <1>5 DEF RunInv, IInv, TypeOK
<1>7. QED
  BY <1>4, <1>6, KeepChain

(* The slots that a write at the end of the file drops.                    *)
LEMMA EvictedAhead ==
    ASSUME TypeOK, NEW i \in Evicted
    PROVE  i \in Slots /\ Ahead(CurrentSlot, i) < PagesToWrite
<1>1. CurrentSlot \in Slots /\ PagesToWrite \in 0 .. NumPages /\ NumPages \in Nat \ {0}
  BY Current, CountsBounded, CacheAssumption DEF TypeOK
<1>2. PICK k \in 0 .. PagesToWrite - 1 : i = (CurrentSlot + k) % NumPages
  BY DEF Evicted
<1>3. i = IF CurrentSlot + k < NumPages THEN CurrentSlot + k ELSE CurrentSlot + k - NumPages
  <2> DEFINE a == CurrentSlot + k
  <2>1. a \in Nat /\ a < 2 * NumPages
    BY <1>1 DEF Slots
  <2>2. a % NumPages = IF a < NumPages THEN a ELSE a - NumPages
    <3> HIDE DEF a
    <3> QED BY <1>1, <2>1, ModWraps
  <2>3. QED
    BY <1>1, <1>2, <2>2 DEF Slots
<1>4. QED
  BY <1>1, <1>3 DEF Ahead, Slots

(* The pages dropped at the end of the file are clean ones.                *)
LEMMA WriteEvictChain == ASSUME RunInv, WriteEvict PROVE Chained' /\ Flushed'
<1>1. pages' = [i \in Slots |->
                  IF i \in Evicted THEN [page |-> -1, size |-> 0, isDirty |-> pages[i].isDirty]
                                   ELSE pages[i]]
      /\ pc = "evict" /\ pc' = "write" /\ UNCHANGED firstDirtyPage
  BY DEF WriteEvict
<1>2. ASSUME NEW i \in Slots, i \in Evicted PROVE ~pages[i].isDirty
  <2>1. Ahead(CurrentSlot, i) < PagesToWrite
    BY <1>2, EvictedAhead DEF RunInv, IInv
  <2>2. QED
    BY <1>1, <2>1 DEF RunInv, Flushed, CleanAhead
<1>3. \A i \in Slots : /\ pages'[i].isDirty = pages[i].isDirty
                       /\ pages[i].isDirty => pages'[i].page = pages[i].page
  BY <1>1, <1>2 DEF RunInv, IInv, TypeOK
<1>4. QED
  BY <1>1, <1>3, KeepChain

(* A page that does not extend the run makes the code flush first.         *)
LEMMA WriteGapChain == ASSUME RunInv, WriteGap PROVE Chained' /\ Flushed'
<1>1. /\ pages' = [pages EXCEPT ![CurrentSlot] = Claimed(CurrentSlot)]
      /\ pc' = "flush" /\ fl' = [index |-> 0, rem |-> NumPages, back |-> "mark"]
      /\ UNCHANGED firstDirtyPage
      /\ ~pages[CurrentSlot].isDirty
  BY DEF WriteGap, StartFlush, Gap
<1>2. CurrentSlot \in Slots
  BY Current DEF RunInv, IInv, TypeOK
<1>3. \A i \in Slots : /\ pages'[i].isDirty = pages[i].isDirty
                       /\ pages[i].isDirty => pages'[i].page = pages[i].page
  <2>1. Claimed(CurrentSlot).isDirty = pages[CurrentSlot].isDirty
    BY <1>2 DEF RunInv, IInv, TypeOK, Claimed
  <2>2. QED
    BY <1>1, <1>2, <2>1 DEF RunInv, IInv, TypeOK
<1>4. QED
  BY <1>1, <1>3, KeepChain

(* The copy into a page: the page was in the run and stays there, is the   *)
(* first of a new run, or follows the last page of the run.                *)
LEMMA WriteCopyChain == ASSUME RunInv, WriteCopy PROVE Chained' /\ Flushed'
<1> DEFINE i == CurrentSlot
<1>1. /\ i \in Slots /\ CurrentPage \in Nat /\ NumPages \in Nat \ {0}
      /\ firstDirtyPage \in Slots /\ dirtyCount \in 0 .. NumPages
  BY Current, CacheAssumption DEF RunInv, IInv, TypeOK
<1>2. RunIntact
  BY DEF RunInv, IInv, WriteCopy
<1>3. /\ \E size : pages' = [pages EXCEPT ![i] = [page |-> CurrentPage, size |-> size, isDirty |-> TRUE]]
      /\ firstDirtyPage' = IF dirtyCount = 0 THEN i ELSE firstDirtyPage
      /\ pc' = "write"
  BY DEF WriteCopy
<1> HIDE DEF i
<1>4. /\ pages'[i].isDirty /\ pages'[i].page = CurrentPage
      /\ \A k \in Slots \ {i} : pages'[k] = pages[k]
  BY <1>1, <1>3 DEF RunInv, IInv, TypeOK
<1>5. \A k \in Slots : pages'[k].isDirty => pages'[k].page # -1
  BY <1>1, <1>4 DEF RunInv, Chained
<1>6. Chained'
  <2>1. SUFFICES ASSUME NEW k \in Slots, pages'[k].isDirty, pages'[After(k)].isDirty,
                        After(k) # firstDirtyPage'
                 PROVE  pages'[After(k)].page = pages'[k].page + 1
    BY <1>5 DEF Chained, After
  <2>2. After(k) \in Slots
    BY <1>1 DEF After, Slots
  <2>3. CASE pages[i].isDirty
    <3>1. pages[i].page = CurrentPage
      <4>1. pc = "write" => pages[i].page \in {-1, CurrentPage}
        BY DEF WriteCopy, Writable, i
      <4>2. pc # "mark"
        BY <1>1, <1>2, <2>3 DEF RunInv, IInv, RunIntact, InRun, Slots
      <4>3. QED
        BY <1>1, <2>3, <4>1, <4>2 DEF RunInv, Chained, WriteCopy
    <3>2. \A j \in Slots : pages'[j].isDirty = pages[j].isDirty /\ pages'[j].page = pages[j].page
      BY <1>1, <1>4, <2>3, <3>1 DEF RunInv, IInv, TypeOK
    <3>3. firstDirtyPage' = firstDirtyPage
      BY <1>1, <1>2, <1>3, <2>3 DEF RunIntact, InRun, Slots
    <3>4. QED
      BY <2>1, <2>2, <3>2, <3>3 DEF RunInv, Chained
  <2>4. CASE ~pages[i].isDirty /\ dirtyCount = 0
    <3>1. \A j \in Slots : ~pages[j].isDirty
      BY <1>1, <1>2, <2>4 DEF RunIntact, InRun, Slots
    <3>2. After(k) = i /\ firstDirtyPage' = i
      BY <1>3, <1>4, <2>1, <2>2, <2>4, <3>1
    <3>3. QED
      BY <2>1, <3>2
  <2>5. CASE ~pages[i].isDirty /\ dirtyCount > 0
    <3>1. pages[PreviousSlot].isDirty /\ pages[PreviousSlot].page = CurrentPage - 1
      BY <2>5 DEF WriteCopy, Gap, RunInv, IInv, i
    <3>2. PreviousSlot \in Slots /\ PreviousSlot = IF i = 0 THEN NumPages - 1 ELSE i - 1
      BY <1>1 DEF PreviousSlot, Slots, i
    <3>3. InRun(PreviousSlot) /\ ~InRun(i)
      BY <1>1, <1>2, <2>5, <3>1, <3>2 DEF RunIntact
    <3>4. firstDirtyPage' = firstDirtyPage
      BY <1>1, <1>3, <2>5
    <3>5. PreviousSlot # i
      BY <2>5, <3>1
    <3>6. CASE After(k) = i
      <4>1. k = PreviousSlot
        BY <1>1, <3>2, <3>6 DEF After, Slots
      <4>2. pages'[k].page = CurrentPage - 1
        BY <1>4, <3>1, <3>2, <3>5, <4>1
      <4>3. QED
        BY <1>1, <1>4, <3>6, <4>2
    <3>7. CASE k = i
      <4>1. InRun(After(i)) /\ After(i) # i
        <5>1. After(i) # i
          BY <1>1, <3>2, <3>5 DEF After, Slots
        <5>2. QED
          BY <1>2, <1>4, <2>1, <2>2, <3>7, <5>1 DEF RunIntact
      <4>2. After(i) = firstDirtyPage
        BY <1>1, <3>2, <3>3, <4>1 DEF InRun, After, Slots
      <4>3. QED
        BY <2>1, <3>4, <3>7, <4>2
    <3>8. CASE After(k) # i /\ k # i
      BY <1>4, <2>1, <2>2, <3>4, <3>8 DEF RunInv, Chained
    <3>9. QED
      BY <3>6, <3>7, <3>8
  <2>6. QED
    BY <1>1, <2>3, <2>4, <2>5
<1>7. QED
  BY <1>3, <1>6 DEF Flushed

-----------------------------------------------------------------------------
LEMMA NextRunInv == ASSUME FlushSucceeds, RunInv, [Next]_vars PROVE RunInv'
<1>1. IInv'
  BY NextIInv DEF RunInv
<1>2. CASE UNCHANGED vars
  <2>1. CurrentSlot' = CurrentSlot /\ PagesToRead' = PagesToRead /\ PagesToWrite' = PagesToWrite
    BY <1>2, SameCounts DEF vars
  <2>2. Chained'
    BY <1>2 DEF vars, RunInv, Chained, After
  <2>3. Flushed'
    BY <1>2, <2>1 DEF vars, RunInv, Flushed, CleanAhead, Ahead, Sweeping, RunIntact, InRun
  <2>4. QED
    BY <1>1, <2>2, <2>3 DEF RunInv
<1>3. CASE ClientCall
  BY <1>1, <1>3, CallChain DEF RunInv
<1>4. CASE FlushStep
  <2>1. ~FlushFails
    BY DEF FlushSucceeds, FlushFails
  <2>2. QED
    BY <1>1, <1>4, <2>1, FlushWriteChain, FlushSkipChain, FlushReturnsChain, FlushAbortsChain
       DEF FlushStep, RunInv
<1>5. CASE ReadStep
  <2>1. CASE ReadCached \/ ReadReturns \/ ReadLoadFails
    <3>1. /\ pc' \notin {"load", "evict", "flush"}
          /\ UNCHANGED <<pages, firstDirtyPage>>
      BY <2>1 DEF ReadCached, ReadReturns, ReadLoadFails, ReadFails, cacheVars, RunInv, IInv, TypeOK
    <3>2. QED
      BY <1>1, <3>1, KeepChain DEF RunInv
  <2>2. QED
    BY <1>1, <1>5, <2>1, ReadMissChain, ReadLoadChain DEF ReadStep, RunInv
<1>6. CASE WriteStep
  <2>1. CASE WriteMiss \/ WriteAhead \/ WriteAheadFails \/ WriteReturns
    <3>1. /\ pc' \notin {"load", "evict", "flush"}
          /\ UNCHANGED <<pages, firstDirtyPage>>
      BY <2>1 DEF WriteMiss, WriteAhead, WriteAheadFails, WriteReturns, cacheVars
    <3>2. QED
      BY <1>1, <3>1, KeepChain DEF RunInv
  <2>2. QED
    BY <1>1, <1>6, <2>1, WriteCopyChain, WriteGapChain, WriteMissAtEOFChain, WriteEvictChain
       DEF WriteStep, RunInv
<1>7. QED
  BY <1>2, <1>3, <1>4, <1>5, <1>6 DEF Next, Step

LEMMA RunIsRight == RunInv => DirtyRun
<1> SUFFICES ASSUME RunInv, pc \notin {"flush", "aborted"}
             PROVE  /\ {i \in Slots : pages[i].isDirty} = {RunSlot(k) : k \in 0 .. dirtyCount - 1}
                    /\ \A k \in 1 .. dirtyCount - 1 :
                          pages[RunSlot(k)].page = pages[RunSlot(k - 1)].page + 1
  BY DEF DirtyRun
<1>1. firstDirtyPage \in Slots /\ dirtyCount \in 0 .. NumPages /\ RunIntact /\ NumPages \in Nat \ {0}
  BY CacheAssumption DEF RunInv, IInv, TypeOK
<1>2. {i \in Slots : pages[i].isDirty} = {RunSlot(k) : k \in 0 .. dirtyCount - 1}
  <2>1. {i \in Slots : pages[i].isDirty} = {i \in Slots : InRun(i)}
    BY <1>1 DEF RunIntact
  <2>2. QED
    BY <1>1, <2>1, RunSlots
<1>3. ASSUME NEW k \in 0 .. dirtyCount - 1
      PROVE  RunSlot(k) = IF firstDirtyPage + k < NumPages THEN firstDirtyPage + k
                                                         ELSE firstDirtyPage + k - NumPages
  BY <1>1, RunSlotWraps
<1>4. ASSUME NEW k \in 1 .. dirtyCount - 1
      PROVE  pages[RunSlot(k)].page = pages[RunSlot(k - 1)].page + 1
  <2>1. k \in 0 .. dirtyCount - 1 /\ k - 1 \in 0 .. dirtyCount - 1
    BY <1>1
  <2>2. RunSlot(k) \in Slots /\ RunSlot(k - 1) \in Slots
        /\ pages[RunSlot(k)].isDirty /\ pages[RunSlot(k - 1)].isDirty
    BY <1>2, <2>1
  <2>3. After(RunSlot(k - 1)) = RunSlot(k) /\ RunSlot(k) # firstDirtyPage
    BY <1>1, <1>3, <2>1 DEF After, Slots
  <2>4. QED
    BY <2>2, <2>3 DEF RunInv, Chained
<1>5. QED
  BY <1>2, <1>4

(* Between any two steps outside flush_dirty_pages, and as long as the     *)
(* target takes every seek and write, the dirty slots are the circular run *)
(* that firstDirtyPage and dirtyCount describe, and hold consecutive pages *)
(* of the file: what flush_dirty_pages writes in one piece goes where each *)
(* of its pages belongs.  (Inside the flush the run need not be whole: see *)
(* RunCut, which a flush that starts in the middle of a run leaves.)       *)
THEOREM DirtyPagesAreOneRun == ASSUME FlushSucceeds PROVE Spec => []DirtyRun
<1>1. RunInv /\ [Next]_vars => RunInv'
  BY NextRunInv
<1>2. QED
  BY InitRunInv, <1>1, RunIsRight, PTL DEF Spec

-----------------------------------------------------------------------------
(* The cache as a file.                                                    *)
PageStart(q) == q * PageSize

-----------------------------------------------------------------------------
(* Arithmetic.                                                             *)
LEMMA LeastOf == \A S : S \subseteq Nat /\ S # {} => \E n \in S : \A m \in S : n <= m
<1> SUFFICES ASSUME NEW S, S \subseteq Nat, S # {}
             PROVE  \E n \in S : \A m \in S : n <= m
  OBVIOUS
<1>1. IsWellFoundedOn(OpToRel(<, Nat), Nat)
  BY NatLessThanWellFounded, Zenon
<1>2. PICK n \in S : \A m \in S : ~(<<m, n>> \in OpToRel(<, Nat))
  BY <1>1, WFMin, Zenon
<1>3. \A m \in S : ~(m < n)
  BY <1>2, Zenon DEF OpToRel
<1>4. QED
  BY <1>3

LEMMA PageStarts ==
    /\ \A q \in Nat : PageStart(q) \in Nat /\ PageStart(q + 1) = PageStart(q) + PageSize
    /\ \A p, q \in Nat : p < q => PageStart(p) + PageSize <= PageStart(q)
    /\ PageStart(0) = 0
<1>1. PageSize \in Nat \ {0}
  BY CacheAssumption
<1>2. ASSUME NEW q \in Nat
      PROVE  PageStart(q) \in Nat /\ PageStart(q + 1) = PageStart(q) + PageSize
  BY <1>1 DEF PageStart
<1>3. ASSUME NEW p \in Nat, NEW q \in Nat, p < q
      PROVE  PageStart(p) + PageSize <= PageStart(q)
  <2>1. PICK d \in Nat : q = p + 1 + d
    <3>1. q - p - 1 \in Nat /\ q = p + 1 + (q - p - 1)
      BY <1>3
    <3>2. QED
      BY <3>1
  <2>2. q * PageSize = p * PageSize + PageSize + d * PageSize /\ d * PageSize \in Nat /\ p * PageSize \in Nat
    BY <1>1, <2>1
  <2>3. QED
    BY <1>1, <2>2 DEF PageStart
<1>4. QED
  BY <1>1, <1>2, <1>3 DEF PageStart

LEMMA Split ==
    ASSUME NEW m \in Nat \ {0}, NEW a \in Nat
    PROVE  a = (a \div m) * m + (a % m)
OBVIOUS

LEMMA SplitOnce ==
    ASSUME NEW m \in Nat \ {0}, NEW q \in Nat, NEW r \in 0 .. m - 1
    PROVE  (q * m + r) \div m = q /\ (q * m + r) % m = r
OBVIOUS

(* Every position is in one page.                                          *)
LEMMA InPage ==
    \A w \in Nat : /\ w \div PageSize \in Nat /\ w % PageSize \in Offsets
                   /\ w = PageStart(w \div PageSize) + (w % PageSize)
BY CacheAssumption, Split, DivMod DEF PageStart, Offsets

LEMMA PageIs ==
    ASSUME NEW q \in Nat, NEW w \in Nat, PageStart(q) <= w, w < PageStart(q) + PageSize
    PROVE  w \div PageSize = q /\ w % PageSize = w - PageStart(q)
<1>1. /\ w \div PageSize \in Nat /\ w % PageSize \in 0 .. PageSize - 1
      /\ w = PageStart(w \div PageSize) + (w % PageSize)
  BY InPage DEF Offsets
<1>2. ~(w \div PageSize < q) /\ ~(q < w \div PageSize)
  <2> DEFINE p == w \div PageSize
  <2>1. PageStart(p) \in Nat /\ PageStart(q) \in Nat /\ PageSize \in Nat
    BY <1>1, PageStarts, CacheAssumption
  <2>2. p < q => PageStart(p) + PageSize <= PageStart(q)
    BY <1>1, PageStarts
  <2>3. q < p => PageStart(q) + PageSize <= PageStart(p)
    BY <1>1, PageStarts
  <2> HIDE DEF p
  <2>4. QED
    BY <1>1, <2>1, <2>2, <2>3 DEF p
<1>3. w \div PageSize = q
  BY <1>1, <1>2
<1>4. QED
  BY <1>1, <1>3, PageStarts

LEMMA DivUp ==
    ASSUME NEW m \in Nat \ {0}, NEW a \in Nat, NEW b \in Nat, a <= b
    PROVE  a \div m <= b \div m
OBVIOUS

LEMMA SlotsApart ==
    ASSUME NEW a \in Nat, NEW b \in Nat, a < b, b < a + NumPages
    PROVE  a % NumPages # b % NumPages
<1> DEFINE d == b \div NumPages - a \div NumPages
<1>1. NumPages \in Nat \ {0}
  BY CacheAssumption
<1>2. /\ a \div NumPages \in Nat /\ b \div NumPages \in Nat
      /\ a = (a \div NumPages) * NumPages + (a % NumPages)
      /\ b = (b \div NumPages) * NumPages + (b % NumPages)
      /\ a % NumPages \in Nat /\ b % NumPages \in Nat
  BY <1>1, Split, DivMod
<1>3. SUFFICES ASSUME a % NumPages = b % NumPages PROVE FALSE
  OBVIOUS
<1>4. d \in Int /\ d * NumPages = b - a
  BY <1>1, <1>2, <1>3
<1>5. d >= 1 => d * NumPages >= NumPages
  <2> HIDE DEF d
  <2> QED BY <1>1, <1>4
<1>6. d <= 0 => d * NumPages <= 0
  <2> HIDE DEF d
  <2> QED BY <1>1, <1>4
<1> HIDE DEF d
<1>7. QED
  BY <1>1, <1>4, <1>5, <1>6

LEMMA SlotsOn ==
    ASSUME NEW q \in Nat, NEW k \in Nat, (q % NumPages) + k < NumPages
    PROVE  (q + k) % NumPages = (q % NumPages) + k
BY CacheAssumption

LEMMA SlotAfter ==
    ASSUME NEW q \in Nat
    PROVE  (q + 1) % NumPages = IF q % NumPages = NumPages - 1 THEN 0 ELSE (q % NumPages) + 1
<1>1. NumPages \in Nat \ {0} /\ q % NumPages \in 0 .. NumPages - 1 /\ q \div NumPages \in Nat
  BY CacheAssumption, DivMod
<1>2. CASE q % NumPages # NumPages - 1
  <2>1. (q % NumPages) + 1 < NumPages
    BY <1>1, <1>2
  <2>2. (q + 1) % NumPages = (q % NumPages) + 1
    BY <2>1, SlotsOn
  <2>3. QED
    BY <1>2, <2>2
<1>3. CASE q % NumPages = NumPages - 1
  <2>1. q + 1 = (q \div NumPages + 1) * NumPages + 0
    BY <1>1, <1>3, Split
  <2>2. ((q \div NumPages + 1) * NumPages + 0) % NumPages = 0
    BY <1>1, SplitOnce
  <2>3. QED
    BY <1>3, <2>1, <2>2
<1>4. QED
  BY <1>2, <1>3

(* The pages that n bytes need.                                            *)
LEMMA PagesOfIs ==
    /\ PagesOf(0) = 0
    /\ \A n \in Nat : PagesOf(n) \in Nat /\ PagesOf(n + PageSize) = PagesOf(n) + 1
                      /\ n <= PageStart(PagesOf(n))
    /\ \A n \in 1 .. PageSize : PagesOf(n) = 1
    /\ \A n \in Nat \ {0} : PagesOf(n) > 0
    /\ \A m, n \in Nat : m <= n => PagesOf(m) <= PagesOf(n)
    /\ \A q \in Nat : PagesOf(PageStart(q)) = q
BY CacheAssumption DEF PagesOf, PageStart

-----------------------------------------------------------------------------
(* The size of the file behind the cache, as a function of the slots ps    *)
(* and the size n of the target.                                           *)
PageTable == [Slots -> [page : Nat \cup {-1}, size : 0 .. PageSize, isDirty : BOOLEAN]]
EndOf(p) == PageStart(p.page) + p.size

IsSize(ps, n, m) ==
    /\ m \in Nat /\ n <= m
    /\ \A i \in Slots : ps[i].isDirty => EndOf(ps[i]) <= m
    /\ m = n \/ \E i \in Slots : ps[i].isDirty /\ m = EndOf(ps[i])

SizeOf(ps, n) ==
    CHOOSE m \in {n} \cup {IF ps[i].isDirty THEN EndOf(ps[i]) ELSE 0 : i \in Slots} :
        \A i \in Slots : (IF ps[i].isDirty THEN EndOf(ps[i]) ELSE 0) <= m /\ n <= m

LEMMA MostOf ==
    ASSUME NEW f \in [Slots -> Nat]
    PROVE  \E i \in Slots : \A j \in Slots : f[j] <= f[i]
<1> DEFINE Bad == {k \in Nat : k < NumPages /\ ~\E i \in 0 .. k : \A j \in 0 .. k : f[j] <= f[i]}
<1>1. NumPages \in Nat \ {0}
  BY CacheAssumption
<1>2. ASSUME NEW b \in Bad, \A c \in Bad : b <= c PROVE FALSE
  <2>1. b # 0
    <3>1. SUFFICES ASSUME b = 0 PROVE FALSE
      OBVIOUS
    <3>2. f[0] \in Nat /\ \A j \in 0 .. 0 : f[j] <= f[0]
      BY <1>1 DEF Slots
    <3>3. QED
      BY <3>1, <3>2
  <2>2. b \in Nat /\ b < NumPages /\ b - 1 \in Nat /\ b - 1 < NumPages
    BY <1>1, <1>2, <2>1
  <2>3. PICK i \in 0 .. b - 1 : \A j \in 0 .. b - 1 : f[j] <= f[i]
    <3>1. ASSUME b - 1 \in Bad PROVE FALSE
      <4> HIDE DEF Bad
      <4>1. b <= b - 1
        BY <1>2, <3>1
      <4>2. QED
        BY <2>2, <4>1
    <3>2. QED
      BY <2>2, <3>1
  <2>4. b \in Slots /\ i \in Slots /\ f[b] \in Nat /\ f[i] \in Nat
    BY <1>1, <2>2 DEF Slots
  <2>5. \A j \in 0 .. b : f[j] \in Nat /\ (j = b \/ j \in 0 .. b - 1)
    BY <1>1, <2>2 DEF Slots
  <2>6. CASE f[b] <= f[i]
    BY <2>3, <2>4, <2>5, <2>6
  <2>7. CASE f[i] <= f[b]
    <3>1. \A j \in 0 .. b : f[j] <= f[b]
      BY <2>3, <2>4, <2>5, <2>7
    <3>2. b \in 0 .. b
      BY <2>4 DEF Slots
    <3>3. QED
      BY <3>1, <3>2
  <2>8. QED
    BY <2>4, <2>6, <2>7
<1>3. Bad = {}
  <2>1. Bad \subseteq Nat
    OBVIOUS
  <2> HIDE DEF Bad
  <2>2. QED
    BY <1>2, <2>1, LeastOf
<1>4. \E i \in 0 .. NumPages - 1 : \A j \in 0 .. NumPages - 1 : f[j] <= f[i]
  <2>1. NumPages - 1 \in Nat /\ NumPages - 1 < NumPages
    BY <1>1
  <2>2. ~(NumPages - 1 \in Bad)
    <3> HIDE DEF Bad
    <3> QED BY <1>3
  <2>3. QED
    BY <2>1, <2>2
<1>5. QED
  BY <1>4 DEF Slots

LEMMA SizeIs ==
    ASSUME NEW ps \in PageTable, NEW n \in Nat,
           \A i \in Slots : ps[i].isDirty => ps[i].page # -1
    PROVE  \A m : IsSize(ps, n, m) <=> m = SizeOf(ps, n)
<1> DEFINE f == [i \in Slots |-> IF ps[i].isDirty THEN EndOf(ps[i]) ELSE 0]
           Ends == {n} \cup {f[i] : i \in Slots}
           Is(m) == m \in Ends /\ \A i \in Slots : f[i] <= m /\ n <= m
<1>1. \A i \in Slots : ps[i].isDirty => EndOf(ps[i]) \in Nat
  <2>1. SUFFICES ASSUME NEW i \in Slots, ps[i].isDirty PROVE EndOf(ps[i]) \in Nat
    OBVIOUS
  <2>2. ps[i].page \in Nat /\ ps[i].size \in Nat
    BY <2>1, CacheAssumption DEF PageTable
  <2>3. PageStart(ps[i].page) \in Nat
    BY <2>2, PageStarts
  <2>4. QED
    BY <2>2, <2>3 DEF EndOf
<1>2. f \in [Slots -> Nat] /\ Slots # {}
  BY <1>1, CacheAssumption DEF Slots
<1>3. SizeOf(ps, n) = CHOOSE m \in Ends : \A i \in Slots : f[i] <= m /\ n <= m
  BY DEF SizeOf
<1>4. \A m : Is(m) <=> IsSize(ps, n, m)
  <2>1. ASSUME NEW m PROVE Is(m) => IsSize(ps, n, m)
    BY <1>1, <1>2 DEF IsSize
  <2>2. ASSUME NEW m PROVE IsSize(ps, n, m) => Is(m)
    BY <1>1, <1>2 DEF IsSize
  <2>3. QED
    BY <2>1, <2>2
<1>5. PICK i \in Slots : \A j \in Slots : f[j] <= f[i]
  <2> HIDE DEF f
  <2> QED BY <1>2, MostOf
<1> HIDE DEF f
<1>6. \E m : Is(m)
  <2>1. f[i] \in Nat /\ f[i] \in Ends /\ n \in Ends
    BY <1>2
  <2>2. CASE n <= f[i]
    BY <1>5, <2>1, <2>2
  <2>3. CASE f[i] <= n
    <3>1. \A j \in Slots : f[j] <= n
      BY <1>2, <1>5, <2>1, <2>3
    <3>2. QED
      BY <2>1, <3>1
  <2>4. QED
    BY <2>1, <2>2, <2>3
<1>7. \A m, o : Is(m) /\ Is(o) => m = o
  <2>1. SUFFICES ASSUME NEW m, NEW o, Is(m), Is(o) PROVE m = o
    OBVIOUS
  <2>2. m <= o /\ o <= m /\ m \in Nat /\ o \in Nat
    BY <1>2, <2>1
  <2>3. QED
    BY <2>2
<1>8. Is(SizeOf(ps, n))
  <2> HIDE DEF Ends
  <2> QED BY <1>3, <1>6
<1> HIDE DEF Is
<1>9. QED
  BY <1>4, <1>7, <1>8

-----------------------------------------------------------------------------
(* What the file is, from the state.                                       *)
LEMMA ViewSizeIs ==
    ASSUME RunInv
    PROVE  \A m : IsSize(pages, target.size, m) <=> m = ViewSize
<1>1. pages \in PageTable /\ target.size \in Nat /\ \A i \in Slots : pages[i].isDirty => pages[i].page # -1
  BY DEF RunInv, IInv, TypeOK, Chained, PageTable
<1>2. ViewSize = SizeOf(pages, target.size)
  BY DEF ViewSize, SizeOf, PageEnd, EndOf, PageStart
<1>3. QED
  BY <1>1, <1>2, SizeIs

(* The pages of the dirty run, counted from the first.                     *)
LEMMA RunPages ==
    ASSUME RunInv, pc \notin {"flush", "aborted"}
    PROVE  /\ \A i \in Slots : pages[i].isDirty => \E k \in 0 .. dirtyCount - 1 : i = RunSlot(k)
           /\ \A k \in 0 .. dirtyCount - 1 :
                 /\ RunSlot(k) \in Slots /\ pages[RunSlot(k)].isDirty
                 /\ pages[RunSlot(k)].page \in Nat
                 /\ pages[RunSlot(k)].page = pages[RunSlot(0)].page + k
<1>1. DirtyRun /\ dirtyCount \in Nat
  BY RunIsRight, CacheAssumption DEF RunInv, IInv, TypeOK
<1>2. {i \in Slots : pages[i].isDirty} = {RunSlot(k) : k \in 0 .. dirtyCount - 1}
  BY <1>1 DEF DirtyRun
<1>3. \A k \in 0 .. dirtyCount - 1 : /\ RunSlot(k) \in Slots /\ pages[RunSlot(k)].isDirty
                                     /\ pages[RunSlot(k)].page \in Nat
  BY <1>2 DEF RunInv, IInv, TypeOK, Chained
<1>4. \A k \in 1 .. dirtyCount - 1 : pages[RunSlot(k)].page = pages[RunSlot(k - 1)].page + 1
  BY <1>1 DEF DirtyRun
<1> DEFINE Right(k) == pages[RunSlot(k)].page = pages[RunSlot(0)].page + k
           Bad == {k \in Nat : k < dirtyCount /\ ~Right(k)}
<1>5. ASSUME NEW b \in Bad, \A c \in Bad : b <= c PROVE FALSE
  <2>1. b \in Nat /\ b < dirtyCount /\ b \in 0 .. dirtyCount - 1 /\ 0 \in 0 .. dirtyCount - 1
    BY <1>1
  <2>2. b # 0
    BY <1>3, <2>1
  <2>3. b - 1 \in Nat /\ b - 1 < dirtyCount /\ b - 1 \in 0 .. dirtyCount - 1 /\ b \in 1 .. dirtyCount - 1
    BY <1>1, <2>1, <2>2
  <2>4. Right(b - 1)
    <3>1. ASSUME b - 1 \in Bad PROVE FALSE
      <4> HIDE DEF Bad
      <4>1. b <= b - 1
        BY <1>5, <3>1
      <4>2. QED
        BY <2>1, <4>1
    <3> HIDE DEF Right
    <3>2. QED
      BY <2>3, <3>1
  <2>5. pages[RunSlot(b)].page = pages[RunSlot(b - 1)].page + 1
    BY <1>4, <2>3
  <2>6. Right(b)
    BY <1>3, <2>1, <2>3, <2>4, <2>5
  <2>7. QED
    <3> HIDE DEF Right
    <3> QED BY <2>6
<1>6. Bad = {}
  <2>1. Bad \subseteq Nat
    OBVIOUS
  <2> HIDE DEF Bad
  <2>2. QED
    BY <1>5, <2>1, LeastOf
<1>7. \A k \in 0 .. dirtyCount - 1 : Right(k)
  <2> HIDE DEF Right
  <2> QED BY <1>1, <1>6
<1>8. QED
  BY <1>2, <1>3, <1>7

LEMMA SizeFromRun ==
    ASSUME RunInv, pc \notin {"flush", "aborted"}
    PROVE  CacheFileSize = ViewSize
<1> DEFINE last == (firstDirtyPage + dirtyCount - 1) % NumPages
           end == pages[last].page * PageSize + pages[last].size
<1>1. pages \in PageTable /\ target.size \in Nat /\ dirtyCount \in Nat /\ firstDirtyPage \in Nat
      /\ PageSize \in Nat
  BY CacheAssumption DEF RunInv, IInv, TypeOK, PageTable, Slots
<1>2. CASE dirtyCount = 0
  <2>1. \A i \in Slots : ~pages[i].isDirty
    BY <1>2, RunPages
  <2>2. IsSize(pages, target.size, target.size)
    BY <1>1, <2>1 DEF IsSize
  <2>3. CacheFileSize = target.size
    BY <1>2 DEF CacheFileSize
  <2>4. QED
    BY <2>2, <2>3, ViewSizeIs
<1>3. CASE dirtyCount > 0
  <2>1. last = RunSlot(dirtyCount - 1)
    BY <1>1 DEF RunSlot
  <2>2. dirtyCount - 1 \in 0 .. dirtyCount - 1
    BY <1>1, <1>3
  <2>3. last \in Slots /\ pages[last].isDirty /\ pages[last].page \in Nat
        /\ pages[last].page = pages[RunSlot(0)].page + (dirtyCount - 1)
    BY <2>1, <2>2, RunPages
  <2>4. end = EndOf(pages[last]) /\ end \in Nat
    <3>1. PageStart(pages[last].page) \in Nat /\ pages[last].size \in Nat
      BY <1>1, <2>3, PageStarts DEF PageTable
    <3>2. QED
      BY <3>1 DEF EndOf, PageStart
  <2>5. ASSUME NEW i \in Slots, pages[i].isDirty PROVE EndOf(pages[i]) <= end
    <3>1. PICK k \in 0 .. dirtyCount - 1 : i = RunSlot(k)
      BY <2>5, RunPages
    <3>2. pages[i].page \in Nat /\ pages[i].page = pages[RunSlot(0)].page + k
      BY <3>1, RunPages
    <3>3. pages[RunSlot(0)].page \in Nat
      BY <1>1, <1>3, RunPages
    <3>4. pages[i].size \in 0 .. PageSize /\ pages[last].size \in 0 .. PageSize
      BY <1>1, <2>3 DEF PageTable
    <3>5. CASE k = dirtyCount - 1
      BY <2>1, <2>4, <3>1, <3>4, <3>5
    <3>6. CASE k < dirtyCount - 1
      <4>1. pages[i].page < pages[last].page
        BY <1>1, <2>3, <3>2, <3>3, <3>6
      <4>2. PageStart(pages[i].page) + PageSize <= PageStart(pages[last].page)
            /\ PageStart(pages[i].page) \in Nat /\ PageStart(pages[last].page) \in Nat
        BY <2>3, <3>2, <4>1, PageStarts
      <4>3. EndOf(pages[i]) <= EndOf(pages[last])
        BY <1>1, <3>4, <4>2 DEF EndOf
      <4>4. QED
        BY <2>4, <4>3
    <3>7. QED
      BY <1>1, <3>1, <3>5, <3>6
  <2>6. CacheFileSize = Larger(target.size, end)
    BY <1>3 DEF CacheFileSize
  <2> HIDE DEF end, last
  <2>7. IsSize(pages, target.size, CacheFileSize)
    <3>1. \A i \in Slots : pages[i].isDirty => EndOf(pages[i]) <= CacheFileSize
      <4>1. ASSUME NEW i \in Slots, pages[i].isDirty PROVE EndOf(pages[i]) <= CacheFileSize
        <5>1. EndOf(pages[i]) \in Int
          <6>1. pages[i].page \in Nat /\ pages[i].size \in Nat
            BY <1>1, <4>1 DEF PageTable, RunInv, Chained
          <6>2. QED
            BY <6>1, PageStarts DEF EndOf
        <5>2. QED
          BY <1>1, <2>4, <2>5, <2>6, <4>1, <5>1 DEF Larger
      <4>2. QED
        BY <4>1
    <3>2. QED
      BY <1>1, <2>3, <2>4, <2>6, <3>1 DEF IsSize, Larger
  <2>8. QED
    BY <2>7, ViewSizeIs
<1>4. QED
  BY <1>1, <1>2, <1>3

(* mxf_file_size, which looks at the last dirty page alone, tells the size *)
(* of the file that the client sees, for every client.                     *)
THEOREM SizeIsRight == ASSUME FlushSucceeds PROVE Spec => []SizeIsExact
<1>1. RunInv /\ [Next]_vars => RunInv'
  BY NextRunInv
<1>2. RunInv => SizeIsExact
  BY SizeFromRun DEF SizeIsExact
<1>3. QED
  BY InitRunInv, <1>1, <1>2, PTL DEF Spec

-----------------------------------------------------------------------------
(* The target is reliable, and the client neither leaves holes nor writes  *)
(* what needs more pages than there are or a slot that was never filled.   *)
Reliable == Failures = {}
Careful  == /\ "unfit_write" \notin Calls /\ "blind_write" \notin Calls
            /\ "hole_write" \notin Calls

(* The phases of a call.                                                   *)
FlushFor(back) == pc = "flush" /\ fl.back = back
Marking  == pc = "mark" \/ FlushFor("mark")
Evicting == pc = "evict" \/ FlushFor("evict")
Loading  == pc = "load" \/ FlushFor("load")
Writing  == pc = "write" \/ Marking \/ Evicting \/ ReadingAhead

Phases ==
    /\ ReadingAhead => pc \in {"read", "ahead"} \/ Loading
    /\ pc = "ahead" => ReadingAhead

ClientPosition == IF ReadingAhead THEN wr.position ELSE position

(* A slot that holds bytes is the one of its page, and a dirty slot does.  *)
Placed ==
    \A i \in Slots :
        /\ pages[i].isDirty => pages[i].size > 0
        /\ pages[i].size > 0 => pages[i].page # -1 /\ pages[i].page % NumPages = i

(* Only the last page of the file is not full.                             *)
Ends ==
    \A i \in Slots : pages[i].size > 0 =>
        /\ EndOf(pages[i]) <= ViewSize
        /\ pages[i].size < PageSize => EndOf(pages[i]) = ViewSize

(* A clean slot holds what the target has there.                           *)
CleanTrue ==
    \A i \in Slots : pages[i].size > 0 /\ ~pages[i].isDirty =>
        /\ EndOf(pages[i]) <= target.size
        /\ \A o \in Offsets : o < pages[i].size /\ PageStart(pages[i].page) + o \in Watched =>
              cacheData[i][o] = target.bytes[PageStart(pages[i].page) + o]

(* The target has all of the file before the first dirty page.             *)
FromStart ==
    pages[firstDirtyPage].isDirty => PageStart(pages[firstDirtyPage].page) <= target.size

Filled == Placed /\ Ends /\ CleanTrue /\ FromStart

(* A write starts within the file, and its pages fit in the cache.         *)
WriteFits ==
    Writing => /\ ClientPosition <= ViewSize
               /\ wr.value \in Values
               /\ ClientPosition % PageSize = 0 \/ PagesOf(wr.rem) < NumPages

(* A slot without a page is the first, before anything was written, or one *)
(* that a write at the end of the file dropped and will fill.              *)
Dropped ==
    \A j \in Slots : pages[j].page = -1 =>
        /\ ~Writing => j = 0 /\ dirtyCount = 0
        /\ Writing =>
              /\ ~ReadingAhead
              /\ position = ViewSize /\ CurrentOffset = 0
              /\ Ahead(CurrentSlot, j) < PagesOf(wr.rem)
              /\ writingAtEOF \/ j = CurrentSlot

(* A slot that has a page and no bytes is the one being written, at the    *)
(* end of the file.                                                        *)
Claims ==
    \A i \in Slots : pages[i].page # -1 /\ pages[i].page % NumPages = i /\ pages[i].size = 0 =>
        Marking /\ i = CurrentSlot /\ position = ViewSize /\ CurrentOffset = 0

Marked  == Marking => pages[CurrentSlot].page = CurrentPage /\ wr.rem > 0
Evicts  == Evicting => position = ViewSize /\ CurrentOffset = 0 /\ writingAtEOF
Missing == Loading => ~Cached

(* The cache has all of the file from the current page on.                 *)
RestCached ==
    \A q \in Nat : CurrentPage <= q /\ PageStart(q) < ViewSize => pages[q % NumPages].page = q
AtEnd == writingAtEOF => ~ReadingAhead /\ RestCached

(* Reading ahead, the pages it has passed stay in the cache.               *)
PassedCached ==
    /\ position + rd.rem = wr.position + rd.count
    /\ rd.count = PageStart(PagesToWrite) /\ wr.rem > 0
    /\ wr.position <= position
    /\ \/ position = wr.position \/ CurrentOffset = 0 \/ rd.rem = 0
       \/ Cached /\ pages[CurrentSlot].size <= CurrentOffset
    /\ \A q \in Nat : wr.position \div PageSize <= q /\ q < CurrentPage => pages[q % NumPages].page = q
AheadRight ==
    /\ ReadingAhead => PassedCached
    /\ pc = "ahead" /\ rd.rem > 0 => eof /\ RestCached

Underway ==
    /\ Phases /\ WriteFits /\ Dropped /\ Claims
    /\ Marked /\ Evicts /\ Missing /\ AtEnd /\ AheadRight

ViewInv == RunInv /\ (pc = "aborted" \/ (Filled /\ Underway))

(* A step of the file that the client sees.                                *)
FileStep == [File!FileNext]_(File!fileVars)

-----------------------------------------------------------------------------
LEMMA Types ==
    ASSUME RunInv
    PROVE  /\ pages \in PageTable
           /\ \A i \in Slots : /\ pages[i].page \in Nat \cup {-1} /\ pages[i].size \in 0 .. PageSize
                               /\ pages[i].size \in Nat /\ pages[i].isDirty \in BOOLEAN
                               /\ pages[i].isDirty => pages[i].page \in Nat
           /\ cacheData \in [Slots -> [Offsets -> Bytes]]
           /\ target \in [size : Nat, bytes : [Watched -> Bytes]]
           /\ firstDirtyPage \in Slots /\ dirtyCount \in 0 .. NumPages /\ dirtyCount \in Nat
           /\ position \in Nat /\ eof \in BOOLEAN /\ writingAtEOF \in BOOLEAN
           /\ rd \in [count : Nat, rem : Nat, back : {"idle", "ahead"}]
           /\ fl \in [index : Slots, rem : Nat, back : {"idle", "load", "mark", "evict", "closed"}]
           /\ wr \in [count : Nat, rem : Nat, value : Bytes, position : Nat, eof : BOOLEAN]
           /\ ViewSize \in Nat /\ target.size \in Nat /\ target.size <= ViewSize
           /\ \A i \in Slots : pages[i].isDirty => EndOf(pages[i]) <= ViewSize
           /\ ViewSize = target.size \/ \E i \in Slots : pages[i].isDirty /\ ViewSize = EndOf(pages[i])
<1>1. IsSize(pages, target.size, ViewSize)
  BY ViewSizeIs
<1>2. QED
  BY <1>1, CacheAssumption DEF IsSize, RunInv, IInv, TypeOK, PageTable, Chained

(* Where the position is.                                                  *)
LEMMA Here ==
    ASSUME RunInv
    PROVE  /\ CurrentPage \in Nat /\ CurrentSlot \in Slots /\ CurrentOffset \in Offsets
           /\ CurrentSlot = CurrentPage % NumPages
           /\ position = PageStart(CurrentPage) + CurrentOffset
           /\ PageStart(CurrentPage) \in Nat
BY Types, Current, InPage, PageStarts DEF CurrentPage, CurrentSlot, CurrentOffset

(* Where the position is once it has moved on within the current page.     *)
LEMMA Onward ==
    ASSUME RunInv, NEW w \in Nat, position <= w, w <= PageStart(CurrentPage) + PageSize
    PROVE  \/ /\ w < PageStart(CurrentPage) + PageSize
              /\ w \div PageSize = CurrentPage /\ w % PageSize = w - PageStart(CurrentPage)
           \/ /\ w = PageStart(CurrentPage) + PageSize
              /\ w \div PageSize = CurrentPage + 1 /\ w % PageSize = 0
<1> DEFINE q == CurrentPage
<1>1. /\ q \in Nat /\ PageStart(q) \in Nat /\ position = PageStart(q) + CurrentOffset
      /\ CurrentOffset \in Nat /\ PageSize \in Nat \ {0}
  BY Here, CacheAssumption DEF Offsets
<1> HIDE DEF q
<1>2. PageStart(q) <= w /\ w <= PageStart(q) + PageSize
  BY <1>1 DEF q
<1>3. CASE w < PageStart(q) + PageSize
  BY <1>1, <1>2, <1>3, PageIs DEF q
<1>4. CASE w = PageStart(q) + PageSize
  <2> DEFINE r == q + 1
  <2>1. r \in Nat /\ PageStart(r) = w
    BY <1>1, <1>4, PageStarts
  <2> HIDE DEF r
  <2>2. PageStart(r) <= w /\ w < PageStart(r) + PageSize /\ w - PageStart(r) = 0
    BY <1>1, <2>1
  <2>3. w \div PageSize = r /\ w % PageSize = 0
    BY <2>1, <2>2, PageIs
  <2>4. QED
    BY <1>4, <2>3 DEF q, r
<1>5. QED
  BY <1>1, <1>2, <1>3, <1>4

(* A step that leaves the slots and the target alone leaves the file.      *)
LEMMA SameFile ==
    ASSUME UNCHANGED <<pages, cacheData, target, firstDirtyPage>>
    PROVE  /\ Filled => Filled'
           /\ ViewSize' = ViewSize /\ View' = View
<1>1. ViewSize' = ViewSize
  BY DEF ViewSize, PageEnd
<1>2. View' = View
  BY DEF View, ViewByte, InCache
<1>3. QED
  BY <1>1, <1>2 DEF Filled, Placed, Ends, CleanTrue, FromStart, EndOf

LEMMA StillHere ==
    ASSUME UNCHANGED <<pages, position>>
    PROVE  /\ CurrentPage' = CurrentPage /\ CurrentSlot' = CurrentSlot /\ CurrentOffset' = CurrentOffset
           /\ Cached' = Cached
           /\ ViewSize' = ViewSize => RestCached' = RestCached
BY DEF CurrentPage, CurrentSlot, CurrentOffset, Cached, RestCached

(* The slots are as when the cache was opened.                             *)
LEMMA InitView == Init => ViewInv /\ File!Open
<1> SUFFICES ASSUME Init PROVE ViewInv /\ File!Open
  OBVIOUS
<1>1. RunInv
  BY InitRunInv
<1>2. \A i \in Slots : /\ pages[i].page = (IF i = 0 THEN -1 ELSE 0)
                       /\ pages[i].size = 0 /\ ~pages[i].isDirty
  BY DEF Init
<1>3. /\ pc = "idle" /\ rd.back = "idle" /\ position = 0 /\ eof = FALSE
      /\ writingAtEOF = FALSE /\ dirtyCount = 0 /\ firstDirtyPage = 0
  BY DEF Init, NoRead
<1>4. ~Marking /\ ~Evicting /\ ~Loading /\ ~Writing /\ ~ReadingAhead
  BY <1>3 DEF Marking, Evicting, Loading, Writing, ReadingAhead, FlushFor
<1>5. NumPages \in Nat \ {0} /\ 0 % NumPages = 0
  BY CacheAssumption
<1>6. Filled
  BY <1>2, <1>3, CacheAssumption DEF Filled, Placed, Ends, CleanTrue, FromStart, Slots
<1>7. Claims
  BY <1>2, <1>5 DEF Claims
<1>8. Underway
  BY <1>2, <1>3, <1>4, <1>7 DEF Underway, Phases, WriteFits, Dropped, Marked, Evicts, Missing, AtEnd,
     AheadRight
<1>9. File!Open
  BY <1>1, <1>3, <1>4, Types DEF File!Open
<1>10. QED
  BY <1>1, <1>6, <1>8, <1>9 DEF ViewInv

(* Steps that change no more than the flush in progress.                   *)
LEMMA Waits ==
    ASSUME ViewInv, UNCHANGED <<pages, cacheData, target, firstDirtyPage, dirtyCount>>,
           UNCHANGED <<position, eof, writingAtEOF, wr, rd>>,
           pc # "aborted", pc' # "aborted",
           Marking' = Marking, Evicting' = Evicting, Loading' = Loading,
           (pc = "write") = (pc' = "write"), (pc = "read") = (pc' = "read"),
           (pc = "ahead") = (pc' = "ahead")
    PROVE  Filled' /\ Underway' /\ FileStep
<1>1. Filled /\ Underway
  BY DEF ViewInv
<1>2. Filled' /\ ViewSize' = ViewSize /\ View' = View
  BY <1>1, SameFile
<1>3. /\ CurrentPage' = CurrentPage /\ CurrentSlot' = CurrentSlot /\ CurrentOffset' = CurrentOffset
      /\ Cached' = Cached /\ RestCached' = RestCached
  BY <1>2, StillHere
<1>4. ReadingAhead' = ReadingAhead /\ ClientPosition' = ClientPosition /\ PagesToWrite' = PagesToWrite
  BY DEF ReadingAhead, ClientPosition, PagesToWrite
<1>5. Writing' = Writing
  BY <1>4 DEF Writing
<1>6. Phases' /\ WriteFits' /\ Dropped' /\ Claims'
  BY <1>1, <1>2, <1>3, <1>4, <1>5 DEF Underway, Phases, WriteFits, Dropped, Claims, Ahead
<1>7. Marked' /\ Evicts' /\ Missing' /\ AtEnd'
  BY <1>1, <1>2, <1>3, <1>4 DEF Underway, Marked, Evicts, Missing, AtEnd
<1>8. AheadRight'
  BY <1>1, <1>2, <1>3, <1>4 DEF Underway, AheadRight, PassedCached, PageStart
<1>9. FileStep
  BY <1>2, <1>4 DEF FileStep, File!fileVars, ReadingAhead
<1>10. QED
  BY <1>2, <1>6, <1>7, <1>8, <1>9 DEF Underway

LEMMA FlushWaits ==
    ASSUME ViewInv, FlushSkip \/ FlushReturns \/ (\E n \in Nat : Flush(n)) \/ Close
    PROVE  Filled' /\ Underway' /\ FileStep
<1>1. /\ UNCHANGED <<pages, cacheData, target, firstDirtyPage, dirtyCount>>
      /\ UNCHANGED <<position, eof, writingAtEOF, wr, rd>>
  BY DEF FlushSkip, FlushReturns, Flush, Close, cacheVars
<1>2. RunInv /\ fl \in [index : Slots, rem : Nat, back : {"idle", "load", "mark", "evict", "closed"}]
  BY Types DEF ViewInv
<1>3. /\ pc # "aborted" /\ pc' # "aborted"
      /\ Marking' = Marking /\ Evicting' = Evicting /\ Loading' = Loading
      /\ (pc = "write") = (pc' = "write") /\ (pc = "read") = (pc' = "read")
      /\ (pc = "ahead") = (pc' = "ahead")
  <2>1. CASE FlushSkip
    <3>1. pc = "flush" /\ pc' = "flush" /\ fl'.back = fl.back
      BY <1>2, <2>1 DEF FlushSkip, Flushing
    <3>2. QED
      BY <3>1 DEF Marking, Evicting, Loading, FlushFor
  <2>2. CASE FlushReturns
    BY <1>2, <2>2 DEF FlushReturns, Marking, Evicting, Loading, FlushFor
  <2>3. CASE (\E n \in Nat : Flush(n)) \/ Close
    <3>1. pc = "idle" /\ pc' = "flush" /\ fl'.back \in {"idle", "closed"}
      BY <2>3 DEF Flush, Close, StartFlush
    <3>2. QED
      BY <3>1 DEF Marking, Evicting, Loading, FlushFor
  <2>4. QED
    BY <2>1, <2>2, <2>3
<1>4. QED
  BY <1>1, <1>3, Waits

-----------------------------------------------------------------------------
(* Steps outside a write.                                                  *)
LEMMA Calm ==
    ASSUME ViewInv, UNCHANGED <<pages, cacheData, target, firstDirtyPage, dirtyCount>>,
           pc # "aborted", ~Writing, ~Writing',
           pc' # "ahead", Loading' => ~Cached', writingAtEOF' => RestCached'
    PROVE  /\ Filled' /\ Underway'
           /\ ViewSize' = ViewSize /\ View' = View
           /\ ~ReadingAhead /\ ~ReadingAhead'
           /\ ClientPosition = position /\ ClientPosition' = position'
<1>1. Filled /\ Underway
  BY DEF ViewInv
<1>2. Filled' /\ ViewSize' = ViewSize /\ View' = View
  BY <1>1, SameFile
<1>3. ~ReadingAhead /\ ~ReadingAhead' /\ ~Marking /\ ~Marking' /\ ~Evicting'
  BY DEF Writing
<1>4. Phases' /\ WriteFits' /\ Dropped' /\ Claims'
  BY <1>1, <1>3 DEF Underway, Phases, WriteFits, Dropped, Claims
<1>5. Marked' /\ Evicts' /\ Missing' /\ AtEnd' /\ AheadRight'
  BY <1>3 DEF Marked, Evicts, Missing, AtEnd, AheadRight
<1>6. QED
  BY <1>2, <1>3, <1>4, <1>5 DEF Underway, ClientPosition

LEMMA Idle ==
    ASSUME ViewInv, pc = "idle"
    PROVE  ~Writing /\ ~ReadingAhead /\ ~Loading
BY DEF ViewInv, Underway, Phases, Writing, Marking, Evicting, Loading, FlushFor

LEMMA ReadStep1 == ASSUME ViewInv, NEW n \in Nat, Read(n) PROVE Filled' /\ Underway' /\ FileStep
<1>1. /\ pc = "idle" /\ pc' = "read" /\ rd'.back = "idle"
      /\ UNCHANGED <<pages, cacheData, target, firstDirtyPage, dirtyCount>>
      /\ UNCHANGED <<position, eof, writingAtEOF>>
  BY DEF Read, cacheVars
<1>2. ~Writing /\ ~Writing' /\ ~Loading' /\ pc' # "ahead"
  BY <1>1, Idle DEF Writing, ReadingAhead, Marking, Evicting, Loading, FlushFor
<1>3. writingAtEOF' => RestCached'
  BY <1>1, SameFile, StillHere DEF ViewInv, Underway, AtEnd
<1>4. /\ Filled' /\ Underway' /\ ViewSize' = ViewSize /\ View' = View
      /\ ~ReadingAhead /\ ~ReadingAhead' /\ ClientPosition = position /\ ClientPosition' = position'
  BY <1>1, <1>2, <1>3, Calm
<1>5. FileStep
  BY <1>1, <1>4 DEF FileStep, File!fileVars
<1>6. QED
  BY <1>4, <1>5

LEMMA SeekStep == ASSUME ViewInv, NEW p \in Nat, pc = "idle", SeekTo(p) PROVE Filled' /\ Underway' /\ FileStep
<1>1. /\ pc' = "idle" /\ UNCHANGED <<rd, fl>> /\ writingAtEOF' = FALSE
      /\ UNCHANGED <<pages, cacheData, target, firstDirtyPage, dirtyCount>>
      /\ position' = p /\ eof' = FALSE
  BY DEF SeekTo, frames
<1>2. ~Writing /\ ~Writing' /\ ~Loading' /\ pc' # "ahead"
  BY <1>1, Idle DEF Writing, ReadingAhead, Marking, Evicting, Loading, FlushFor
<1>3. /\ Filled' /\ Underway' /\ ViewSize' = ViewSize /\ View' = View
      /\ ~ReadingAhead /\ ~ReadingAhead' /\ ClientPosition = position /\ ClientPosition' = position'
  BY <1>1, <1>2, Calm
<1>4. File!Seek(position')
  BY <1>1, <1>3 DEF File!Seek
<1>5. FileStep
  BY <1>3, <1>4 DEF FileStep, File!FileNext
<1>6. QED
  BY <1>3, <1>5

(* A page of the file that the target does not have whole is a dirty page. *)
LEMMA NotThere ==
    ASSUME RunInv, Filled, pc \notin {"flush", "aborted"}, NEW q \in Nat,
           target.size < PageStart(q) + PageSize, target.size < ViewSize, PageStart(q) < ViewSize
    PROVE  pages[q % NumPages].isDirty /\ pages[q % NumPages].page = q
<1>1. /\ RunInv /\ Filled
      /\ target.size < PageStart(q) + PageSize /\ target.size < ViewSize /\ PageStart(q) < ViewSize
  OBVIOUS
<1>2. /\ q \in Nat /\ PageStart(q) \in Nat
      /\ ViewSize \in Nat /\ target.size \in Nat /\ PageSize \in Nat /\ firstDirtyPage \in Slots
      /\ NumPages \in Nat \ {0} /\ dirtyCount \in Nat
  BY <1>1, PageStarts, Types, CacheAssumption
<1>4. PICK i \in Slots : pages[i].isDirty /\ ViewSize = EndOf(pages[i])
  BY <1>1, <1>2, Types
<1>5. PICK k \in 0 .. dirtyCount - 1 : i = RunSlot(k)
  BY <1>1, <1>4, RunPages
<1> DEFINE first == pages[RunSlot(0)].page
<1>6. 0 \in 0 .. dirtyCount - 1 /\ RunSlot(0) = firstDirtyPage
  <2>1. firstDirtyPage \in 0 .. NumPages - 1
    BY <1>2 DEF Slots
  <2>2. firstDirtyPage % NumPages = firstDirtyPage
    BY <1>2, <2>1
  <2>3. QED
    BY <1>2, <1>5, <2>1, <2>2 DEF RunSlot
<1>7. first \in Nat /\ pages[firstDirtyPage].isDirty /\ pages[i].page = first + k /\ pages[i].page \in Nat
  BY <1>1, <1>5, <1>6, RunPages
<1>8. PageStart(first) <= target.size /\ PageStart(first) \in Nat /\ PageStart(pages[i].page) \in Nat
  BY <1>1, <1>6, <1>7, PageStarts DEF Filled, FromStart
<1>9. first <= q
  <2>1. q < first => PageStart(q) + PageSize <= PageStart(first)
    BY <1>2, <1>7, PageStarts
  <2>2. PageSize > 0
    BY CacheAssumption
  <2> HIDE DEF first
  <2>3. QED
    BY <1>2, <1>7, <1>8, <2>1, <2>2
<1>10. q <= pages[i].page
  <2>1. pages[i].page < q => PageStart(pages[i].page) + PageSize <= PageStart(q)
    BY <1>2, <1>7, PageStarts
  <2>2. pages[i].size \in 0 .. PageSize
    BY <1>1, Types
  <2>3. QED
    BY <1>1, <1>2, <1>4, <1>7, <1>8, <2>1, <2>2 DEF EndOf
<1> HIDE DEF first
<1>11. q - first \in 0 .. dirtyCount - 1
  BY <1>2, <1>5, <1>7, <1>9, <1>10
<1> DEFINE s == RunSlot(q - first)
<1>12. s \in Slots /\ pages[s].isDirty /\ pages[s].page = q
  <2>1. pages[s].page = first + (q - first) /\ s \in Slots /\ pages[s].isDirty
    BY <1>1, <1>11, RunPages DEF first
  <2>2. QED
    BY <1>2, <1>7, <2>1
<1>13. q % NumPages = s
  BY <1>1, <1>2, <1>12 DEF Filled, Placed
<1>14. QED
  BY <1>12, <1>13

(* A page that the cache misses, and that the target does not reach, is    *)
(* past the end of the file.                                               *)
LEMMA PastEnd ==
    ASSUME ViewInv, pc \notin {"flush", "aborted"}, ~Cached, target.size <= PageStart(CurrentPage)
    PROVE  ViewSize <= PageStart(CurrentPage)
<1>1. RunInv /\ Filled
  BY DEF ViewInv
<1>2. /\ CurrentPage \in Nat /\ CurrentSlot = CurrentPage % NumPages /\ PageStart(CurrentPage) \in Nat
      /\ ViewSize \in Nat /\ target.size \in Nat /\ PageSize \in Nat \ {0}
  BY <1>1, Here, Types, CacheAssumption
<1>3. SUFFICES ASSUME PageStart(CurrentPage) < ViewSize PROVE FALSE
  BY <1>2
<1>4. target.size < PageStart(CurrentPage) + PageSize /\ target.size < ViewSize
  BY <1>2, <1>3
<1>5. pages[CurrentPage % NumPages].page = CurrentPage
  BY <1>1, <1>2, <1>3, <1>4, NotThere
<1>6. QED
  BY <1>2, <1>5 DEF Cached

-----------------------------------------------------------------------------
(* Steps of a read.                                                        *)
LEMMA RestOn ==
    ASSUME RunInv, RestCached, UNCHANGED pages, ViewSize' = ViewSize,
           position' \in Nat, position <= position'
    PROVE  RestCached'
<1>1. CurrentPage \in Nat /\ CurrentPage' \in Nat /\ position \in Nat /\ PageSize \in Nat \ {0}
  BY Types, Here, InPage, CacheAssumption DEF CurrentPage
<1>2. CurrentPage <= CurrentPage'
  BY <1>1, DivUp DEF CurrentPage
<1>3. QED
  BY <1>1, <1>2 DEF RestCached

(* A step of a read ahead that leaves the slots alone.                     *)
LEMMA AheadCalm ==
    ASSUME ViewInv, UNCHANGED <<pages, cacheData, target, firstDirtyPage, dirtyCount>>,
           UNCHANGED <<writingAtEOF, wr>>, ReadingAhead, ReadingAhead',
           pc # "aborted", pc' = "read" \/ pc' = "ahead" \/ Loading', ~Marking', ~Evicting',
           Loading' => ~Cached', PassedCached',
           pc' = "ahead" /\ rd'.rem > 0 => eof' /\ RestCached'
    PROVE  Filled' /\ Underway' /\ FileStep
<1>1. Filled /\ Underway
  BY DEF ViewInv
<1>2. Filled' /\ ViewSize' = ViewSize /\ View' = View
  BY <1>1, SameFile
<1>3. Writing /\ Writing' /\ ClientPosition' = ClientPosition /\ ~Marking
  BY <1>1 DEF Writing, ClientPosition, Underway, Phases, Marking, Loading, FlushFor
<1>4. Phases'
  BY DEF Phases
<1>5. WriteFits' /\ Dropped' /\ Claims'
  BY <1>1, <1>2, <1>3 DEF Underway, WriteFits, Dropped, Claims
<1>6. Marked' /\ Evicts' /\ Missing' /\ AtEnd' /\ AheadRight'
  BY <1>1 DEF Underway, Marked, Evicts, Missing, AtEnd, AheadRight
<1>7. FileStep
  BY <1>2, <1>3 DEF FileStep, File!fileVars, ClientPosition
<1>8. QED
  BY <1>2, <1>4, <1>5, <1>6, <1>7 DEF Underway

(* In a read, the current page has bytes when it is in the cache.          *)
LEMMA CachedHolds ==
    ASSUME ViewInv, pc = "read", Cached
    PROVE  /\ pages[CurrentSlot].size > 0 /\ pages[CurrentSlot].page = CurrentPage
           /\ EndOf(pages[CurrentSlot]) = PageStart(CurrentPage) + pages[CurrentSlot].size
           /\ EndOf(pages[CurrentSlot]) <= ViewSize
           /\ pages[CurrentSlot].size < PageSize => EndOf(pages[CurrentSlot]) = ViewSize
<1>1. RunInv /\ Filled /\ Underway
  BY DEF ViewInv
<1>2. /\ CurrentSlot \in Slots /\ CurrentSlot = CurrentPage % NumPages /\ CurrentPage \in Nat
      /\ pages[CurrentSlot].page = CurrentPage /\ pages[CurrentSlot].size \in Nat
  BY <1>1, Here, Types DEF Cached
<1>3. ~Marking
  BY DEF Marking, FlushFor
<1>4. pages[CurrentSlot].size > 0
  BY <1>1, <1>2, <1>3 DEF Underway, Claims
<1>5. QED
  BY <1>1, <1>2, <1>4 DEF Filled, Ends, EndOf

LEMMA Copied ==
    ASSUME ViewInv, ReadCached
    PROVE  /\ UNCHANGED <<pages, cacheData, target, firstDirtyPage, dirtyCount>>
           /\ UNCHANGED <<writingAtEOF, wr, fl, pc, eof>>
           /\ pc = "read" /\ Cached /\ rd'.back = rd.back /\ rd'.count = rd.count
           /\ position' \in (position + 1) .. ViewSize
           /\ rd'.rem \in Nat /\ position' + rd'.rem = position + rd.rem
           /\ position' <= PageStart(CurrentPage) + pages[CurrentSlot].size
           /\ rd'.rem = 0 \/ position' = PageStart(CurrentPage) + pages[CurrentSlot].size
<1>1. /\ UNCHANGED <<pages, cacheData, target, firstDirtyPage, dirtyCount>>
      /\ UNCHANGED <<writingAtEOF, wr, fl, pc, eof>>
      /\ pc = "read" /\ Cached /\ rd.rem > 0 /\ CurrentOffset < pages[CurrentSlot].size
  BY DEF ReadCached
<1> DEFINE s == pages[CurrentSlot].size
           n == Smaller(s - CurrentOffset, rd.rem)
<1>2. position' = position + n /\ rd' = [rd EXCEPT !.rem = rd.rem - n]
  BY DEF ReadCached
<1>3. /\ rd \in [count : Nat, rem : Nat, back : {"idle", "ahead"}]
      /\ CurrentPage \in Nat /\ CurrentOffset \in Nat /\ s \in Nat /\ ViewSize \in Nat
      /\ position \in Nat /\ position = PageStart(CurrentPage) + CurrentOffset
      /\ PageStart(CurrentPage) \in Nat
  BY Here, Types DEF ViewInv, Offsets
<1>4. PageStart(CurrentPage) + s <= ViewSize
  BY <1>1, CachedHolds
<1> HIDE DEF s
<1>5. n \in 1 .. rd.rem /\ n <= s - CurrentOffset /\ (n = rd.rem \/ n = s - CurrentOffset)
  BY <1>1, <1>3 DEF Smaller, s
<1> HIDE DEF n
<1>6. rd'.back = rd.back /\ rd'.count = rd.count /\ rd'.rem = rd.rem - n
  BY <1>2, <1>3
<1>7. QED
  BY <1>1, <1>2, <1>3, <1>4, <1>5, <1>6 DEF s

LEMMA ReadCachedStep == ASSUME ViewInv, ReadCached PROVE Filled' /\ Underway' /\ FileStep
<1>1. /\ UNCHANGED <<pages, cacheData, target, firstDirtyPage, dirtyCount>>
      /\ UNCHANGED <<writingAtEOF, wr, fl, pc, eof>>
      /\ pc = "read" /\ Cached /\ rd'.back = rd.back /\ rd'.count = rd.count
      /\ position' \in (position + 1) .. ViewSize
      /\ rd'.rem \in Nat /\ position' + rd'.rem = position + rd.rem
      /\ position' <= PageStart(CurrentPage) + pages[CurrentSlot].size
      /\ rd'.rem = 0 \/ position' = PageStart(CurrentPage) + pages[CurrentSlot].size
  BY Copied
<1>2. RunInv /\ Underway /\ ~Marking' /\ ~Evicting' /\ ~Loading' /\ ~Marking /\ ~Evicting /\ ~Loading
      /\ ReadingAhead' = ReadingAhead
  BY <1>1 DEF ViewInv, Marking, Evicting, Loading, FlushFor, ReadingAhead
<1>3. /\ position \in Nat /\ position' \in Nat /\ position < position' /\ ViewSize \in Nat
      /\ CurrentPage \in Nat /\ CurrentSlot = CurrentPage % NumPages /\ PageStart(CurrentPage) \in Nat
      /\ pages[CurrentSlot].size \in 0 .. PageSize /\ CurrentSlot \in Slots /\ PageSize \in Nat \ {0}
      /\ position = PageStart(CurrentPage) + CurrentOffset /\ CurrentOffset \in Offsets
      /\ rd.rem \in Nat /\ rd.count \in Nat /\ wr.position \in Nat
  BY <1>1, <1>2, Types, Here, CacheAssumption
<1>4. CASE ~ReadingAhead
  <2>1. ~Writing /\ ~Writing' /\ ViewSize' = ViewSize
    BY <1>1, <1>2, <1>4, SameFile DEF Writing
  <2>2. writingAtEOF' => RestCached'
    BY <1>1, <1>2, <1>3, <2>1, RestOn DEF Underway, AtEnd
  <2>3. /\ Filled' /\ Underway' /\ View' = View
        /\ ~ReadingAhead' /\ ClientPosition = position /\ ClientPosition' = position'
    BY <1>1, <1>2, <2>1, <2>2, Calm
  <2>4. File!ReadPiece
    BY <1>1, <1>4, <2>1, <2>3 DEF File!ReadPiece
  <2>5. QED
    BY <2>3, <2>4 DEF FileStep, File!FileNext
<1>5. CASE ReadingAhead
  <2>1. PassedCached
    BY <1>2, <1>5 DEF Underway, AheadRight
  <2>2. \/ CurrentPage' = CurrentPage /\ CurrentOffset' = position' - PageStart(CurrentPage)
        \/ CurrentPage' = CurrentPage + 1 /\ CurrentOffset' = 0
    <3> DEFINE w == position'
    <3>1. w \in Nat /\ position <= w /\ w <= PageStart(CurrentPage) + PageSize
      BY <1>1, <1>3
    <3>2. \/ w \div PageSize = CurrentPage /\ w % PageSize = w - PageStart(CurrentPage)
          \/ w \div PageSize = CurrentPage + 1 /\ w % PageSize = 0
      <4> HIDE DEF w
      <4> QED BY <1>2, <3>1, Onward
    <3>3. QED
      BY <3>2 DEF CurrentPage, CurrentOffset
  <2>3. PassedCached'
    <3>1. position' + rd'.rem = wr'.position + rd'.count
      BY <1>1, <2>1 DEF PassedCached
    <3>2. rd'.count = (PageStart(PagesToWrite))' /\ wr'.rem > 0
      BY <1>1, <2>1 DEF PassedCached, PageStart, PagesToWrite
    <3>3. wr'.position <= position'
      BY <1>1, <1>3, <2>1 DEF PassedCached
    <3>4. \/ CurrentOffset' = 0 \/ rd'.rem = 0
          \/ Cached' /\ pages'[CurrentSlot'].size <= CurrentOffset'
      <4>1. SUFFICES ASSUME rd'.rem # 0, CurrentPage' = CurrentPage,
                            CurrentOffset' = position' - PageStart(CurrentPage)
                     PROVE  Cached' /\ pages'[CurrentSlot'].size <= CurrentOffset'
        BY <2>2
      <4>2. CurrentSlot' = CurrentSlot
        BY <4>1 DEF CurrentSlot
      <4>3. pages[CurrentSlot].size <= position' - PageStart(CurrentPage)
        BY <1>1, <1>3, <4>1
      <4>4. QED
        BY <1>1, <4>1, <4>2, <4>3 DEF Cached
    <3>5. \A q \in Nat : wr'.position \div PageSize <= q /\ q < CurrentPage' => pages'[q % NumPages].page = q
      BY <1>1, <1>3, <2>1, <2>2 DEF PassedCached, Cached
    <3>6. QED
      BY <3>1, <3>2, <3>3, <3>4, <3>5 DEF PassedCached
  <2>4. QED
    BY <1>1, <1>2, <1>5, <2>3, AheadCalm
<1>6. QED
  BY <1>4, <1>5

LEMMA ReadMissStep == ASSUME ViewInv, ReadMiss PROVE Filled' /\ Underway' /\ FileStep
<1>1. /\ pc = "read" /\ pc' = "flush" /\ fl'.back = "load" /\ ~Cached
      /\ UNCHANGED <<pages, cacheData, target, firstDirtyPage, dirtyCount>>
      /\ UNCHANGED <<position, eof, writingAtEOF, wr, rd>>
  BY DEF ReadMiss, StartFlush, cacheVars
<1>2. Underway /\ ~Marking' /\ ~Evicting' /\ Loading' /\ ~Marking /\ ~Evicting /\ ~Loading
      /\ ReadingAhead' = ReadingAhead
  BY <1>1 DEF ViewInv, Marking, Evicting, Loading, FlushFor, ReadingAhead
<1>3. ViewSize' = ViewSize /\ Cached' = Cached /\ RestCached' = RestCached /\ CurrentPage' = CurrentPage
      /\ CurrentOffset' = CurrentOffset /\ CurrentSlot' = CurrentSlot /\ PagesToWrite' = PagesToWrite
  BY <1>1, SameFile, StillHere DEF PagesToWrite
<1>4. CASE ~ReadingAhead
  <2>1. ~Writing /\ ~Writing'
    BY <1>1, <1>2, <1>4 DEF Writing
  <2>2. writingAtEOF' => RestCached'
    BY <1>1, <1>2, <1>3 DEF Underway, AtEnd
  <2>3. /\ Filled' /\ Underway' /\ View' = View
        /\ ~ReadingAhead' /\ ClientPosition = position /\ ClientPosition' = position'
    BY <1>1, <1>3, <2>1, <2>2, Calm
  <2>4. QED
    BY <1>1, <1>2, <1>3, <1>4, <2>3 DEF FileStep, File!fileVars
<1>5. CASE ReadingAhead
  <2>1. PassedCached'
    BY <1>1, <1>2, <1>3, <1>5 DEF Underway, AheadRight, PassedCached, PageStart
  <2>2. QED
    BY <1>1, <1>2, <1>3, <1>5, <2>1, AheadCalm
<1>6. QED
  BY <1>4, <1>5

(* A read that comes back short has come to the end of the file.           *)
LEMMA ShortRead ==
    ASSUME ViewInv, Reliable, ReadReturns, rd.rem > 0
    PROVE  ViewSize <= position /\ RestCached
<1>1. /\ CurrentPage \in Nat /\ CurrentSlot = CurrentPage % NumPages /\ PageStart(CurrentPage) \in Nat
      /\ CurrentSlot \in Slots /\ PageSize \in Nat /\ ViewSize \in Nat /\ position \in Nat
      /\ position = PageStart(CurrentPage) + CurrentOffset /\ CurrentOffset \in 0 .. PageSize - 1
      /\ pages[CurrentSlot].size \in Nat
  BY Types, Here, CacheAssumption DEF ViewInv, Offsets
<1>2. CASE pc = "read" /\ Cached /\ CurrentOffset >= pages[CurrentSlot].size
  <2>1. pages[CurrentSlot].size < PageSize
    BY <1>1, <1>2
  <2>2. PageStart(CurrentPage) + pages[CurrentSlot].size = ViewSize
    BY <1>2, <2>1, CachedHolds
  <2>3. ASSUME NEW q \in Nat, CurrentPage <= q, PageStart(q) < ViewSize
        PROVE  pages[q % NumPages].page = q
    <3>1. CurrentPage < q => PageStart(CurrentPage) + PageSize <= PageStart(q)
      BY <1>1, PageStarts
    <3>2. PageStart(q) \in Nat
      BY PageStarts
    <3>3. q = CurrentPage
      BY <1>1, <2>1, <2>2, <2>3, <3>1, <3>2
    <3>4. QED
      BY <1>1, <1>2, <3>3 DEF Cached
  <2>4. QED
    BY <1>1, <1>2, <2>2, <2>3 DEF RestCached
<1>3. CASE pc = "load" /\ target.size <= PageStart(CurrentPage)
  <2>1. ~Cached
    BY <1>3 DEF ViewInv, Underway, Missing, Loading
  <2>2. ViewSize <= PageStart(CurrentPage)
    BY <1>3, <2>1, PastEnd
  <2>3. ASSUME NEW q \in Nat, CurrentPage <= q, PageStart(q) < ViewSize
        PROVE  FALSE
    <3>1. CurrentPage < q => PageStart(CurrentPage) + PageSize <= PageStart(q)
      BY <1>1, PageStarts
    <3>2. PageStart(q) \in Nat
      BY PageStarts
    <3>3. q = CurrentPage \/ CurrentPage < q
      BY <1>1, <2>3
    <3>4. QED
      BY <1>1, <2>2, <2>3, <3>1, <3>2, <3>3
  <2>4. QED
    BY <1>1, <2>2, <2>3 DEF RestCached
<1>4. QED
  BY <1>2, <1>3 DEF ReadReturns, Reliable, PageStart

LEMMA ReadReturnsStep ==
    ASSUME ViewInv, Reliable, ReadReturns PROVE Filled' /\ Underway' /\ FileStep
<1>1. /\ pc \in {"read", "load"} /\ pc' = rd.back /\ eof' = (rd.count > 0 /\ rd.rem > 0)
      /\ rd' = IF rd.back = "idle" THEN NoRead ELSE rd
      /\ UNCHANGED <<pages, cacheData, target, firstDirtyPage, dirtyCount>>
      /\ UNCHANGED <<position, writingAtEOF, wr, fl>>
  BY DEF ReadReturns
<1>2. Underway /\ RunInv /\ rd.back \in {"idle", "ahead"} /\ rd.rem \in Nat /\ rd.count \in Nat
      /\ wr.position \in Nat /\ position \in Nat
  BY <1>1, Types DEF ViewInv
<1>3. ViewSize' = ViewSize /\ Cached' = Cached /\ RestCached' = RestCached /\ CurrentPage' = CurrentPage
      /\ CurrentOffset' = CurrentOffset /\ CurrentSlot' = CurrentSlot /\ PagesToWrite' = PagesToWrite
  BY <1>1, SameFile, StillHere DEF PagesToWrite
<1>4. ~Marking' /\ ~Evicting' /\ ~Loading' /\ ~Marking /\ ~Evicting /\ pc' # "write"
  BY <1>1, <1>2 DEF Marking, Evicting, Loading, FlushFor
<1>5. CASE rd.back = "idle"
  <2>1. ~Writing /\ ~Writing' /\ rd'.back = "idle"
    BY <1>1, <1>4, <1>5 DEF Writing, ReadingAhead, NoRead
  <2>2. writingAtEOF' => RestCached'
    BY <1>1, <1>2, <1>3 DEF Underway, AtEnd
  <2>3. /\ Filled' /\ Underway' /\ View' = View /\ ~ReadingAhead /\ ~ReadingAhead'
        /\ ClientPosition = position /\ ClientPosition' = position'
    BY <1>1, <1>3, <1>4, <1>5, <2>1, <2>2, Calm
  <2>4. File!ReadReturns
    BY <1>1, <1>2, <1>3, <2>3, ShortRead DEF File!ReadReturns
  <2>5. QED
    BY <2>3, <2>4 DEF FileStep, File!FileNext
<1>6. CASE rd.back = "ahead"
  <2>1. ReadingAhead /\ ReadingAhead' /\ rd' = rd /\ pc' = "ahead"
    BY <1>1, <1>6 DEF ReadingAhead
  <2>2. PassedCached /\ PassedCached'
    BY <1>1, <1>2, <1>3, <2>1 DEF Underway, AheadRight, PassedCached, PageStart
  <2>3. rd'.rem > 0 => eof' /\ RestCached'
    <3>1. rd.rem > 0 => rd.count > 0
      BY <1>2, <2>2 DEF PassedCached
    <3>2. QED
      BY <1>1, <1>3, <2>1, <3>1, ShortRead
  <2>4. QED
    BY <1>1, <1>3, <1>4, <2>1, <2>2, <2>3, AheadCalm
<1>7. QED
  BY <1>2, <1>5, <1>6

-----------------------------------------------------------------------------
(* Steps that fill or drop slots.                                          *)
LEMMA PageStartSum ==
    \A p, q \in Nat : PageStart(p + q) = PageStart(p) + PageStart(q)
<1>1. SUFFICES ASSUME NEW p \in Nat, NEW q \in Nat
               PROVE  (p + q) * PageSize = p * PageSize + q * PageSize
  BY DEF PageStart
<1>2. QED
  BY CacheAssumption

LEMMA ViewSizeNext ==
    ASSUME RunInv', NEW m, IsSize(pages', target'.size, m)
    PROVE  ViewSize' = m
<1>1. pages' \in PageTable /\ target'.size \in Nat /\ \A i \in Slots : pages'[i].isDirty => pages'[i].page # -1
  BY DEF RunInv, IInv, TypeOK, Chained, PageTable
<1>2. ViewSize' = SizeOf(pages', target'.size)
  BY DEF ViewSize, SizeOf, PageEnd, EndOf, PageStart
<1>3. QED
  BY <1>1, <1>2, SizeIs

(* Through a clean slot, the target is seen.                               *)
LEMMA CleanSeen ==
    ASSUME RunInv, CleanTrue, NEW w \in Watched,
           ~pages[(w \div PageSize) % NumPages].isDirty
    PROVE  ViewByte(w) = target.bytes[w]
<1> DEFINE i == (w \div PageSize) % NumPages
<1>1. w \in Nat /\ w \div PageSize \in Nat /\ w % PageSize \in Offsets
      /\ w = PageStart(w \div PageSize) + (w % PageSize) /\ i \in Slots
  BY CacheAssumption, InPage, DivMod DEF Slots
<1>2. CASE InCache(w)
  <2>1. pages[i].page = w \div PageSize /\ w % PageSize < pages[i].size
    BY <1>2 DEF InCache
  <2>2. pages[i].size > 0
    BY <1>1, <2>1, Types DEF Offsets
  <2>3. PageStart(pages[i].page) + (w % PageSize) = w
    BY <1>1, <2>1
  <2>4. cacheData[i][w % PageSize] = target.bytes[w]
    BY <1>1, <2>1, <2>2, <2>3 DEF CleanTrue
  <2>5. QED
    BY <1>2, <2>4 DEF ViewByte
<1>3. QED
  BY <1>2 DEF ViewByte

(* What ReadLoad puts in the slots.                                        *)
LEMMA Loads ==
    ASSUME ViewInv, Reliable, ReadLoad
    PROVE  \E In :
        /\ In \subseteq Slots
        /\ \A i \in Slots \ In : pages'[i] = pages[i] /\ cacheData'[i] = cacheData[i]
        /\ PageStart(CurrentPage) < target.size
        /\ \A i \in In : \E k \in Nat :
              /\ i = CurrentSlot + k /\ k < PagesToRead
              /\ pages'[i].page = CurrentPage + k /\ pages'[i].isDirty = pages[i].isDirty
              /\ pages'[i].size \in 1 .. PageSize
              /\ EndOf(pages'[i]) <= target.size
              /\ pages'[i].size < PageSize => EndOf(pages'[i]) = target.size
              /\ \A o \in Offsets : o < pages'[i].size /\ PageStart(CurrentPage + k) + o \in Watched =>
                    cacheData'[i][o] = target.bytes[PageStart(CurrentPage + k) + o]
<1> DEFINE n == Smaller(target.size - CurrentPage * PageSize, PagesToRead * PageSize)
           Start(i) == (i - CurrentSlot) * PageSize
           In(i, o) == i >= CurrentSlot /\ Start(i) + o < n
           Byte(w) == IF w \in Watched THEN target.bytes[w] ELSE Junk
<1>1. /\ n > 0
      /\ pages' = [i \in Slots |->
             IF In(i, 0)
             THEN [page |-> CurrentPage + (i - CurrentSlot),
                   size |-> Smaller(n - Start(i), PageSize), isDirty |-> pages[i].isDirty]
             ELSE pages[i]]
      /\ cacheData' = [i \in Slots |-> [o \in Offsets |->
             IF In(i, o) THEN Byte(CurrentPage * PageSize + Start(i) + o) ELSE cacheData[i][o]]]
  BY DEF ReadLoad, Reliable
<1>2. /\ CurrentPage \in Nat /\ CurrentSlot \in Nat /\ PageStart(CurrentPage) \in Nat
      /\ PageSize \in Nat \ {0} /\ target.size \in Nat /\ PagesToRead \in Nat
      /\ PageStart(PagesToRead) \in Nat /\ Slots \subseteq Nat
      /\ pages \in PageTable /\ cacheData \in [Slots -> [Offsets -> Bytes]]
  <2>1. RunInv
    BY DEF ViewInv
  <2>2. TypeOK
    BY <2>1 DEF RunInv, IInv
  <2>3. PagesToRead \in Nat
    BY <2>2, PageCounts
  <2>4. Slots \subseteq Nat
    BY CacheAssumption DEF Slots
  <2>5. QED
    BY <2>1, <2>3, <2>4, Types, Here, PageStarts, CacheAssumption
<1>3. /\ n = Smaller(target.size - PageStart(CurrentPage), PageStart(PagesToRead)) /\ n \in Nat
      /\ n <= target.size - PageStart(CurrentPage) /\ n <= PageStart(PagesToRead)
      /\ n = target.size - PageStart(CurrentPage) \/ n = PageStart(PagesToRead)
  <2>1. n = Smaller(target.size - PageStart(CurrentPage), PageStart(PagesToRead))
    BY DEF PageStart
  <2> HIDE DEF n
  <2>2. QED
    BY <1>1, <1>2, <2>1 DEF Smaller
<1> HIDE DEF n
<1> DEFINE Slots0 == {i \in Slots : In(i, 0)}
<1>4. ASSUME NEW i \in Slots \ Slots0 PROVE pages'[i] = pages[i] /\ cacheData'[i] = cacheData[i]
  <2>1. i \in Slots /\ ~In(i, 0)
    BY <1>4
  <2>2. pages'[i] = pages[i]
    BY <1>1, <2>1
  <2>3. \A o \in Offsets : ~In(i, o)
    <3>1. i >= CurrentSlot => i - CurrentSlot \in Nat
      BY <1>2, <2>1
    <3>2. i >= CurrentSlot => Start(i) \in Nat
      BY <1>2, <3>1, ProductNat
    <3> DEFINE s == Start(i)
    <3>3. i >= CurrentSlot => ~(s + 0 < n)
      BY <2>1
    <3>4. ASSUME NEW o \in Offsets, i >= CurrentSlot PROVE ~(s + o < n)
      <4> HIDE DEF s
      <4> QED BY <1>2, <1>3, <3>2, <3>3, <3>4 DEF Offsets, s
    <3>5. QED
      BY <3>4
  <2>4. cacheData'[i] = [o \in Offsets |-> cacheData[i][o]]
    <3> HIDE DEF In
    <3> QED BY <1>1, <2>1, <2>3
  <2>5. QED
    BY <1>2, <2>1, <2>2, <2>4
<1>5. ASSUME NEW i \in Slots0
      PROVE  \E k \in Nat :
              /\ i = CurrentSlot + k /\ k < PagesToRead
              /\ pages'[i].page = CurrentPage + k /\ pages'[i].isDirty = pages[i].isDirty
              /\ pages'[i].size \in 1 .. PageSize
              /\ EndOf(pages'[i]) <= target.size
              /\ pages'[i].size < PageSize => EndOf(pages'[i]) = target.size
              /\ \A o \in Offsets : o < pages'[i].size /\ PageStart(CurrentPage + k) + o \in Watched =>
                    cacheData'[i][o] = target.bytes[PageStart(CurrentPage + k) + o]
  <2> DEFINE k == i - CurrentSlot
             size == Smaller(n - Start(i), PageSize)
  <2>1. i \in Slots /\ In(i, 0) /\ k \in Nat /\ i = CurrentSlot + k /\ Start(i) = PageStart(k)
    BY <1>2 DEF PageStart
  <2>2. pages'[i] = [page |-> CurrentPage + k, size |-> size, isDirty |-> pages[i].isDirty]
    BY <1>1, <2>1
  <2>3. PageStart(k) \in Nat /\ PageStart(k) < n
        /\ PageStart(CurrentPage + k) = PageStart(CurrentPage) + PageStart(k)
    <3>1. PageStart(k) \in Nat
      BY <2>1, PageStarts
    <3>2. PageStart(CurrentPage + k) = PageStart(CurrentPage) + PageStart(k)
      BY <1>2, <2>1, PageStartSum
    <3>3. PageStart(k) + 0 < n
      BY <2>1
    <3>4. QED
      BY <3>1, <3>2, <3>3
  <2>4. size = Smaller(n - PageStart(k), PageSize)
    BY <2>1
  <2> HIDE DEF size, k
  <2>5. size \in 1 .. PageSize /\ size <= n - PageStart(k) /\ (size < PageSize => size = n - PageStart(k))
    BY <1>2, <1>3, <2>3, <2>4 DEF Smaller
  <2>6. k < PagesToRead
    <3>1. k = PagesToRead => PageStart(k) = PageStart(PagesToRead)
      OBVIOUS
    <3>2. PagesToRead < k => PageStart(PagesToRead) + PageSize <= PageStart(k)
      BY <1>2, <2>1, PageStarts
    <3>3. QED
      BY <1>2, <1>3, <2>1, <2>3, <3>1, <3>2
  <2>7. PageStart(k) + PageSize <= PageStart(PagesToRead)
    BY <1>2, <2>1, <2>6, PageStarts
  <2>8. EndOf(pages'[i]) = PageStart(CurrentPage) + PageStart(k) + size
    BY <2>2, <2>3 DEF EndOf
  <2>9. EndOf(pages'[i]) <= target.size /\ (size < PageSize => EndOf(pages'[i]) = target.size)
    BY <1>2, <1>3, <2>3, <2>5, <2>7, <2>8
  <2>10. ASSUME NEW o \in Offsets, o < size, PageStart(CurrentPage + k) + o \in Watched
         PROVE  cacheData'[i][o] = target.bytes[PageStart(CurrentPage + k) + o]
    <3>1. PageStart(k) + o < n
      BY <1>2, <1>3, <2>3, <2>5, <2>10 DEF Offsets
    <3>2. In(i, o)
      BY <2>1, <3>1
    <3>3. CurrentPage * PageSize + Start(i) + o = PageStart(CurrentPage + k) + o
      BY <2>1, <2>3 DEF PageStart
    <3>4. cacheData'[i][o] = Byte(CurrentPage * PageSize + Start(i) + o)
      <4> HIDE DEF In, Byte
      <4> QED BY <1>1, <2>1, <3>2
    <3>5. QED
      BY <2>10, <3>3, <3>4
  <2>11. QED
    BY <2>1, <2>2, <2>5, <2>6, <2>9, <2>10
<1>6. PageStart(CurrentPage) < target.size
  BY <1>1, <1>2, <1>3
<1>7. Slots0 \subseteq Slots
  OBVIOUS
<1> HIDE DEF Slots0
<1>8. QED
  BY <1>4, <1>5, <1>6, <1>7

(* Where a read ahead misses, the pages that it has passed and those that  *)
(* it still wants have slots of their own.                                 *)
LEMMA AheadFits ==
    ASSUME ViewInv, pc = "load", ReadingAhead,
           NEW k \in Nat, k < PagesToRead,
           NEW q \in Nat, wr.position \div PageSize <= q, q < CurrentPage
    PROVE  q % NumPages # (CurrentPage + k) % NumPages
<1>1. RunInv /\ Underway /\ Loading
  BY DEF ViewInv, Loading
<1>2. PassedCached /\ ~Cached /\ WriteFits /\ Writing
  BY <1>1 DEF Underway, AheadRight, Missing, Writing
<1> DEFINE a == wr.position \div PageSize
           o == wr.position % PageSize
           wanted == PagesToWrite
<1>3. /\ CurrentPage \in Nat /\ PageSize \in Nat \ {0} /\ NumPages \in Nat \ {0}
      /\ position \in Nat /\ position = PageStart(CurrentPage) + CurrentOffset
      /\ rd.rem \in Nat /\ wr.position \in Nat /\ wr.rem \in Nat /\ PageStart(CurrentPage) \in Nat
  BY <1>1, Here, Types, CacheAssumption
<1>4. a \in Nat /\ o \in 0 .. PageSize - 1 /\ wr.position = PageStart(a) + o
  BY <1>3, InPage DEF Offsets
<1>5. PagesOf(wr.rem) \in Nat /\ wanted \in Nat /\ wanted <= NumPages /\ wanted <= PagesOf(wr.rem)
  <2>1. PagesOf(wr.rem) \in Nat
    BY <1>3, PagesOfIs
  <2>2. QED
    BY <1>3, <2>1 DEF PagesToWrite, Smaller
<1>6. o = 0 \/ wanted < NumPages
  BY <1>2, <1>3, <1>5 DEF WriteFits, ClientPosition
<1>7. k < PagesOf(rd.rem) /\ PagesOf(rd.rem) \in Nat
  <2>1. CurrentSlot \in Slots
    BY <1>1, Here
  <2>2. PagesOf(rd.rem) \in Nat
    BY <1>3, PagesOfIs
  <2>3. QED
    BY <1>3, <2>1, <2>2 DEF PagesToRead, Smaller, Slots
<1>8. rd.rem # 0
  BY <1>7, PagesOfIs
<1>9. position # wr.position
  BY <1>3 DEF CurrentPage
<1>10. CurrentOffset = 0 /\ position + rd.rem = wr.position + PageStart(wanted)
  BY <1>2, <1>8, <1>9 DEF PassedCached
<1> DEFINE more == IF o = 0 THEN 0 ELSE 1
<1> HIDE DEF a, o, wanted
<1>11. /\ PageStart(a) \in Nat /\ PageStart(wanted) \in Nat
       /\ PageStart(a + wanted) = PageStart(a) + PageStart(wanted)
       /\ PageStart(a + wanted + 1) = PageStart(a) + PageStart(wanted) + PageSize
  <2>1. a + wanted \in Nat
    BY <1>4, <1>5
  <2>2. PageStart(a + wanted) = PageStart(a) + PageStart(wanted)
    BY <1>4, <1>5, PageStartSum
  <2>3. QED
    BY <1>4, <1>5, <2>1, <2>2, PageStarts
<1>12. PageStart(CurrentPage) + rd.rem <= PageStart(a + wanted + more)
  <2>1. PageStart(CurrentPage) + rd.rem = PageStart(a) + o + PageStart(wanted)
    BY <1>3, <1>4, <1>10, <1>11
  <2>2. CASE o = 0
    <3>1. a + wanted + more = a + wanted
      BY <1>4, <1>5, <2>2
    <3>2. QED
      BY <1>3, <1>11, <2>1, <2>2, <3>1
  <2>3. CASE o # 0
    <3>1. a + wanted + more = a + wanted + 1
      BY <1>4, <1>5, <2>3
    <3>2. QED
      BY <1>3, <1>4, <1>11, <2>1, <3>1
  <2>4. QED
    BY <2>2, <2>3
<1>13. a + wanted + more \in Nat /\ a + wanted + more <= a + NumPages
  BY <1>3, <1>4, <1>5, <1>6
<1> HIDE DEF more
<1> DEFINE e == a + wanted + more
           left == e - CurrentPage
<1>14. CurrentPage < e
  <2>1. e \in Nat /\ PageStart(e) \in Nat
    BY <1>13, PageStarts
  <2>2. e < CurrentPage => PageStart(e) + PageSize <= PageStart(CurrentPage)
    BY <1>3, <2>1, PageStarts
  <2>3. e = CurrentPage => PageStart(e) = PageStart(CurrentPage)
    OBVIOUS
  <2>4. PageStart(CurrentPage) + rd.rem <= PageStart(e)
    BY <1>12
  <2> HIDE DEF e
  <2>5. QED
    BY <1>3, <1>8, <2>1, <2>2, <2>3, <2>4
<1>15. left \in Nat /\ PageStart(e) = PageStart(CurrentPage) + PageStart(left) /\ PageStart(left) \in Nat
  <2>1. left \in Nat /\ e = CurrentPage + left
    BY <1>3, <1>13, <1>14
  <2> HIDE DEF left, e
  <2>2. QED
    BY <1>3, <2>1, PageStartSum, PageStarts
<1>16. rd.rem <= PageStart(left)
  <2>1. PageStart(CurrentPage) + rd.rem <= PageStart(e)
    BY <1>12
  <2> HIDE DEF left, e
  <2>2. QED
    BY <1>3, <1>15, <2>1
<1>17. PagesOf(rd.rem) <= left
  <2> HIDE DEF left, e
  <2>1. PagesOf(rd.rem) <= PagesOf(PageStart(left))
    BY <1>3, <1>15, <1>16, PagesOfIs
  <2>2. PagesOf(PageStart(left)) = left
    BY <1>15, PagesOfIs
  <2>3. QED
    BY <2>1, <2>2
<1>18. CurrentPage + k < a + NumPages
  BY <1>3, <1>4, <1>7, <1>13, <1>15, <1>17
<1>19. a <= q
  BY DEF a
<1>20. q < CurrentPage + k /\ CurrentPage + k < q + NumPages /\ CurrentPage + k \in Nat
  BY <1>3, <1>4, <1>18, <1>19
<1>21. QED
  BY <1>20, SlotsApart

LEMMA ReadLoadStep ==
    ASSUME ViewInv, RunInv', Reliable, ReadLoad PROVE Filled' /\ Underway' /\ FileStep
<1>1. /\ pc = "load" /\ pc' = "read"
      /\ UNCHANGED <<position, eof, writingAtEOF, firstDirtyPage, dirtyCount, target, wr, rd, fl>>
  BY DEF ReadLoad, frames
<1>2. RunInv /\ Filled /\ Underway
  BY <1>1 DEF ViewInv
<1>3. PICK In :
        /\ In \subseteq Slots
        /\ \A i \in Slots \ In : pages'[i] = pages[i] /\ cacheData'[i] = cacheData[i]
        /\ PageStart(CurrentPage) < target.size
        /\ \A i \in In : \E k \in Nat :
              /\ i = CurrentSlot + k /\ k < PagesToRead
              /\ pages'[i].page = CurrentPage + k /\ pages'[i].isDirty = pages[i].isDirty
              /\ pages'[i].size \in 1 .. PageSize
              /\ EndOf(pages'[i]) <= target.size
              /\ pages'[i].size < PageSize => EndOf(pages'[i]) = target.size
              /\ \A o \in Offsets : o < pages'[i].size /\ PageStart(CurrentPage + k) + o \in Watched =>
                    cacheData'[i][o] = target.bytes[PageStart(CurrentPage + k) + o]
  BY Loads
<1>4. /\ CurrentPage \in Nat /\ CurrentSlot \in Nat /\ CurrentSlot = CurrentPage % NumPages
      /\ PageStart(CurrentPage) \in Nat /\ PageSize \in Nat \ {0} /\ NumPages \in Nat \ {0}
      /\ target.size \in Nat /\ ViewSize \in Nat /\ target.size <= ViewSize
      /\ firstDirtyPage \in Slots /\ Slots = 0 .. NumPages - 1
  BY <1>2, Types, Here, CacheAssumption DEF Slots
(* What is loaded, slot by slot.                                           *)
<1>5. ASSUME NEW i \in In
      PROVE  /\ i \in Slots /\ ~pages[i].isDirty /\ ~pages'[i].isDirty
             /\ pages'[i].size \in 1 .. PageSize
             /\ \E k \in Nat : /\ k < PagesToRead
                               /\ pages'[i].page = CurrentPage + k /\ i = (CurrentPage + k) % NumPages
             /\ pages'[i].page \in Nat /\ pages'[i].page % NumPages = i
             /\ EndOf(pages'[i]) <= target.size
             /\ pages'[i].size < PageSize => EndOf(pages'[i]) = target.size
             /\ \A o \in Offsets : o < pages'[i].size /\ PageStart(pages'[i].page) + o \in Watched =>
                   cacheData'[i][o] = target.bytes[PageStart(pages'[i].page) + o]
  <2>1. i \in Slots
    BY <1>3
  <2>2. PICK k \in Nat :
              /\ i = CurrentSlot + k /\ k < PagesToRead
              /\ pages'[i].page = CurrentPage + k /\ pages'[i].isDirty = pages[i].isDirty
              /\ pages'[i].size \in 1 .. PageSize
              /\ EndOf(pages'[i]) <= target.size
              /\ pages'[i].size < PageSize => EndOf(pages'[i]) = target.size
              /\ \A o \in Offsets : o < pages'[i].size /\ PageStart(CurrentPage + k) + o \in Watched =>
                    cacheData'[i][o] = target.bytes[PageStart(CurrentPage + k) + o]
    BY <1>3
  <2>3. ~pages[i].isDirty
    BY <1>1, <1>2, <1>4, <2>1, <2>2 DEF RunInv, Flushed, CleanAhead, Ahead
  <2>4. (CurrentPage % NumPages) + k < NumPages
    BY <1>4, <2>1, <2>2
  <2>5. (CurrentPage + k) % NumPages = i
    BY <1>4, <2>2, <2>4, SlotsOn
  <2>6. pages'[i].page \in Nat
    BY <1>4, <2>2
  <2>7. QED
    BY <2>1, <2>2, <2>3, <2>5, <2>6
<1>6. \A i \in Slots : /\ pages'[i].isDirty = pages[i].isDirty
                       /\ pages[i].isDirty => pages'[i] = pages[i] /\ i \notin In
  BY <1>2, <1>3, <1>5, Types
<1>7. ViewSize' = ViewSize
  <2>1. IsSize(pages, target.size, ViewSize)
    BY <1>2, ViewSizeIs
  <2>2. IsSize(pages', target'.size, ViewSize)
    BY <1>1, <1>6, <2>1 DEF IsSize
  <2>3. QED
    BY <2>2, ViewSizeNext
<1>8. Placed' /\ CleanTrue' /\ FromStart'
  <2>1. Placed'
    <3>1. ASSUME NEW i \in In
          PROVE  /\ pages'[i].isDirty => pages'[i].size > 0
                 /\ pages'[i].page # -1 /\ pages'[i].page % NumPages = i
      BY <1>5
    <3>2. QED
      BY <1>2, <1>3, <3>1 DEF Filled, Placed
  <2>2. CleanTrue'
    <3>1. ASSUME NEW i \in Slots, pages'[i].size > 0, ~pages'[i].isDirty
          PROVE  /\ EndOf(pages'[i]) <= target'.size
                 /\ \A o \in Offsets : o < pages'[i].size /\ PageStart(pages'[i].page) + o \in Watched =>
                       cacheData'[i][o] = target'.bytes[PageStart(pages'[i].page) + o]
      <4>1. CASE i \in In
        BY <1>1, <1>5, <4>1
      <4>2. CASE i \notin In
        BY <1>1, <1>2, <1>3, <3>1, <4>2 DEF Filled, CleanTrue
      <4>3. QED
        BY <4>1, <4>2
    <3>2. (\A i \in Slots : pages[i].size > 0 /\ ~pages[i].isDirty =>
              /\ EndOf(pages[i]) <= target.size
              /\ \A o \in Offsets : o < pages[i].size /\ PageStart(pages[i].page) + o \in Watched =>
                    cacheData[i][o] = target.bytes[PageStart(pages[i].page) + o])'
      BY <3>1 DEF EndOf, PageStart
    <3>3. QED
      BY <3>2 DEF CleanTrue
  <2>3. FromStart'
    BY <1>1, <1>2, <1>4, <1>6 DEF Filled, FromStart, PageStart
  <2>4. QED
    BY <2>1, <2>2, <2>3
(* A page that is loaded in part is the last one.                          *)
<1>9. Ends'
  <2>1. SUFFICES ASSUME NEW i \in Slots, pages'[i].size > 0
                 PROVE  /\ EndOf(pages'[i]) <= ViewSize
                        /\ pages'[i].size < PageSize => EndOf(pages'[i]) = ViewSize
    BY <1>7 DEF Ends, EndOf, PageStart
  <2>2. CASE i \notin In
    BY <1>2, <1>3, <2>1, <2>2 DEF Filled, Ends
  <2>3. CASE i \in In
    <3> DEFINE q == pages'[i].page
    <3>1. /\ q \in Nat /\ q % NumPages = i /\ ~pages[i].isDirty /\ pages'[i].size \in 1 .. PageSize
          /\ EndOf(pages'[i]) = PageStart(q) + pages'[i].size
          /\ EndOf(pages'[i]) <= target.size
          /\ pages'[i].size < PageSize => EndOf(pages'[i]) = target.size
      BY <1>5, <2>3 DEF EndOf
    <3>2. PageStart(q) \in Nat
      BY <3>1, PageStarts
    <3> HIDE DEF q
    <3>3. ASSUME pages'[i].size < PageSize, target.size < ViewSize PROVE FALSE
      <4>1. target.size < PageStart(q) + PageSize /\ PageStart(q) < ViewSize
        <5> DEFINE s == PageStart(q)
                   z == pages'[i].size
        <5>1. s \in Nat /\ z \in 1 .. PageSize /\ z < PageSize /\ target.size = s + z
          BY <3>1, <3>2, <3>3
        <5> HIDE DEF s, z
        <5>2. target.size < s + PageSize /\ s < ViewSize
          BY <1>4, <3>3, <5>1
        <5>3. QED
          BY <5>2 DEF s
      <4>2. pages[q % NumPages].isDirty
        BY <1>1, <1>2, <3>1, <3>3, <4>1, NotThere
      <4>3. QED
        BY <3>1, <4>2
    <3>4. EndOf(pages'[i]) <= ViewSize
      <4> DEFINE e == EndOf(pages'[i])
      <4>1. e \in Int
        <5> DEFINE s == PageStart(q)
                   z == pages'[i].size
        <5>1. s \in Nat /\ z \in 1 .. PageSize /\ e = s + z
          BY <3>1, <3>2
        <5> HIDE DEF s, z, e
        <5>2. QED
          BY <1>4, <5>1
      <4>2. e <= target.size
        BY <3>1
      <4> HIDE DEF e
      <4>3. e <= ViewSize
        BY <1>4, <4>1, <4>2
      <4>4. QED
        BY <4>3 DEF e
    <3>5. QED
      BY <1>4, <3>1, <3>3, <3>4
  <2>4. QED
    BY <2>2, <2>3
<1>10. Filled'
  BY <1>8, <1>9 DEF Filled
<1>11. View' = View
  <2>1. ASSUME NEW w \in Watched PROVE ViewByte(w)' = ViewByte(w)
    <3> DEFINE i == (w \div PageSize) % NumPages
    <3>1. /\ w \in Nat /\ w \div PageSize \in Nat /\ w % PageSize \in Offsets /\ i \in Slots
          /\ w = PageStart(w \div PageSize) + (w % PageSize)
      BY CacheAssumption, InPage, DivMod DEF Slots
    <3>2. CASE i \notin In
      BY <1>1, <1>3, <3>1, <3>2 DEF ViewByte, InCache
    <3>3. CASE i \in In
      <4>1. ViewByte(w) = target.bytes[w]
        BY <1>2, <1>5, <3>3, CleanSeen DEF Filled
      <4>2. CASE InCache(w)'
        <5>1. pages'[i].page = w \div PageSize /\ w % PageSize < pages'[i].size
          BY <4>2 DEF InCache
        <5>2. cacheData'[i][w % PageSize] = target.bytes[PageStart(pages'[i].page) + (w % PageSize)]
          BY <1>5, <3>1, <3>3, <5>1
        <5>3. QED
          BY <3>1, <4>1, <4>2, <5>1, <5>2 DEF ViewByte
      <4>3. QED
        BY <1>1, <4>1, <4>2 DEF ViewByte
    <3>4. QED
      BY <3>2, <3>3
  <2>2. QED
    BY <2>1 DEF View
(* The call in progress.                                                   *)
<1>12. /\ CurrentPage' = CurrentPage /\ CurrentSlot' = CurrentSlot /\ CurrentOffset' = CurrentOffset
       /\ PagesToWrite' = PagesToWrite /\ ReadingAhead' = ReadingAhead /\ ClientPosition' = ClientPosition
  BY <1>1 DEF CurrentPage, CurrentSlot, CurrentOffset, PagesToWrite, ReadingAhead, ClientPosition
<1>13. ~Marking /\ ~Marking' /\ ~Evicting /\ ~Evicting' /\ Loading /\ ~Loading'
       /\ Writing = ReadingAhead /\ Writing' = ReadingAhead'
  BY <1>1, <1>12 DEF Marking, Evicting, Loading, FlushFor, Writing, ReadingAhead
<1>14. Phases' /\ WriteFits'
  BY <1>1, <1>2, <1>7, <1>12, <1>13 DEF Underway, Phases, WriteFits
<1>15. Dropped'
  <2>1. \A j \in Slots : pages'[j].page = -1 => pages[j].page = -1
    <3>1. \A j \in In : pages'[j].page # -1
      BY <1>5
    <3>2. QED
      BY <1>3, <3>1
  <2>2. QED
    BY <1>1, <1>2, <1>12, <1>13, <2>1 DEF Underway, Dropped
<1>16. Claims'
  <2>1. \A i \in Slots : pages'[i].size = 0 => pages'[i] = pages[i]
    <3>1. \A i \in In : pages'[i].size # 0
      BY <1>5
    <3>2. QED
      BY <1>3, <3>1
  <2>2. QED
    BY <1>2, <1>13, <2>1 DEF Underway, Claims
<1>17. Marked' /\ Evicts' /\ Missing'
  BY <1>13 DEF Marked, Evicts, Missing
<1>18. ~writingAtEOF
  BY <1>2, <1>3, <1>4, <1>13 DEF Underway, AtEnd, RestCached, Missing, Cached
<1>19. AtEnd'
  BY <1>1, <1>18 DEF AtEnd
<1>20. AheadRight'
  <2>1. SUFFICES ASSUME ReadingAhead PROVE PassedCached'
    BY <1>1, <1>12 DEF AheadRight
  <2>2. PassedCached /\ ~Cached
    BY <1>2, <1>13, <2>1 DEF Underway, AheadRight, Missing
  <2>3. ASSUME NEW q \in Nat, wr.position \div PageSize <= q, q < CurrentPage
        PROVE  pages'[q % NumPages].page = q
    <3>1. pages[q % NumPages].page = q /\ q % NumPages \in Slots
      BY <1>4, <2>2, <2>3, DivMod DEF PassedCached
    <3>2. q % NumPages \notin In
      <4>1. SUFFICES ASSUME q % NumPages \in In PROVE FALSE
        OBVIOUS
      <4>2. PICK k \in Nat : k < PagesToRead /\ q % NumPages = (CurrentPage + k) % NumPages
        BY <1>5, <4>1
      <4>3. QED
        BY <1>1, <2>1, <2>3, <4>2, AheadFits
    <3>3. QED
      BY <1>3, <3>1, <3>2
  <2>4. QED
    BY <1>1, <1>12, <2>2, <2>3 DEF PassedCached, PageStart
<1>21. FileStep
  BY <1>1, <1>7, <1>11, <1>12 DEF FileStep, File!fileVars
<1>22. QED
  BY <1>10, <1>14, <1>15, <1>16, <1>17, <1>19, <1>20, <1>21 DEF Underway

-----------------------------------------------------------------------------
(* Steps of a write that move no byte.                                     *)
LEMMA WriteStep1 ==
    ASSUME ViewInv, Careful, NEW n \in Nat \ {0}, NEW v \in Values, Write(n, v)
    PROVE  Filled' /\ Underway' /\ FileStep
<1>1. /\ pc = "idle" /\ pc' = "write"
      /\ wr' = [count |-> n, rem |-> n, value |-> v, position |-> 0, eof |-> FALSE]
      /\ Fits(n) /\ ~Blind /\ position <= CacheFileSize
      /\ UNCHANGED <<pages, cacheData, target, firstDirtyPage, dirtyCount>>
      /\ UNCHANGED <<position, eof, writingAtEOF, rd, fl>>
  BY DEF Write, Careful, cacheVars
<1>2. RunInv /\ Underway /\ Filled
  BY <1>1 DEF ViewInv
<1>3. ~Writing /\ ~ReadingAhead /\ Writing' /\ ~ReadingAhead' /\ ~Marking' /\ ~Evicting' /\ ~Loading'
      /\ ~Marking
  BY <1>1, Idle DEF Writing, ReadingAhead, Marking, Evicting, Loading, FlushFor
<1>4. /\ Filled' /\ ViewSize' = ViewSize /\ View' = View
      /\ CurrentPage' = CurrentPage /\ CurrentSlot' = CurrentSlot /\ CurrentOffset' = CurrentOffset
      /\ RestCached' = RestCached /\ ClientPosition' = position /\ ClientPosition = position
  BY <1>1, <1>2, <1>3, SameFile, StillHere DEF ClientPosition
<1>5. position <= ViewSize
  BY <1>1, <1>2, SizeFromRun
<1>6. WriteFits'
  BY <1>1, <1>4, <1>5 DEF WriteFits, Fits, CurrentOffset, PagesOf
<1>7. Dropped'
  <2>1. SUFFICES ASSUME NEW j \in Slots, pages[j].page = -1
                 PROVE  position = ViewSize /\ CurrentOffset = 0 /\ j = CurrentSlot
                        /\ Ahead(CurrentSlot, j) < PagesOf(n)
    BY <1>1, <1>3, <1>4 DEF Dropped, Ahead, PagesOf
  <2>2. j = 0 /\ dirtyCount = 0
    BY <1>2, <1>3, <2>1 DEF Underway, Dropped
  <2>3. target.size = 0 /\ position \in Nat /\ NumPages \in Nat \ {0} /\ PageSize \in Nat \ {0}
    BY <1>1, <1>2, <2>1, <2>2, Types, CacheAssumption DEF Blind
  <2>4. CacheFileSize = 0
    BY <2>2, <2>3 DEF CacheFileSize
  <2>5. ViewSize = 0
    BY <1>1, <1>2, <2>4, SizeFromRun
  <2>6. position = 0
    BY <1>1, <2>3, <2>4
  <2>7. CurrentPage = 0 /\ CurrentOffset = 0 /\ CurrentSlot = 0
    BY <2>3, <2>6 DEF CurrentPage, CurrentOffset, CurrentSlot
  <2>8. PagesOf(n) > 0
    BY PagesOfIs
  <2>9. Ahead(0, 0) = 0
    BY DEF Ahead
  <2>10. QED
    BY <2>2, <2>5, <2>6, <2>7, <2>8, <2>9
<1>8. Phases' /\ Claims' /\ Marked' /\ Evicts' /\ Missing' /\ AtEnd' /\ AheadRight'
  BY <1>1, <1>2, <1>3, <1>4 DEF Underway, Phases, Claims, Marked, Evicts, Missing, AtEnd, AheadRight
<1>9. FileStep
  BY <1>1, <1>3, <1>4 DEF FileStep, File!fileVars
<1>10. QED
  BY <1>4, <1>6, <1>7, <1>8, <1>9 DEF Underway

LEMMA WriteReturnsStep == ASSUME ViewInv, WriteReturns PROVE Filled' /\ Underway' /\ FileStep
<1>1. /\ pc = "write" /\ pc' = "idle" /\ wr.rem = 0
      /\ UNCHANGED <<pages, cacheData, target, firstDirtyPage, dirtyCount>>
      /\ UNCHANGED <<position, eof, writingAtEOF, rd, fl>>
  BY DEF WriteReturns, cacheVars
<1>2. RunInv /\ Underway /\ Filled
  BY <1>1 DEF ViewInv
<1>3. Writing /\ ~ReadingAhead /\ ~Writing' /\ ~ReadingAhead' /\ ~Marking' /\ ~Evicting' /\ ~Loading'
      /\ ~Marking
  BY <1>1, <1>2 DEF Underway, Phases, Writing, ReadingAhead, Marking, Evicting, Loading, FlushFor
<1>4. /\ Filled' /\ ViewSize' = ViewSize /\ View' = View /\ RestCached' = RestCached
  BY <1>1, <1>2, SameFile, StillHere
<1>5. Dropped'
  <2>1. SUFFICES ASSUME NEW j \in Slots, pages[j].page = -1 PROVE FALSE
    BY <1>1 DEF Dropped
  <2>2. Ahead(CurrentSlot, j) < PagesOf(wr.rem)
    BY <1>2, <1>3, <2>1 DEF Underway, Dropped
  <2>3. Ahead(CurrentSlot, j) >= 0 /\ Ahead(CurrentSlot, j) \in Int
    BY <1>2, Here, CacheAssumption DEF Ahead, Slots
  <2>4. PagesOf(wr.rem) = 0
    BY <1>1, PagesOfIs
  <2>5. QED
    BY <2>2, <2>3, <2>4
<1>6. Phases' /\ Claims' /\ WriteFits' /\ Marked' /\ Evicts' /\ Missing' /\ AtEnd' /\ AheadRight'
  BY <1>1, <1>2, <1>3, <1>4 DEF Underway, Phases, Claims, WriteFits, Marked, Evicts, Missing, AtEnd,
     AheadRight
<1>7. FileStep
  BY <1>1, <1>3, <1>4 DEF FileStep, File!fileVars
<1>8. QED
  BY <1>4, <1>5, <1>6, <1>7 DEF Underway

LEMMA WriteMissStep == ASSUME ViewInv, WriteMiss PROVE Filled' /\ Underway' /\ FileStep
<1>1. /\ pc = "write" /\ pc' = "read" /\ wr.rem > 0 /\ ~Writable /\ ~writingAtEOF
      /\ wr' = [wr EXCEPT !.position = position, !.eof = eof]
      /\ rd' = [count |-> PagesToWrite * PageSize, rem |-> PagesToWrite * PageSize, back |-> "ahead"]
      /\ UNCHANGED <<pages, cacheData, target, firstDirtyPage, dirtyCount>>
      /\ UNCHANGED <<position, eof, writingAtEOF, fl>>
  BY DEF WriteMiss, cacheVars
<1>2. RunInv /\ Underway /\ Filled
  BY <1>1 DEF ViewInv
<1>3. Writing /\ ~ReadingAhead /\ Writing' /\ ReadingAhead' /\ ~Marking' /\ ~Evicting' /\ ~Loading'
      /\ ~Marking
  BY <1>1, <1>2 DEF Underway, Phases, Writing, ReadingAhead, Marking, Evicting, Loading, FlushFor
<1>4. /\ wr'.position = position /\ wr'.eof = eof /\ wr'.rem = wr.rem /\ wr'.value = wr.value
      /\ position \in Nat
  BY <1>1, <1>2, Types
<1>5. /\ Filled' /\ ViewSize' = ViewSize /\ View' = View
      /\ CurrentPage' = CurrentPage /\ ClientPosition' = position /\ ClientPosition = position
      /\ PagesToWrite' = PagesToWrite
  BY <1>1, <1>2, <1>3, <1>4, SameFile, StillHere DEF ClientPosition, PagesToWrite
<1>6. WriteFits'
  BY <1>2, <1>3, <1>4, <1>5 DEF Underway, WriteFits, PagesOf
<1>7. Dropped'
  BY <1>1, <1>2, <1>3 DEF Underway, Dropped, Writable
<1>8. PassedCached'
  <2>1. rd'.count = (PageStart(PagesToWrite))' /\ rd'.rem = rd'.count
    BY <1>1, <1>5 DEF PageStart
  <2>2. \A q \in Nat : ~(wr'.position \div PageSize <= q /\ q < CurrentPage')
    <3>1. wr'.position \div PageSize = CurrentPage /\ CurrentPage \in Nat
      BY <1>2, <1>4, Here DEF CurrentPage
    <3>2. QED
      BY <1>5, <3>1
  <2>3. QED
    BY <1>1, <1>4, <2>1, <2>2 DEF PassedCached
<1>9. Phases' /\ Claims' /\ Marked' /\ Evicts' /\ Missing' /\ AtEnd' /\ AheadRight'
  BY <1>1, <1>2, <1>3, <1>8 DEF Underway, Phases, Claims, Marked, Evicts, Missing, AtEnd, AheadRight
<1>10. FileStep
  BY <1>1, <1>3, <1>4, <1>5 DEF FileStep, File!fileVars
<1>11. QED
  BY <1>5, <1>6, <1>7, <1>9, <1>10 DEF Underway

LEMMA WriteAheadStep ==
    ASSUME ViewInv, WriteAhead \/ WriteAheadFails PROVE Filled' /\ Underway' /\ FileStep
<1>1. pc = "ahead" /\ RunInv /\ Underway /\ Filled
  BY DEF ViewInv, WriteAhead, WriteAheadFails
<1>2. ReadingAhead /\ PassedCached /\ (rd.rem > 0 => eof /\ RestCached) /\ ~writingAtEOF
  BY <1>1 DEF Underway, Phases, AheadRight, AtEnd
<1>3. /\ WriteAhead /\ pc' = "write" /\ rd' = NoRead
      /\ writingAtEOF' = (writingAtEOF \/ rd.rem > 0)
      /\ position' = wr.position /\ eof' = wr.eof
      /\ wr' = [wr EXCEPT !.position = 0, !.eof = FALSE]
      /\ UNCHANGED <<pages, cacheData, target, firstDirtyPage, dirtyCount>>
  BY <1>2 DEF WriteAhead, WriteAheadFails
<1>4. wr'.rem = wr.rem /\ wr'.value = wr.value /\ wr.position \in Nat
  BY <1>1, <1>3, Types
<1>5. Writing /\ Writing' /\ ~ReadingAhead' /\ ~Marking' /\ ~Evicting' /\ ~Loading' /\ ~Marking
  BY <1>1, <1>2, <1>3 DEF NoRead, Writing, ReadingAhead, Marking, Evicting, Loading, FlushFor
<1>6. /\ Filled' /\ ViewSize' = ViewSize /\ View' = View
      /\ ClientPosition' = wr.position /\ ClientPosition = wr.position
  BY <1>1, <1>2, <1>3, <1>5, SameFile DEF ClientPosition
<1>7. WriteFits' /\ Dropped'
  BY <1>1, <1>2, <1>3, <1>4, <1>5, <1>6 DEF Underway, WriteFits, Dropped, PagesOf
<1>8. AtEnd'
  <2>1. SUFFICES ASSUME rd.rem > 0 PROVE RestCached'
    BY <1>2, <1>3, <1>5 DEF AtEnd
  <2>2. CurrentPage' = wr.position \div PageSize /\ CurrentPage \in Nat
    BY <1>1, <1>3, Here DEF CurrentPage
  <2>3. ASSUME NEW q \in Nat, wr.position \div PageSize <= q, PageStart(q) < ViewSize
        PROVE  pages[q % NumPages].page = q
    <3>1. CASE q < CurrentPage
      BY <1>2, <2>3, <3>1 DEF PassedCached
    <3>2. CASE CurrentPage <= q
      BY <1>2, <2>1, <2>3, <3>2 DEF RestCached
    <3>3. QED
      BY <2>2, <3>1, <3>2
  <2>4. QED
    BY <1>3, <1>6, <2>2, <2>3 DEF RestCached, PageStart
<1>9. Phases' /\ Claims' /\ Marked' /\ Evicts' /\ Missing' /\ AheadRight'
  BY <1>1, <1>3, <1>5 DEF Underway, Phases, Claims, Marked, Evicts, Missing, AheadRight
<1>10. FileStep
  BY <1>2, <1>3, <1>5, <1>6 DEF FileStep, File!fileVars
<1>11. QED
  BY <1>6, <1>7, <1>8, <1>9, <1>10 DEF Underway

LEMMA WriteMissAtEOFStep == ASSUME ViewInv, WriteMissAtEOF PROVE Filled' /\ Underway' /\ FileStep
<1>1. /\ pc = "write" /\ pc' = "flush" /\ fl'.back = "evict" /\ ~Writable /\ writingAtEOF
      /\ UNCHANGED <<pages, cacheData, target, firstDirtyPage, dirtyCount>>
      /\ UNCHANGED <<position, eof, writingAtEOF, rd, wr>>
  BY DEF WriteMissAtEOF, StartFlush, cacheVars
<1>2. RunInv /\ Underway /\ Filled
  BY <1>1 DEF ViewInv
<1>3. Writing /\ ~ReadingAhead /\ Writing' /\ ~ReadingAhead' /\ ~Marking' /\ Evicting' /\ ~Loading'
      /\ ~Marking
  BY <1>1, <1>2 DEF Underway, Phases, Writing, ReadingAhead, Marking, Evicting, Loading, FlushFor
<1>4. /\ Filled' /\ ViewSize' = ViewSize /\ View' = View
      /\ CurrentPage' = CurrentPage /\ CurrentSlot' = CurrentSlot /\ CurrentOffset' = CurrentOffset
      /\ RestCached' = RestCached /\ ClientPosition' = position /\ ClientPosition = position
  BY <1>1, <1>2, <1>3, SameFile, StillHere DEF ClientPosition
<1>5. position = ViewSize /\ CurrentOffset = 0
  <2>1. /\ CurrentPage \in Nat /\ CurrentSlot = CurrentPage % NumPages /\ PageStart(CurrentPage) \in Nat
        /\ position = PageStart(CurrentPage) + CurrentOffset /\ CurrentOffset \in Nat /\ ViewSize \in Nat
    BY <1>2, Here, Types, CacheAssumption DEF Offsets
  <2>2. position <= ViewSize
    BY <1>2, <1>3, <1>4 DEF Underway, WriteFits
  <2>3. ~(PageStart(CurrentPage) < ViewSize)
    BY <1>1, <1>2, <2>1 DEF Underway, AtEnd, RestCached, Writable
  <2>4. QED
    BY <2>1, <2>2, <2>3
<1>6. WriteFits' /\ Dropped'
  BY <1>1, <1>2, <1>3, <1>4 DEF Underway, WriteFits, Dropped, PagesOf, Ahead
<1>7. Phases' /\ Claims' /\ Marked' /\ Evicts' /\ Missing' /\ AtEnd' /\ AheadRight'
  BY <1>1, <1>2, <1>3, <1>4, <1>5 DEF Underway, Phases, Claims, Marked, Evicts, Missing, AtEnd, AheadRight
<1>8. FileStep
  BY <1>1, <1>3, <1>4 DEF FileStep, File!fileVars
<1>9. QED
  BY <1>4, <1>6, <1>7, <1>8 DEF Underway

-----------------------------------------------------------------------------
(* Steps of a write that give up slots without bytes of their own.         *)
LEMMA Emptied ==
    ASSUME RunInv, RunInv', Filled, UNCHANGED <<cacheData, target, firstDirtyPage>>,
           \A j \in Slots : /\ pages'[j].isDirty = pages[j].isDirty
                            /\ pages'[j] = pages[j] \/ (~pages[j].isDirty /\ pages'[j].size = 0)
    PROVE  Filled' /\ ViewSize' = ViewSize /\ View' = View
<1>1. ViewSize' = ViewSize
  <2>1. IsSize(pages, target.size, ViewSize)
    BY ViewSizeIs
  <2>2. IsSize(pages', target'.size, ViewSize)
    <3>1. \A j \in Slots : pages[j].isDirty => pages'[j] = pages[j]
      OBVIOUS
    <3>2. QED
      BY <2>1, <3>1 DEF IsSize
  <2>3. QED
    BY <2>2, ViewSizeNext
<1>2. \A j \in Slots : pages'[j].size > 0 \/ pages'[j].isDirty => pages'[j] = pages[j]
  BY Types
<1>3. Filled'
  <2>1. Placed' /\ FromStart'
    BY <1>2, Types DEF Filled, Placed, FromStart, PageStart
  <2>2. Ends'
    BY <1>1, <1>2 DEF Filled, Ends, EndOf, PageStart
  <2>3. CleanTrue'
    BY <1>2 DEF Filled, CleanTrue, EndOf, PageStart
  <2>4. QED
    BY <2>1, <2>2, <2>3 DEF Filled
<1>4. View' = View
  <2>1. ASSUME NEW w \in Watched PROVE ViewByte(w)' = ViewByte(w)
    <3> DEFINE i == (w \div PageSize) % NumPages
    <3>1. i \in Slots /\ w % PageSize \in Nat
      BY CacheAssumption, InPage, DivMod DEF Slots, Offsets
    <3>2. CASE pages'[i] = pages[i]
      BY <3>2 DEF ViewByte, InCache
    <3>3. CASE ~pages[i].isDirty /\ pages'[i].size = 0
      <4>1. ViewByte(w) = target.bytes[w]
        BY <3>3, CleanSeen DEF Filled
      <4>2. ~InCache(w)'
        BY <3>1, <3>3 DEF InCache
      <4>3. QED
        BY <4>1, <4>2 DEF ViewByte
    <3>4. QED
      BY <3>1, <3>2, <3>3
  <2>2. QED
    BY <2>1 DEF View
<1>5. QED
  BY <1>1, <1>3, <1>4

LEMMA WriteGapStep == ASSUME ViewInv, RunInv', WriteGap PROVE Filled' /\ Underway' /\ FileStep
<1> DEFINE s == CurrentSlot
<1>1. /\ pc = "write" /\ pc' = "flush" /\ fl'.back = "mark" /\ wr.rem > 0 /\ Writable
      /\ pages' = [pages EXCEPT ![s] = Claimed(s)] /\ ~pages[s].isDirty
      /\ UNCHANGED <<cacheData, target, firstDirtyPage, dirtyCount>>
      /\ UNCHANGED <<position, eof, writingAtEOF, rd, wr>>
  BY DEF WriteGap, Gap, StartFlush
<1>2. RunInv /\ Underway /\ Filled
  BY <1>1 DEF ViewInv
<1>3. Writing /\ ~ReadingAhead /\ Writing' /\ ~ReadingAhead' /\ Marking' /\ ~Evicting' /\ ~Loading'
      /\ ~Marking
  BY <1>1, <1>2 DEF Underway, Phases, Writing, ReadingAhead, Marking, Evicting, Loading, FlushFor
<1>4. /\ s \in Slots /\ CurrentPage \in Nat /\ s = CurrentPage % NumPages
      /\ pages \in PageTable
  BY <1>2, Here, Types
<1>5. /\ \A j \in Slots \ {s} : pages'[j] = pages[j]
      /\ pages'[s].page = CurrentPage /\ ~pages'[s].isDirty /\ pages'[s].isDirty = pages[s].isDirty
      /\ \/ pages[s].page = CurrentPage /\ pages'[s] = pages[s]
         \/ pages[s].page = -1 /\ pages'[s].size = 0
  <2>1. pages'[s] = Claimed(s) /\ \A j \in Slots \ {s} : pages'[j] = pages[j]
    BY <1>1, <1>4 DEF PageTable
  <2>2. QED
    BY <1>1, <1>4, <2>1 DEF Claimed, Writable, PageTable
<1> HIDE DEF s
<1>6. \A j \in Slots : /\ pages'[j].isDirty = pages[j].isDirty
                       /\ pages'[j] = pages[j] \/ (~pages[j].isDirty /\ pages'[j].size = 0)
  BY <1>1, <1>4, <1>5
<1>7. Filled' /\ ViewSize' = ViewSize /\ View' = View
  BY <1>1, <1>2, <1>6, Emptied
<1>8. /\ CurrentPage' = CurrentPage /\ CurrentSlot' = CurrentSlot /\ CurrentOffset' = CurrentOffset
      /\ ClientPosition' = position /\ ClientPosition = position
  BY <1>1, <1>3 DEF CurrentPage, CurrentSlot, CurrentOffset, ClientPosition
<1>9. WriteFits' /\ Phases' /\ Evicts' /\ Missing' /\ AheadRight'
  BY <1>1, <1>2, <1>3, <1>7, <1>8 DEF Underway, WriteFits, Phases, Evicts, Missing, AheadRight, PagesOf
<1>10. Dropped'
  <2>1. \A j \in Slots : pages'[j].page = -1 => pages[j].page = -1
    BY <1>4, <1>5
  <2>2. QED
    BY <1>1, <1>2, <1>3, <1>7, <1>8, <2>1 DEF Underway, Dropped, PagesOf, Ahead
<1>11. Claims'
  <2>1. SUFFICES ASSUME NEW i \in Slots, pages'[i].page # -1, pages'[i].page % NumPages = i, pages'[i].size = 0
                 PROVE  i = CurrentSlot /\ position = ViewSize /\ CurrentOffset = 0
    BY <1>1, <1>3, <1>7, <1>8 DEF Claims
  <2>2. pages'[i] # pages[i]
    BY <1>2, <1>3, <2>1 DEF Underway, Claims
  <2>3. i = s /\ pages[s].page = -1
    BY <1>5, <2>2
  <2>4. QED
    BY <1>2, <1>3, <2>3 DEF Underway, Dropped, s
<1>12. Marked'
  BY <1>1, <1>5, <1>8 DEF Marked, s
<1>13. AtEnd'
  <2>1. SUFFICES ASSUME writingAtEOF PROVE RestCached'
    BY <1>1, <1>3 DEF AtEnd
  <2>2. ASSUME NEW q \in Nat, CurrentPage <= q, PageStart(q) < ViewSize PROVE pages'[q % NumPages].page = q
    <3>1. pages[q % NumPages].page = q
      BY <1>2, <2>1, <2>2 DEF Underway, AtEnd, RestCached
    <3>2. q % NumPages \in Slots
      BY CacheAssumption, DivMod DEF Slots
    <3>3. QED
      BY <1>5, <2>2, <3>1, <3>2
  <2>3. QED
    BY <1>7, <1>8, <2>2 DEF RestCached, PageStart
<1>14. FileStep
  BY <1>1, <1>3, <1>7, <1>8 DEF FileStep, File!fileVars
<1>15. QED
  BY <1>7, <1>9, <1>10, <1>11, <1>12, <1>13, <1>14 DEF Underway

LEMMA WriteEvictStep == ASSUME ViewInv, RunInv', WriteEvict PROVE Filled' /\ Underway' /\ FileStep
<1>1. /\ pc = "evict" /\ pc' = "write"
      /\ pages' = [i \in Slots |->
                     IF i \in Evicted THEN [page |-> -1, size |-> 0, isDirty |-> pages[i].isDirty]
                                      ELSE pages[i]]
      /\ UNCHANGED <<cacheData, target, firstDirtyPage, dirtyCount>>
      /\ UNCHANGED <<position, eof, writingAtEOF, rd, wr>>
  BY DEF WriteEvict, frames
<1>2. RunInv /\ Underway /\ Filled
  BY <1>1 DEF ViewInv
<1>3. Writing /\ ~ReadingAhead /\ Writing' /\ ~ReadingAhead' /\ ~Marking' /\ ~Evicting' /\ ~Loading'
      /\ Evicting /\ ~Marking
  BY <1>1, <1>2 DEF Underway, Phases, Writing, ReadingAhead, Marking, Evicting, Loading, FlushFor
<1>4. position = ViewSize /\ CurrentOffset = 0 /\ writingAtEOF
  BY <1>2, <1>3 DEF Underway, Evicts
<1>5. ASSUME NEW j \in Slots
      PROVE  \/ pages'[j] = pages[j]
             \/ /\ pages'[j].page = -1 /\ pages'[j].size = 0
                /\ ~pages[j].isDirty /\ pages'[j].isDirty = pages[j].isDirty
                /\ Ahead(CurrentSlot, j) < PagesToWrite
  <2>1. SUFFICES ASSUME j \in Evicted
                 PROVE  /\ Ahead(CurrentSlot, j) < PagesToWrite
                        /\ ~pages[j].isDirty
    BY <1>1
  <2>2. Ahead(CurrentSlot, j) < PagesToWrite
    BY <1>2, <2>1, EvictedAhead DEF RunInv, IInv
  <2>3. QED
    BY <1>1, <1>2, <2>2 DEF RunInv, Flushed, CleanAhead
<1>6. Filled' /\ ViewSize' = ViewSize /\ View' = View
  BY <1>1, <1>2, <1>5, Emptied
<1>7. /\ CurrentPage' = CurrentPage /\ CurrentSlot' = CurrentSlot /\ CurrentOffset' = CurrentOffset
      /\ ClientPosition' = position /\ ClientPosition = position
  BY <1>1, <1>3 DEF CurrentPage, CurrentSlot, CurrentOffset, ClientPosition
<1>8. WriteFits'
  BY <1>1, <1>2, <1>3, <1>6, <1>7 DEF Underway, WriteFits, PagesOf
<1>9. Dropped'
  <2>1. SUFFICES ASSUME NEW j \in Slots, pages'[j].page = -1
                 PROVE  Ahead(CurrentSlot, j) < PagesOf(wr.rem)
    BY <1>1, <1>3, <1>4, <1>6, <1>7 DEF Dropped, PagesOf, Ahead
  <2>2. CASE pages'[j] = pages[j]
    BY <1>2, <1>3, <2>1, <2>2 DEF Underway, Dropped
  <2>3. CASE Ahead(CurrentSlot, j) < PagesToWrite
    <3>1. PagesOf(wr.rem) \in Nat /\ NumPages \in Nat /\ CurrentSlot \in Slots
      BY <1>2, Types, Here, PagesOfIs, CacheAssumption
    <3>2. PagesToWrite \in Nat /\ PagesToWrite <= PagesOf(wr.rem)
      BY <3>1 DEF PagesToWrite, Smaller
    <3>3. Ahead(CurrentSlot, j) \in Int
      BY <3>1 DEF Ahead, Slots
    <3>4. QED
      BY <2>3, <3>1, <3>2, <3>3
  <2>4. QED
    BY <1>5, <2>2, <2>3
<1>10. Claims'
  BY <1>2, <1>3, <1>5 DEF Underway, Claims
<1>11. AtEnd'
  <2>1. ASSUME NEW q \in Nat, CurrentPage <= q, PageStart(q) < ViewSize PROVE FALSE
    <3>1. CurrentPage \in Nat /\ ViewSize = PageStart(CurrentPage) /\ PageSize \in Nat
      BY <1>2, <1>4, Here, CacheAssumption
    <3>2. CurrentPage < q => PageStart(CurrentPage) + PageSize <= PageStart(q)
      BY <3>1, PageStarts
    <3>3. PageStart(q) \in Nat /\ PageStart(CurrentPage) \in Nat
      BY <3>1, PageStarts
    <3>4. CurrentPage < q \/ CurrentPage = q
      BY <2>1, <3>1
    <3>5. QED
      BY <2>1, <3>1, <3>2, <3>3, <3>4
  <2>2. RestCached'
    BY <1>6, <1>7, <2>1 DEF RestCached, PageStart
  <2>3. QED
    BY <1>3, <2>2 DEF AtEnd
<1>12. Phases' /\ Marked' /\ Evicts' /\ Missing' /\ AheadRight'
  BY <1>1, <1>3 DEF Phases, Marked, Evicts, Missing, AheadRight
<1>13. FileStep
  BY <1>1, <1>3, <1>6, <1>7 DEF FileStep, File!fileVars
<1>14. QED
  BY <1>6, <1>8, <1>9, <1>10, <1>11, <1>12, <1>13 DEF Underway

-----------------------------------------------------------------------------
(* The copy of bytes into the current page.                                *)
LEMMA WriteIn ==
    ASSUME ViewInv, WriteCopy
    PROVE  /\ pc \in {"write", "mark"} /\ pc' = "write" /\ wr.rem > 0
           /\ pages[CurrentSlot].page \in {-1, CurrentPage}
           /\ Writing /\ Writing' /\ ~ReadingAhead /\ ~ReadingAhead' /\ ~Marking'
           /\ ~Evicting /\ ~Evicting' /\ ~Loading'
           /\ ClientPosition = position /\ ClientPosition' = position'
           /\ position <= ViewSize /\ wr.value \in Values
           /\ UNCHANGED <<eof, writingAtEOF, target, rd>>
<1>1. /\ pc \in {"write", "mark"} /\ pc' = "write" /\ UNCHANGED <<eof, writingAtEOF, target, rd>>
      /\ pc = "write" => wr.rem > 0 /\ Writable
  BY DEF WriteCopy
<1>2. Underway
  BY <1>1 DEF ViewInv
<1>3. /\ Writing /\ Writing' /\ ~ReadingAhead /\ ~ReadingAhead' /\ ~Marking'
      /\ ~Evicting /\ ~Evicting' /\ ~Loading'
      /\ pc = "mark" => Marking
  BY <1>1, <1>2 DEF Underway, Phases, Writing, Marking, Evicting, Loading, FlushFor, ReadingAhead
<1>4. ClientPosition = position /\ ClientPosition' = position'
  BY <1>3 DEF ClientPosition
<1>5. position <= ViewSize /\ wr.value \in Values
  BY <1>2, <1>3, <1>4 DEF Underway, WriteFits
<1>6. wr.rem > 0 /\ pages[CurrentSlot].page \in {-1, CurrentPage}
  BY <1>1, <1>2, <1>3 DEF Underway, Marked, Writable
<1>7. QED
  BY <1>1, <1>3, <1>4, <1>5, <1>6

(* The current page starts within the file, and has the bytes of the file  *)
(* up to the position.                                                     *)
LEMMA WriteOn ==
    ASSUME ViewInv, WriteCopy
    PROVE  LET old == pages[CurrentSlot].size
           IN  /\ old \in 0 .. PageSize /\ Claimed(CurrentSlot).size = old
               /\ CurrentOffset <= old
               /\ PageStart(CurrentPage) + old <= ViewSize
               /\ old < PageSize => PageStart(CurrentPage) + old = ViewSize
               /\ old > 0 => pages[CurrentSlot].page = CurrentPage
               /\ pages[CurrentSlot].isDirty => old > 0
<1> DEFINE s == CurrentSlot
           old == pages[s].size
<1>1. RunInv /\ Filled /\ Underway /\ Writing /\ pages[s].page \in {-1, CurrentPage}
      /\ position <= ViewSize
  BY WriteIn DEF ViewInv, WriteCopy
<1>2. /\ CurrentPage \in Nat /\ s \in Slots /\ s = CurrentPage % NumPages
      /\ CurrentOffset \in 0 .. PageSize - 1 /\ position = PageStart(CurrentPage) + CurrentOffset
      /\ PageStart(CurrentPage) \in Nat /\ old \in 0 .. PageSize /\ PageSize \in Nat \ {0}
      /\ ViewSize \in Nat /\ position \in Nat
  BY <1>1, Here, Types, CacheAssumption DEF Offsets
<1>3. old > 0 => pages[s].page = CurrentPage
  BY <1>1, <1>2 DEF Filled, Placed
<1>4. pages[s].isDirty => old > 0
  BY <1>1, <1>2 DEF Filled, Placed
<1>5. Claimed(s).size = old
  BY <1>1, <1>2, <1>3 DEF Claimed
<1>6. CASE old > 0
  <2>1. /\ PageStart(CurrentPage) + old <= ViewSize
        /\ old < PageSize => PageStart(CurrentPage) + old = ViewSize
    BY <1>1, <1>2, <1>3, <1>6 DEF Filled, Ends, EndOf
  <2> HIDE DEF s, old
  <2>2. CurrentOffset <= old
    BY <1>1, <1>2, <2>1
  <2>3. QED
    BY <1>2, <1>3, <1>4, <1>5, <2>1, <2>2 DEF s, old
<1>7. CASE old = 0
  <2>1. position = ViewSize /\ CurrentOffset = 0
    <3>1. CASE pages[s].page = -1
      BY <1>1, <1>2, <3>1 DEF Underway, Dropped
    <3>2. CASE pages[s].page = CurrentPage
      BY <1>1, <1>2, <1>7, <3>2 DEF Underway, Claims
    <3>3. QED
      BY <1>1, <3>1, <3>2
  <2> HIDE DEF s, old
  <2>2. QED
    BY <1>2, <1>3, <1>4, <1>5, <1>7, <2>1 DEF s, old
<1>8. QED
  BY <1>2, <1>6, <1>7

LEMMA WriteTakes ==
    ASSUME ViewInv, WriteCopy
    PROVE  \E n \in 1 .. PageSize :
        LET s == CurrentSlot
            new == pages'[s].size
            end == CurrentOffset + n
        IN  /\ n <= wr.rem /\ end <= PageSize /\ (n = wr.rem \/ end = PageSize)
            /\ position' = position + n
            /\ wr'.rem = wr.rem - n /\ wr'.value = wr.value
            /\ \A j \in Slots \ {s} : pages'[j] = pages[j] /\ cacheData'[j] = cacheData[j]
            /\ pages'[s].page = CurrentPage /\ pages'[s].isDirty
            /\ new = (IF pages[s].size >= end THEN pages[s].size ELSE end)
            /\ \A o \in Offsets : cacheData'[s][o] =
                  IF CurrentOffset <= o /\ o < end
                  THEN IF PageStart(CurrentPage) + o \in Watched THEN wr.value ELSE Junk
                  ELSE cacheData[s][o]
<1> DEFINE s == CurrentSlot
           n == Smaller(PageSize - CurrentOffset, wr.rem)
           Written(o) == CurrentOffset <= o /\ o < CurrentOffset + n
           Byte(o) == IF CurrentPage * PageSize + o \in Watched THEN wr.value ELSE Junk
<1>1. /\ pages' = [pages EXCEPT ![s] = [page |-> CurrentPage,
                                        size |-> Larger(Claimed(s).size, CurrentOffset + n),
                                        isDirty |-> TRUE]]
      /\ cacheData' = [cacheData EXCEPT ![s] =
                          [o \in Offsets |-> IF Written(o) THEN Byte(o) ELSE cacheData[s][o]]]
      /\ wr' = [wr EXCEPT !.rem = wr.rem - n]
      /\ position' = position + n
  BY DEF WriteCopy
<1>2. RunInv /\ wr.rem > 0 /\ Claimed(s).size = pages[s].size
  BY WriteIn, WriteOn DEF ViewInv
<1>3. /\ s \in Slots /\ CurrentOffset \in 0 .. PageSize - 1 /\ PageSize \in Nat \ {0}
      /\ pages \in PageTable /\ cacheData \in [Slots -> [Offsets -> Bytes]]
      /\ wr \in [count : Nat, rem : Nat, value : Bytes, position : Nat, eof : BOOLEAN]
  BY <1>2, Here, Types, CacheAssumption DEF Offsets
<1>4. /\ n \in 1 .. PageSize /\ n <= wr.rem /\ CurrentOffset + n <= PageSize
      /\ n = wr.rem \/ CurrentOffset + n = PageSize
  BY <1>2, <1>3 DEF Smaller
<1> HIDE DEF n
<1>5. wr'.rem = wr.rem - n /\ wr'.value = wr.value
  BY <1>1, <1>3
<1> HIDE DEF s
<1>6. \A j \in Slots \ {s} : pages'[j] = pages[j] /\ cacheData'[j] = cacheData[j]
  <2> HIDE DEF Written, Byte
  <2> QED BY <1>1, <1>3 DEF PageTable
<1>7. pages'[s] = [page |-> CurrentPage, size |-> Larger(pages[s].size, CurrentOffset + n), isDirty |-> TRUE]
  BY <1>1, <1>2, <1>3 DEF PageTable
<1>8. cacheData'[s] = [o \in Offsets |-> IF Written(o) THEN Byte(o) ELSE cacheData[s][o]]
  <2> HIDE DEF Written, Byte
  <2> QED BY <1>1, <1>3
<1>9. ASSUME NEW o \in Offsets
      PROVE  cacheData'[s][o] = IF CurrentOffset <= o /\ o < CurrentOffset + n
                                THEN IF PageStart(CurrentPage) + o \in Watched THEN wr.value ELSE Junk
                                ELSE cacheData[s][o]
  BY <1>8 DEF PageStart
<1>10. QED
  BY <1>1, <1>4, <1>5, <1>6, <1>7, <1>9 DEF s, Larger

(* What is known of the copy of n bytes: the page from old to new bytes.   *)
Takes(n, old, new) ==
    /\ n \in 1 .. PageSize /\ n <= wr.rem /\ CurrentOffset + n <= PageSize
    /\ n = wr.rem \/ CurrentOffset + n = PageSize
    /\ position' = position + n
    /\ wr'.rem = wr.rem - n /\ wr'.value = wr.value
    /\ old \in 0 .. PageSize /\ new \in 1 .. PageSize
    /\ new = (IF old >= CurrentOffset + n THEN old ELSE CurrentOffset + n)
    /\ pages[CurrentSlot].size = old /\ pages'[CurrentSlot].size = new
    /\ CurrentOffset <= old
    /\ PageStart(CurrentPage) + old <= ViewSize
    /\ old < PageSize => PageStart(CurrentPage) + old = ViewSize
    /\ old > 0 => pages[CurrentSlot].page = CurrentPage
    /\ pages[CurrentSlot].isDirty => old > 0
    /\ \A j \in Slots \ {CurrentSlot} : pages'[j] = pages[j] /\ cacheData'[j] = cacheData[j]
    /\ pages'[CurrentSlot].page = CurrentPage /\ pages'[CurrentSlot].isDirty
    /\ \A o \in Offsets : cacheData'[CurrentSlot][o] =
          IF CurrentOffset <= o /\ o < CurrentOffset + n
          THEN IF PageStart(CurrentPage) + o \in Watched THEN wr.value ELSE Junk
          ELSE cacheData[CurrentSlot][o]
    /\ ViewSize' = (IF ViewSize >= position' THEN ViewSize ELSE position')

LEMMA WriteTaken ==
    ASSUME ViewInv, RunInv', WriteCopy
    PROVE  \E n, old, new : Takes(n, old, new)
<1> DEFINE s == CurrentSlot
           old == pages[s].size
           new == pages'[s].size
           m == IF ViewSize >= position' THEN ViewSize ELSE position'
<1>1. PICK n \in 1 .. PageSize :
        /\ n <= wr.rem /\ CurrentOffset + n <= PageSize /\ (n = wr.rem \/ CurrentOffset + n = PageSize)
        /\ position' = position + n
        /\ wr'.rem = wr.rem - n /\ wr'.value = wr.value
        /\ \A j \in Slots \ {s} : pages'[j] = pages[j] /\ cacheData'[j] = cacheData[j]
        /\ pages'[s].page = CurrentPage /\ pages'[s].isDirty
        /\ new = (IF old >= CurrentOffset + n THEN old ELSE CurrentOffset + n)
        /\ \A o \in Offsets : cacheData'[s][o] =
              IF CurrentOffset <= o /\ o < CurrentOffset + n
              THEN IF PageStart(CurrentPage) + o \in Watched THEN wr.value ELSE Junk
              ELSE cacheData[s][o]
  BY WriteTakes
<1>2. /\ old \in 0 .. PageSize /\ CurrentOffset <= old
      /\ PageStart(CurrentPage) + old <= ViewSize
      /\ old < PageSize => PageStart(CurrentPage) + old = ViewSize
      /\ old > 0 => pages[s].page = CurrentPage
      /\ pages[s].isDirty => old > 0
  BY WriteOn
<1>3. RunInv /\ position <= ViewSize /\ target' = target
  BY WriteIn DEF ViewInv, WriteCopy
<1>4. /\ CurrentPage \in Nat /\ s \in Slots /\ CurrentOffset \in 0 .. PageSize - 1
      /\ position = PageStart(CurrentPage) + CurrentOffset
      /\ PageStart(CurrentPage) \in Nat /\ PageSize \in Nat \ {0}
      /\ ViewSize \in Nat /\ position \in Nat /\ target.size \in Nat /\ target.size <= ViewSize
      /\ \A i \in Slots : pages[i].isDirty => EndOf(pages[i]) <= ViewSize
      /\ ViewSize = target.size \/ \E i \in Slots : pages[i].isDirty /\ ViewSize = EndOf(pages[i])
      /\ \A i \in Slots : pages[i].isDirty => pages[i].page \in Nat /\ pages[i].size \in Nat
  BY <1>3, Here, Types, CacheAssumption DEF Offsets
<1>5. EndOf(pages'[s]) = PageStart(CurrentPage) + new
  BY <1>1 DEF EndOf
<1>6. pages[s].isDirty => EndOf(pages[s]) = PageStart(CurrentPage) + old
  BY <1>2 DEF EndOf
<1> HIDE DEF s, old, new
<1>7. new \in 1 .. PageSize
  BY <1>1, <1>2, <1>4
<1>8. IsSize(pages', target'.size, m)
  <2>1. m \in Nat /\ target'.size <= m /\ ViewSize <= m /\ position' <= m
    BY <1>1, <1>3, <1>4
  <2>2. PageStart(CurrentPage) + new <= m
    BY <1>1, <1>2, <1>4, <2>1
  <2>3. ASSUME NEW i \in Slots, pages'[i].isDirty PROVE EndOf(pages'[i]) <= m
    <3>1. CASE i = s
      BY <1>5, <2>2, <3>1
    <3>2. CASE i # s
      <4>1. pages'[i] = pages[i] /\ pages[i].isDirty
        BY <1>1, <2>3, <3>2
      <4>2. EndOf(pages[i]) <= ViewSize
        BY <1>4, <4>1
      <4>3. EndOf(pages[i]) \in Int
        <5>1. pages[i].page \in Nat /\ pages[i].size \in Nat
          BY <1>4, <4>1
        <5>2. PageStart(pages[i].page) \in Nat
          BY <5>1, PageStarts
        <5>3. QED
          BY <5>1, <5>2 DEF EndOf
      <4> DEFINE e == EndOf(pages[i])
      <4>4. e \in Int /\ e <= ViewSize
        BY <4>2, <4>3
      <4> HIDE DEF m, e
      <4>5. e <= m
        BY <1>4, <2>1, <4>4
      <4>6. QED
        BY <4>1, <4>5 DEF e
    <3>3. QED
      BY <3>1, <3>2
  <2>4. m = target'.size \/ \E i \in Slots : pages'[i].isDirty /\ m = EndOf(pages'[i])
    <3>1. CASE ViewSize < position'
      <4>1. m = PageStart(CurrentPage) + new
        BY <1>1, <1>2, <1>4, <3>1
      <4>2. QED
        BY <1>1, <1>4, <1>5, <4>1
    <3>2. CASE position' <= ViewSize
      <4>1. m = ViewSize
        BY <1>1, <1>4, <3>2
      <4>2. CASE ViewSize = target.size
        BY <1>3, <4>1, <4>2
      <4>3. ASSUME NEW i \in Slots, pages[i].isDirty, ViewSize = EndOf(pages[i])
            PROVE  \E k \in Slots : pages'[k].isDirty /\ m = EndOf(pages'[k])
        <5>1. CASE i # s
          BY <1>1, <4>1, <4>3, <5>1
        <5>2. CASE i = s
          <6>1. ViewSize = PageStart(CurrentPage) + old
            BY <1>6, <4>3, <5>2
          <6>2. m = PageStart(CurrentPage) + new
            BY <1>1, <1>2, <1>4, <1>7, <2>2, <4>1, <6>1
          <6>3. QED
            BY <1>1, <1>4, <1>5, <6>2
        <5>3. QED
          BY <5>1, <5>2
      <4>4. QED
        BY <1>4, <4>2, <4>3
    <3>3. QED
      BY <1>1, <1>4, <3>1, <3>2
  <2> HIDE DEF m
  <2>5. QED
    BY <2>1, <2>3, <2>4 DEF IsSize
<1>9. ViewSize' = m
  <2> HIDE DEF m
  <2> QED BY <1>8, ViewSizeNext
<1>10. Takes(n, old, new)
  BY <1>1, <1>2, <1>7, <1>9 DEF Takes, s, old, new
<1>11. QED
  BY <1>10

(* The copy leaves the slots right: the file ends where it did, or in the  *)
(* page written.                                                           *)
LEMMA WriteFills ==
    ASSUME ViewInv, WriteCopy, NEW n, NEW old, NEW new, Takes(n, old, new)
    PROVE  Filled'
<1> DEFINE s == CurrentSlot
           here == PageStart(CurrentPage)
<1>1. /\ RunInv /\ Filled /\ target' = target /\ pages[s].page \in {-1, CurrentPage}
      /\ pc \notin {"flush", "aborted"} /\ position <= ViewSize
  BY WriteIn DEF ViewInv
<1>2. /\ CurrentPage \in Nat /\ s \in Slots /\ s = CurrentPage % NumPages
      /\ CurrentOffset \in 0 .. PageSize - 1 /\ position = here + CurrentOffset
      /\ here \in Nat /\ PageSize \in Nat \ {0} /\ ViewSize \in Nat /\ position \in Nat
      /\ firstDirtyPage \in Slots /\ dirtyCount \in Nat /\ target.size \in Nat
  BY <1>1, Here, Types, CacheAssumption DEF Offsets
<1>3. /\ n \in 1 .. PageSize /\ CurrentOffset + n <= PageSize /\ position' = position + n
      /\ old \in 0 .. PageSize /\ new \in 1 .. PageSize
      /\ new = (IF old >= CurrentOffset + n THEN old ELSE CurrentOffset + n)
      /\ pages[s].size = old /\ pages'[s].size = new
      /\ here + old <= ViewSize
      /\ old < PageSize => here + old = ViewSize
      /\ old > 0 => pages[s].page = CurrentPage
      /\ pages[s].isDirty => old > 0
      /\ \A j \in Slots \ {s} : pages'[j] = pages[j] /\ cacheData'[j] = cacheData[j]
      /\ pages'[s].page = CurrentPage /\ pages'[s].isDirty
      /\ ViewSize' = (IF ViewSize >= position' THEN ViewSize ELSE position')
  BY DEF Takes
<1>4. EndOf(pages'[s]) = here + new
  BY <1>3 DEF EndOf
<1> HIDE DEF s, here
<1>5. Placed'
  <2>1. pages'[s].size > 0 /\ pages'[s].page # -1 /\ pages'[s].page % NumPages = s
    BY <1>2, <1>3
  <2>2. \A j \in Slots : \/ j = s
                         \/ /\ pages'[j].isDirty => pages'[j].size > 0
                            /\ pages'[j].size > 0 => pages'[j].page # -1 /\ pages'[j].page % NumPages = j
    BY <1>1, <1>3 DEF Filled, Placed
  <2>3. QED
    BY <2>1, <2>2 DEF Placed
<1>6. ASSUME NEW j \in Slots \ {s}, pages[j].size > 0, pages[j].size < PageSize
      PROVE  position' <= ViewSize
  <2>1. SUFFICES ASSUME ViewSize < position' PROVE FALSE
    BY <1>2, <1>3
  <2> DEFINE q == pages[j].page
             z == pages[j].size
             w == ViewSize
  <2>2. /\ q \in Nat /\ q % NumPages = j /\ PageStart(q) + z = w /\ z \in 1 .. PageSize - 1
    <3>1. q # -1 /\ q % NumPages = j /\ EndOf(pages[j]) = w
      BY <1>1, <1>6 DEF Filled, Placed, Ends
    <3>2. q \in Nat \cup {-1} /\ z \in Nat
      BY <1>1, <1>6, Types
    <3>3. QED
      BY <1>2, <1>6, <3>1, <3>2 DEF EndOf
  <2>3. PageStart(q) \in Nat
    BY <2>2, PageStarts
  <2> HIDE DEF q, z, w
  <2>4. w \in Nat /\ PageStart(q) <= w /\ w < PageStart(q) + PageSize
    BY <1>2, <2>2, <2>3 DEF w
  <2>5. w \div PageSize = q
    BY <2>2, <2>4, PageIs
  <2> DEFINE c == CurrentPage
  <2>6. c \in Nat /\ PageStart(c) <= w /\ w < PageStart(c) + PageSize
    BY <1>1, <1>2, <1>3, <2>1 DEF w, here
  <2> HIDE DEF c
  <2>7. w \div PageSize = c
    BY <2>4, <2>6, PageIs
  <2>8. j = s
    BY <1>2, <2>2, <2>5, <2>7 DEF c
  <2>9. QED
    BY <2>8
<1>7. Ends'
  <2>1. SUFFICES ASSUME NEW j \in Slots, pages'[j].size > 0
                 PROVE  /\ EndOf(pages'[j]) <= ViewSize'
                        /\ pages'[j].size < PageSize => EndOf(pages'[j]) = ViewSize'
    BY DEF Ends, EndOf, PageStart
  <2>2. CASE j = s
    <3>1. here + new <= ViewSize' /\ (new < PageSize => here + new = ViewSize')
      BY <1>2, <1>3
    <3>2. QED
      BY <1>3, <1>4, <2>2, <3>1
  <2>3. CASE j # s
    <3> DEFINE e == EndOf(pages[j])
               m == ViewSize'
    <3>1. pages'[j] = pages[j] /\ e <= ViewSize /\ (pages[j].size < PageSize => e = ViewSize)
      BY <1>1, <1>3, <2>1, <2>3 DEF Filled, Ends
    <3>2. e \in Int
      <4>1. pages[j].page \in Nat /\ pages[j].size \in Nat
        BY <1>1, <2>1, <3>1, Types DEF Filled, Placed
      <4>2. PageStart(pages[j].page) \in Nat
        BY <4>1, PageStarts
      <4>3. QED
        BY <4>1, <4>2 DEF EndOf
    <3>3. ViewSize <= m /\ m \in Int
      BY <1>2, <1>3
    <3>4. pages[j].size < PageSize => ViewSize = m
      BY <1>2, <1>3, <1>6, <2>1, <2>3, <3>1
    <3> HIDE DEF e, m
    <3>5. e <= m /\ (pages[j].size < PageSize => e = m)
      BY <1>2, <3>1, <3>2, <3>3, <3>4
    <3>6. QED
      BY <3>1, <3>5 DEF e, m
  <2>4. QED
    BY <2>2, <2>3
<1>8. CleanTrue'
  <2>1. ASSUME NEW j \in Slots, pages'[j].size > 0, ~pages'[j].isDirty
        PROVE  /\ EndOf(pages'[j]) <= target'.size
               /\ \A o \in Offsets : o < pages'[j].size /\ PageStart(pages'[j].page) + o \in Watched =>
                     cacheData'[j][o] = target'.bytes[PageStart(pages'[j].page) + o]
    <3>1. pages'[j] = pages[j] /\ cacheData'[j] = cacheData[j]
      BY <1>3, <2>1
    <3>2. QED
      BY <1>1, <2>1, <3>1 DEF Filled, CleanTrue
  <2>2. (\A i \in Slots : pages[i].size > 0 /\ ~pages[i].isDirty =>
            /\ EndOf(pages[i]) <= target.size
            /\ \A o \in Offsets : o < pages[i].size /\ PageStart(pages[i].page) + o \in Watched =>
                  cacheData[i][o] = target.bytes[PageStart(pages[i].page) + o])'
    BY <2>1 DEF EndOf, PageStart
  <2>3. QED
    BY <2>2 DEF CleanTrue
<1>9. FromStart'
  <2>1. firstDirtyPage' = IF dirtyCount = 0 THEN s ELSE firstDirtyPage
    BY DEF WriteCopy, s
  <2>2. SUFFICES PageStart(pages'[firstDirtyPage'].page) <= target.size
    BY <1>1 DEF FromStart, PageStart
  <2>3. CASE dirtyCount = 0
    <3>1. ViewSize = target.size
      BY <1>1, <1>2, <2>3, SizeFromRun DEF CacheFileSize
    <3>2. here <= target.size
      BY <1>1, <1>2, <3>1
    <3>3. QED
      BY <1>3, <2>1, <2>3, <3>2 DEF here
  <2>4. CASE dirtyCount > 0
    <3>1. RunSlot(0) = firstDirtyPage
      <4>1. firstDirtyPage \in 0 .. NumPages - 1 /\ NumPages \in Nat \ {0}
        BY <1>2, CacheAssumption DEF Slots
      <4>2. QED
        BY <4>1 DEF RunSlot
    <3>2. pages[firstDirtyPage].isDirty
      BY <1>1, <1>2, <2>4, <3>1, RunPages
    <3>3. PageStart(pages[firstDirtyPage].page) <= target.size
      BY <1>1, <3>2 DEF Filled, FromStart
    <3>4. pages'[firstDirtyPage].page = pages[firstDirtyPage].page
      BY <1>2, <1>3, <3>2
    <3>5. QED
      BY <1>2, <2>1, <2>4, <3>3, <3>4
  <2>5. QED
    BY <1>2, <2>3, <2>4
<1>10. QED
  BY <1>5, <1>7, <1>8, <1>9 DEF Filled

(* The client sees the bytes written, and the others as they were.         *)
LEMMA WriteSeen ==
    ASSUME ViewInv, WriteCopy, NEW n, NEW old, NEW new, Takes(n, old, new)
    PROVE  FileStep
<1> DEFINE s == CurrentSlot
           here == PageStart(CurrentPage)
<1>1. /\ RunInv /\ target' = target /\ pages[s].page \in {-1, CurrentPage} /\ eof' = eof
      /\ ~ReadingAhead /\ ~ReadingAhead' /\ wr.value \in Values
  BY WriteIn DEF ViewInv, WriteCopy
<1>2. /\ CurrentPage \in Nat /\ s \in Slots /\ s = CurrentPage % NumPages
      /\ CurrentOffset \in 0 .. PageSize - 1 /\ position = here + CurrentOffset
      /\ here \in Nat /\ PageSize \in Nat \ {0} /\ position \in Nat
  BY <1>1, Here, Types, CacheAssumption DEF Offsets
<1>3. /\ n \in 1 .. PageSize /\ CurrentOffset + n <= PageSize /\ position' = position + n
      /\ old \in 0 .. PageSize /\ new \in 1 .. PageSize
      /\ new = (IF old >= CurrentOffset + n THEN old ELSE CurrentOffset + n)
      /\ CurrentOffset <= old
      /\ pages[s].size = old /\ pages'[s].size = new
      /\ old > 0 => pages[s].page = CurrentPage
      /\ \A j \in Slots \ {s} : pages'[j] = pages[j] /\ cacheData'[j] = cacheData[j]
      /\ pages'[s].page = CurrentPage
      /\ \A o \in Offsets : cacheData'[s][o] =
            IF CurrentOffset <= o /\ o < CurrentOffset + n
            THEN IF here + o \in Watched THEN wr.value ELSE Junk
            ELSE cacheData[s][o]
      /\ ViewSize' = (IF ViewSize >= position' THEN ViewSize ELSE position')
  BY DEF Takes
<1> HIDE DEF s, here
<1>4. ASSUME NEW w \in Watched
      PROVE  ViewByte(w)' = IF position <= w /\ w < position + n THEN wr.value ELSE ViewByte(w)
  <2> DEFINE q == w \div PageSize
             o == w % PageSize
             i == q % NumPages
  <2>1. q \in Nat /\ o \in 0 .. PageSize - 1 /\ o \in Offsets /\ w = PageStart(q) + o /\ PageStart(q) \in Nat
        /\ i \in Slots /\ w \in Nat
    BY CacheAssumption, InPage, DivMod, PageStarts DEF Slots, Offsets
  <2>2. /\ ViewByte(w) = IF pages[i].page = q /\ o < pages[i].size THEN cacheData[i][o] ELSE target.bytes[w]
        /\ ViewByte(w)' = IF pages'[i].page = q /\ o < pages'[i].size THEN cacheData'[i][o]
                                                                    ELSE target'.bytes[w]
    BY DEF ViewByte, InCache
  <2> HIDE DEF q, o, i
  <2>3. CASE q # CurrentPage
    <3>1. ~(position <= w /\ w < position + n)
      <4>1. q < CurrentPage => PageStart(q) + PageSize <= PageStart(CurrentPage)
        BY <1>2, <2>1, PageStarts
      <4>2. CurrentPage < q => PageStart(CurrentPage) + PageSize <= PageStart(q)
        BY <1>2, <2>1, PageStarts
      <4>3. QED
        BY <1>2, <1>3, <2>1, <2>3, <4>1, <4>2 DEF here
    <3>2. CASE i # s
      BY <1>1, <1>3, <2>1, <2>2, <3>1, <3>2
    <3>3. CASE i = s
      <4>1. pages[s].page # q /\ pages'[s].page # q
        BY <1>1, <1>3, <2>1, <2>3
      <4>2. QED
        BY <1>1, <2>2, <3>1, <3>3, <4>1
    <3>4. QED
      BY <3>2, <3>3
  <2>4. CASE q = CurrentPage
    <3>1. i = s /\ w = here + o
      BY <1>2, <2>1, <2>4 DEF i, here
    <3>2. o < pages[s].size => pages[s].page = q
      BY <1>3, <2>1, <2>4
    <3>3. CASE CurrentOffset <= o /\ o < CurrentOffset + n
      <4>1. o < pages'[s].size /\ cacheData'[s][o] = wr.value
        BY <1>2, <1>3, <2>1, <3>1, <3>3
      <4>2. position <= w /\ w < position + n
        BY <1>2, <1>3, <2>1, <3>1, <3>3
      <4>3. QED
        BY <1>3, <2>2, <2>4, <3>1, <4>1, <4>2
    <3>4. CASE ~(CurrentOffset <= o /\ o < CurrentOffset + n)
      <4>1. (o < pages'[s].size <=> o < pages[s].size) /\ cacheData'[s][o] = cacheData[s][o]
        BY <1>2, <1>3, <2>1, <3>4
      <4>2. ~(position <= w /\ w < position + n)
        BY <1>2, <1>3, <2>1, <3>1, <3>4
      <4>3. QED
        BY <1>1, <1>3, <2>2, <2>4, <3>1, <3>2, <4>1, <4>2
    <3>5. QED
      BY <3>3, <3>4
  <2>5. QED
    BY <2>3, <2>4
<1>5. View' = [w \in Watched |-> IF w \in File!Span(position, n) THEN wr.value ELSE View[w]]
  <2>1. \A w \in Watched : w \in File!Span(position, n) <=> position <= w /\ w < position + n
    BY DEF File!Span
  <2>2. QED
    BY <1>4, <2>1 DEF View
<1>6. n = position' - position /\ position' > position
  BY <1>2, <1>3
<1>7. File!WritePiece(wr.value)
  <2>1. (IF ReadingAhead THEN wr.position ELSE position) = position
        /\ (IF ReadingAhead' THEN wr'.position ELSE position') = position'
        /\ (IF ReadingAhead THEN wr.eof ELSE eof) = eof
        /\ (IF ReadingAhead' THEN wr'.eof ELSE eof') = eof
    BY <1>1
  <2>2. View' = [w \in Watched |-> IF w \in File!Span(position, position' - position) THEN wr.value ELSE View[w]]
    BY <1>5, <1>6
  <2>3. QED
    BY <1>3, <1>6, <2>1, <2>2 DEF File!WritePiece, File!Larger
<1>8. QED
  BY <1>1, <1>7 DEF FileStep, File!FileNext

LEMMA WriteCopyStep == ASSUME ViewInv, RunInv', WriteCopy PROVE Filled' /\ Underway' /\ FileStep
<1>1. PICK n, old, new : Takes(n, old, new)
  BY WriteTaken
<1>2. Filled' /\ FileStep
  BY <1>1, WriteFills, WriteSeen
<1> DEFINE s == CurrentSlot
<1>3. /\ RunInv /\ Filled /\ Underway /\ pages[s].page \in {-1, CurrentPage}
      /\ pc' = "write" /\ wr.rem > 0 /\ wr.value \in Values
      /\ Writing /\ Writing' /\ ~ReadingAhead /\ ~ReadingAhead' /\ ~Marking'
      /\ ~Evicting' /\ ~Loading' /\ ClientPosition' = position' /\ position <= ViewSize
      /\ writingAtEOF' = writingAtEOF
  BY WriteIn DEF ViewInv, WriteCopy
<1>4. /\ CurrentPage \in Nat /\ s \in Slots /\ s = CurrentPage % NumPages
      /\ CurrentOffset \in 0 .. PageSize - 1 /\ position = PageStart(CurrentPage) + CurrentOffset
      /\ PageStart(CurrentPage) \in Nat /\ PageSize \in Nat \ {0} /\ NumPages \in Nat \ {0}
      /\ ViewSize \in Nat /\ position \in Nat /\ wr.rem \in Nat
  BY <1>3, Here, Types, CacheAssumption DEF Offsets
<1>5. /\ n \in 1 .. PageSize /\ n <= wr.rem /\ CurrentOffset + n <= PageSize
      /\ n = wr.rem \/ CurrentOffset + n = PageSize
      /\ position' = position + n /\ wr'.rem = wr.rem - n /\ wr'.value = wr.value
      /\ new \in 1 .. PageSize /\ pages'[s].size = new
      /\ \A j \in Slots \ {s} : pages'[j] = pages[j]
      /\ pages'[s].page = CurrentPage
      /\ ViewSize' = (IF ViewSize >= position' THEN ViewSize ELSE position')
  BY <1>1 DEF Takes
<1>6. \/ /\ CurrentOffset + n < PageSize /\ wr'.rem = 0
         /\ CurrentPage' = CurrentPage /\ CurrentOffset' = CurrentOffset + n
      \/ CurrentOffset + n = PageSize /\ CurrentPage' = CurrentPage + 1 /\ CurrentOffset' = 0
  <2> DEFINE w == position'
  <2>1. w \in Nat /\ position <= w /\ w <= PageStart(CurrentPage) + PageSize
        /\ w = PageStart(CurrentPage) + CurrentOffset + n
    BY <1>4, <1>5
  <2>2. \/ /\ w < PageStart(CurrentPage) + PageSize
           /\ w \div PageSize = CurrentPage /\ w % PageSize = w - PageStart(CurrentPage)
        \/ /\ w = PageStart(CurrentPage) + PageSize
           /\ w \div PageSize = CurrentPage + 1 /\ w % PageSize = 0
    <3> HIDE DEF w
    <3> QED BY <1>3, <2>1, Onward
  <2>3. CurrentPage' = w \div PageSize /\ CurrentOffset' = w % PageSize
    BY DEF CurrentPage, CurrentOffset
  <2> HIDE DEF w
  <2>4. CASE w < PageStart(CurrentPage) + PageSize
    <3>1. CurrentOffset + n < PageSize
      BY <1>4, <1>5, <2>1, <2>4
    <3>2. wr'.rem = 0
      BY <1>4, <1>5, <3>1
    <3>3. CurrentPage' = CurrentPage /\ CurrentOffset' = CurrentOffset + n
      BY <1>4, <1>5, <2>1, <2>2, <2>3, <2>4
    <3>4. QED
      BY <3>1, <3>2, <3>3
  <2>5. CASE w = PageStart(CurrentPage) + PageSize
    <3>1. CurrentOffset + n = PageSize
      <4> DEFINE here == PageStart(CurrentPage)
                 o == CurrentOffset
      <4>1. here \in Nat /\ o \in Nat /\ n \in Nat /\ PageSize \in Nat /\ here + o + n = here + PageSize
        BY <1>4, <1>5, <2>1, <2>5
      <4> HIDE DEF here, o
      <4>2. o + n = PageSize
        BY <4>1
      <4>3. QED
        BY <4>2 DEF o
    <3>2. CurrentPage' = CurrentPage + 1 /\ CurrentOffset' = 0
      BY <1>4, <2>2, <2>3, <2>5
    <3>3. QED
      BY <3>1, <3>2
  <2>6. QED
    BY <2>2, <2>4, <2>5
<1> HIDE DEF s
<1>7. WriteFits'
  <2>1. position' <= ViewSize'
    BY <1>4, <1>5
  <2>2. CurrentOffset' = 0 \/ PagesOf(wr'.rem) < NumPages
    <3>1. CurrentOffset' = 0 \/ wr'.rem = 0
      BY <1>6
    <3>2. PagesOf(0) < NumPages
      BY <1>4, PagesOfIs
    <3>3. QED
      BY <3>1, <3>2
  <2>3. QED
    BY <1>3, <1>5, <2>1, <2>2 DEF WriteFits, CurrentOffset, PagesOf
(* A slot that has been dropped and is still without a page comes later.   *)
<1>8. Dropped'
  <2>1. SUFFICES ASSUME NEW j \in Slots, pages'[j].page = -1
                 PROVE  /\ position' = ViewSize' /\ CurrentOffset' = 0
                        /\ Ahead(CurrentSlot', j) < PagesOf(wr'.rem)
                        /\ writingAtEOF
    BY <1>3 DEF Dropped, PagesOf, Ahead
  <2>2. j # s /\ pages[j].page = -1
    BY <1>4, <1>5, <2>1
  <2>3. /\ position = ViewSize /\ CurrentOffset = 0 /\ Ahead(s, j) < PagesOf(wr.rem)
        /\ writingAtEOF
    BY <1>3, <2>2 DEF Underway, Dropped, s
  <2>4. Ahead(s, j) \in Nat /\ Ahead(s, j) > 0
    BY <1>4, <2>2 DEF Ahead, Slots
  <2>5. wr.rem > PageSize
    <3>1. ASSUME wr.rem <= PageSize PROVE FALSE
      <4>1. wr.rem \in 1 .. PageSize
        BY <1>3, <1>4, <3>1
      <4>2. PagesOf(wr.rem) = 1
        BY <4>1, PagesOfIs
      <4>3. QED
        BY <2>3, <2>4, <4>2
    <3>2. QED
      BY <1>4, <3>1
  <2>6. n = PageSize /\ wr'.rem \in Nat /\ wr.rem = wr'.rem + PageSize
    BY <1>4, <1>5, <2>3, <2>5
  <2> DEFINE r == wr'.rem
  <2>7. PagesOf(wr.rem) = PagesOf(r) + 1 /\ PagesOf(r) \in Nat
    <3>1. r \in Nat /\ wr.rem = r + PageSize
      BY <2>6
    <3> HIDE DEF r
    <3>2. QED
      BY <3>1, PagesOfIs
  <2>8. CurrentPage' = CurrentPage + 1 /\ CurrentOffset' = 0
    BY <1>4, <1>6, <2>3, <2>6
  <2>9. CurrentSlot' = IF s = NumPages - 1 THEN 0 ELSE s + 1
    <3>1. CurrentSlot' = (CurrentPage + 1) % NumPages
      BY <2>8 DEF CurrentSlot
    <3>2. QED
      BY <1>4, <3>1, SlotAfter
  <2>10. Ahead(CurrentSlot', j) = Ahead(s, j) - 1
    BY <1>4, <2>2, <2>9 DEF Ahead, Slots
  <2>11. Ahead(CurrentSlot', j) < PagesOf(r)
    <3> HIDE DEF r
    <3> QED BY <2>3, <2>4, <2>7, <2>10
  <2>12. position' = ViewSize'
    BY <1>4, <1>5, <2>3
  <2>13. QED
    BY <2>3, <2>8, <2>11, <2>12
<1>9. Claims'
  <2>1. ASSUME NEW i \in Slots, pages'[i].page # -1, pages'[i].page % NumPages = i, pages'[i].size = 0
        PROVE  FALSE
    <3>1. i # s
      BY <1>5, <2>1
    <3>2. pages'[i] = pages[i]
      BY <1>5, <3>1
    <3>3. i = CurrentSlot
      BY <1>3, <2>1, <3>2 DEF Underway, Claims
    <3>4. QED
      BY <3>1, <3>3 DEF s
  <2>2. QED
    BY <2>1 DEF Claims
<1>10. AtEnd'
  <2>1. SUFFICES ASSUME writingAtEOF PROVE RestCached'
    BY <1>3 DEF AtEnd
  <2>2. CurrentPage <= CurrentPage' /\ CurrentPage' \in Nat
    BY <1>4, <1>6
  <2>3. ASSUME NEW q \in Nat, CurrentPage' <= q, PageStart(q) < ViewSize'
        PROVE  pages'[q % NumPages].page = q
    <3>1. CASE q = CurrentPage
      BY <1>4, <1>5, <3>1
    <3>2. CASE q # CurrentPage
      <4>1. CurrentPage < q
        BY <1>4, <2>2, <2>3, <3>2
      <4>2. PageStart(CurrentPage) + PageSize <= PageStart(q) /\ PageStart(q) \in Nat
        BY <1>4, <4>1, PageStarts
      <4>3. PageStart(q) < ViewSize
        BY <1>4, <1>5, <2>3, <4>2
      <4>4. pages[q % NumPages].page = q
        BY <1>3, <1>4, <2>1, <4>1, <4>3 DEF Underway, AtEnd, RestCached
      <4>5. q % NumPages # s
        BY <1>3, <3>2, <4>4 DEF s
      <4>6. q % NumPages \in Slots
        BY <1>4, DivMod DEF Slots
      <4>7. QED
        BY <1>5, <4>4, <4>5, <4>6
    <3>3. QED
      BY <3>1, <3>2
  <2>4. QED
    BY <2>3 DEF RestCached, PageStart
<1>11. Phases' /\ Marked' /\ Evicts' /\ Missing' /\ AheadRight'
  BY <1>3 DEF Phases, Marked, Evicts, Missing, AheadRight
<1>12. QED
  BY <1>2, <1>7, <1>8, <1>9, <1>10, <1>11 DEF Underway

-----------------------------------------------------------------------------
(* What flush_dirty_pages writes in one piece.                             *)
LEMMA NextPage ==
    ASSUME RunInv, Filled, NEW j \in Slots, pages[j].isDirty, pages[After(j)].isDirty,
           After(j) # firstDirtyPage
    PROVE  /\ pages[After(j)].page = pages[j].page + 1
           /\ pages[j].size = PageSize
<1> DEFINE q == pages[j].page
           z == pages[j].size
           y == pages[After(j)].size
<1>1. After(j) \in Slots /\ PageSize \in Nat \ {0}
  BY CacheAssumption DEF After, Slots
<1>2. pages[After(j)].page = q + 1
  BY DEF RunInv, Chained
<1>3. q \in Nat /\ z \in 0 .. PageSize /\ y \in Nat /\ y > 0 /\ z > 0 /\ ViewSize \in Nat
  BY <1>1, Types DEF Filled, Placed
<1>4. EndOf(pages[After(j)]) <= ViewSize /\ (z < PageSize => EndOf(pages[j]) = ViewSize)
  BY <1>1, <1>3 DEF Filled, Ends
<1>5. EndOf(pages[After(j)]) = PageStart(q + 1) + y /\ EndOf(pages[j]) = PageStart(q) + z
  BY <1>2 DEF EndOf
<1>6. PageStart(q + 1) = PageStart(q) + PageSize /\ PageStart(q) \in Nat
  BY <1>3, PageStarts
<1> HIDE DEF q, z, y
<1>7. z = PageSize
  BY <1>1, <1>3, <1>4, <1>5, <1>6
<1>8. QED
  BY <1>2, <1>7 DEF q, z

(* The slots of the piece are dirty, one after the other.                  *)
LEMMA PieceDirty ==
    ASSUME RunInv, FlushWrite
    PROVE  LET i == fl.index
               n == InOneWrite(i)
           IN  /\ n \in Nat \ {0} /\ i \in Slots /\ i + n <= NumPages
               /\ \A j \in Slots : i <= j /\ j < i + n => pages[j].isDirty
               /\ \A j \in Slots : i <= j /\ j + 1 < i + n =>
                     After(j) = j + 1 /\ j + 1 \in Slots /\ j + 1 # firstDirtyPage
<1> DEFINE i == fl.index
           n == InOneWrite(i)
<1>1. /\ i \in Slots /\ fl.rem \in Nat /\ fl.rem > 0 /\ NumPages \in Nat \ {0}
      /\ firstDirtyPage \in Slots /\ dirtyCount \in 0 .. NumPages /\ dirtyCount > 0
  BY CacheAssumption DEF RunInv, IInv, TypeOK, FlushWrite, Flushing
<1>2. pc = "flush" /\ pages[i].isDirty /\ FlushAsserts(i)
  BY DEF FlushWrite, Flushing
<1>3. /\ n \in Nat \ {0} /\ i + n <= NumPages /\ Wanted(i) \in Nat /\ RunFrom(i) \in Nat
  BY <1>1, <1>2, OneWrite DEF RunInv, IInv
<1>4. n = Smaller(Smaller(RunFrom(i), NumPages - i), Wanted(i))
  BY DEF InOneWrite
<1> HIDE DEF n
<1>5. n <= RunFrom(i)
  BY <1>1, <1>3, <1>4 DEF Smaller, Slots
<1>6. (firstDirtyPage + dirtyCount) % NumPages =
          IF firstDirtyPage + dirtyCount < NumPages THEN firstDirtyPage + dirtyCount
                                                    ELSE firstDirtyPage + dirtyCount - NumPages
  <2> DEFINE a == firstDirtyPage + dirtyCount
  <2>1. a \in Nat /\ a < 2 * NumPages
    BY <1>1 DEF Slots
  <2>2. a % NumPages = IF a < NumPages THEN a ELSE a - NumPages
    <3> HIDE DEF a
    <3> QED BY <1>1, <2>1, ModWraps
  <2>3. QED
    BY <1>1, <2>2 DEF Slots
<1> HIDE DEF i
<1>7. /\ \A j \in Slots : i <= j /\ j < i + n => pages[j].isDirty
      /\ \A j \in Slots : i <= j /\ j + 1 < i + n => j + 1 # firstDirtyPage
  <2>1. CASE RunIntact /\ i >= firstDirtyPage
    <3>1. n <= dirtyCount - (i - firstDirtyPage)
      BY <1>1, <1>5, <2>1 DEF RunFrom
    <3>2. QED
      BY <1>1, <1>3, <2>1, <3>1 DEF RunIntact, InRun, Slots
  <2>2. CASE RunIntact /\ i < firstDirtyPage
    <3>1. i + NumPages - firstDirtyPage < dirtyCount
      BY <1>1, <1>2, <2>2 DEF RunIntact, InRun, Slots
    <3>2. n <= firstDirtyPage + dirtyCount - NumPages - i
      BY <1>1, <1>5, <1>6, <2>2, <3>1 DEF RunFrom, Slots
    <3>3. QED
      BY <1>1, <1>3, <2>2, <3>2 DEF RunIntact, InRun, Slots
  <2>3. CASE ~RunIntact
    <3>1. PICK e \in Slots, r \in Slots :
            /\ firstDirtyPage < e /\ e < NumPages /\ i < r /\ r <= firstDirtyPage
            /\ dirtyCount = (e - firstDirtyPage) + (r - i)
            /\ \A j \in Slots : pages[j].isDirty <=> ((firstDirtyPage <= j /\ j < e)
                                                       \/ (i <= j /\ j < r))
      BY <1>2, <2>3 DEF RunInv, IInv, RunCut, i
    <3>2. RunFrom(i) = firstDirtyPage + dirtyCount - NumPages - i
      BY <1>1, <1>2, <1>6, <3>1 DEF RunFrom, FlushAsserts, Slots
    <3>3. n < r - i
      BY <1>1, <1>3, <1>5, <3>1, <3>2 DEF Slots
    <3>4. QED
      BY <1>1, <1>3, <3>1, <3>3 DEF Slots
  <2>4. QED
    BY <1>1, <2>1, <2>2, <2>3 DEF Slots
<1>8. \A j \in Slots : i <= j /\ j + 1 < i + n => After(j) = j + 1 /\ j + 1 \in Slots
  BY <1>1, <1>3 DEF After, Slots
<1>9. QED
  BY <1>1, <1>3, <1>7, <1>8 DEF i, n

(* The pages of the piece follow each other, and all but the last are full.*)
LEMMA PiecePages ==
    ASSUME RunInv, Filled, FlushWrite
    PROVE  LET i == fl.index
               n == InOneWrite(i)
           IN  /\ pages[i].page \in Nat
               /\ \A k \in 0 .. n - 1 : /\ i + k \in Slots /\ pages[i + k].isDirty
                                        /\ pages[i + k].page = pages[i].page + k
                                        /\ pages[i + k].size \in 1 .. PageSize
               /\ \A k \in 0 .. n - 2 : pages[i + k].size = PageSize
<1> DEFINE i == fl.index
           n == InOneWrite(i)
           Right(k) == pages[i + k].page = pages[i].page + k
           Bad == {k \in Nat : k < n /\ ~Right(k)}
<1>1. /\ n \in Nat \ {0} /\ i \in Slots /\ i + n <= NumPages
      /\ \A j \in Slots : i <= j /\ j < i + n => pages[j].isDirty
      /\ \A j \in Slots : i <= j /\ j + 1 < i + n =>
            After(j) = j + 1 /\ j + 1 \in Slots /\ j + 1 # firstDirtyPage
  BY PieceDirty
<1> HIDE DEF n, i
<1>2. i \in Nat /\ NumPages \in Nat
  BY <1>1, CacheAssumption DEF Slots
<1>3. \A k \in 0 .. n - 1 : i + k \in Slots /\ pages[i + k].isDirty
  BY <1>1, <1>2 DEF Slots
<1>4. \A k \in 0 .. n - 1 : pages[i + k].page \in Nat /\ pages[i + k].size \in 1 .. PageSize
  <2>1. TAKE k \in 0 .. n - 1
  <2>2. i + k \in Slots /\ pages[i + k].isDirty
    BY <1>3
  <2>3. pages[i + k].size > 0
    BY <2>2 DEF Filled, Placed
  <2>4. QED
    BY <2>2, <2>3, Types, CacheAssumption
<1>5. \A k \in 0 .. n - 2 : pages[i + (k + 1)].page = pages[i + k].page + 1 /\ pages[i + k].size = PageSize
  <2>1. TAKE k \in 0 .. n - 2
  <2> DEFINE j == i + k
  <2>2. k \in 0 .. n - 1 /\ k + 1 \in 0 .. n - 1 /\ i + (k + 1) = j + 1 /\ j + 1 < i + n
    BY <1>1, <1>2
  <2>3. j \in Slots /\ pages[j].isDirty /\ pages[j + 1].isDirty /\ i <= j
    BY <1>2, <1>3, <2>2
  <2>4. i + (k + 1) = After(j) /\ After(j) # firstDirtyPage
    BY <1>1, <2>2, <2>3
  <2>5. pages[After(j)].isDirty
    BY <2>2, <2>3, <2>4
  <2> HIDE DEF j
  <2>6. pages[After(j)].page = pages[j].page + 1 /\ pages[j].size = PageSize
    BY <2>3, <2>4, <2>5, NextPage
  <2>7. QED
    BY <2>4, <2>6 DEF j
<1>6. ASSUME NEW b \in Bad, \A c \in Bad : b <= c PROVE FALSE
  <2>1. b \in Nat /\ b < n /\ b \in 0 .. n - 1 /\ 0 \in 0 .. n - 1
    BY <1>1
  <2>2. b # 0
    <3>1. pages[i].page \in Nat
      <4>1. i + 0 = i
        BY <1>2
      <4>2. QED
        BY <1>4, <2>1, <4>1
    <3>2. ASSUME b = 0 PROVE FALSE
      <4>1. i + b = i
        BY <1>2, <3>2
      <4>2. QED
        BY <3>1, <3>2, <4>1
    <3>3. QED
      BY <3>2
  <2>3. b - 1 \in Nat /\ b - 1 < n /\ b - 1 \in 0 .. n - 2 /\ b - 1 + 1 = b
    BY <1>1, <2>1, <2>2
  <2>4. Right(b - 1)
    <3>1. ASSUME b - 1 \in Bad PROVE FALSE
      <4> HIDE DEF Bad
      <4>1. b <= b - 1
        BY <1>6, <3>1
      <4>2. QED
        BY <2>1, <4>1
    <3> HIDE DEF Right
    <3>2. QED
      BY <2>3, <3>1
  <2>5. pages[i + b].page = pages[i + (b - 1)].page + 1
    BY <1>5, <2>3
  <2>6. pages[i].page \in Nat
    <3>1. i + 0 = i
      BY <1>2
    <3>2. QED
      BY <1>4, <2>1, <3>1
  <2>7. Right(b)
    BY <2>1, <2>4, <2>5, <2>6
  <2>8. QED
    <3> HIDE DEF Right
    <3> QED BY <2>7
<1>7. Bad = {}
  <2>1. Bad \subseteq Nat
    OBVIOUS
  <2> HIDE DEF Bad
  <2>2. QED
    BY <1>6, <2>1, LeastOf
<1>8. \A k \in 0 .. n - 1 : Right(k)
  <2> HIDE DEF Right
  <2> QED BY <1>1, <1>7
<1>9. pages[i].page \in Nat
  <2>1. i + 0 = i /\ 0 \in 0 .. n - 1
    BY <1>1, <1>2
  <2>2. QED
    BY <1>4, <2>1
<1>10. QED
  BY <1>3, <1>4, <1>5, <1>8, <1>9 DEF i, n

(* Which bytes of the target the n slots from slot i on replace.           *)
SlotOf(w) == (w \div PageSize) % NumPages
Pours(i, n, w) == InCache(w) /\ i <= SlotOf(w) /\ SlotOf(w) < i + n

LEMMA PieceBytes ==
    ASSUME RunInv, Filled, FlushWrite, NEW w \in Watched
    PROVE  target'.bytes[w] = IF Pours(fl.index, InOneWrite(fl.index), w)
                              THEN cacheData[SlotOf(w)][w % PageSize] ELSE target.bytes[w]
<1> DEFINE i == fl.index
           n == InOneWrite(i)
           P == pages[i].page
           L == pages[i + n - 1].size
           start == PageStart(P)
           num == FlushBytes(i, n)
           q == w \div PageSize
           r == w % PageSize
<1>1. /\ n \in Nat \ {0} /\ i \in Slots /\ i + n <= NumPages /\ P \in Nat
      /\ \A k \in 0 .. n - 1 : /\ i + k \in Slots /\ pages[i + k].isDirty
                               /\ pages[i + k].page = P + k
                               /\ pages[i + k].size \in 1 .. PageSize
      /\ \A k \in 0 .. n - 2 : pages[i + k].size = PageSize
  BY PieceDirty, PiecePages
<1>2. target'.bytes[w] = IF start <= w /\ w < start + num
                         THEN cacheData[i + (w - start) \div PageSize][(w - start) % PageSize]
                         ELSE target.bytes[w]
  BY DEF FlushWrite, TargetAfter, PageStart
<1>3. num = PageStart(n - 1) + L
  BY DEF FlushBytes, PageStart
<1> HIDE DEF n, i, num
<1>4. i \in Nat /\ NumPages \in Nat \ {0} /\ PageSize \in Nat \ {0} /\ w \in Nat
  BY <1>1, CacheAssumption DEF Slots
<1>5. q \in Nat /\ r \in 0 .. PageSize - 1 /\ r \in Nat /\ w = PageStart(q) + r
  BY <1>4, InPage DEF Offsets
<1>6. L \in 1 .. PageSize /\ n - 1 \in 0 .. n - 1 /\ n - 1 \in Nat
  <2>1. n - 1 \in 0 .. n - 1 /\ i + n - 1 = i + (n - 1)
    BY <1>1, <1>4
  <2>2. QED
    BY <1>1, <2>1
<1> HIDE DEF P, q, r, L
<1>7. start \in Nat /\ PageStart(n - 1) \in Nat /\ PageStart(q) \in Nat
  BY <1>1, <1>5, <1>6, PageStarts
<1> DEFINE In == start <= w /\ w < start + num
(* The slot of a position in the piece.                                    *)
<1>8. ASSUME In
      PROVE  /\ Pours(i, n, w)
             /\ i + (w - start) \div PageSize = SlotOf(w) /\ (w - start) % PageSize = r
  <2>1. P <= q
    <3>1. ASSUME q < P PROVE FALSE
      <4>1. PageStart(q) + PageSize <= start
        BY <1>1, <1>5, <3>1, PageStarts
      <4>2. QED
        BY <1>4, <1>5, <1>7, <1>8, <4>1
    <3>2. QED
      BY <1>1, <1>5, <3>1
  <2> DEFINE k == q - P
  <2>2. k \in Nat /\ q = P + k
    BY <1>1, <1>5, <2>1
  <2> HIDE DEF k
  <2>3. PageStart(q) = start + PageStart(k) /\ PageStart(k) \in Nat
    BY <1>1, <2>2, PageStartSum, PageStarts
  <2>4. k <= n - 1
    <3>1. ASSUME n - 1 < k PROVE FALSE
      <4>1. PageStart(n - 1) + PageSize <= PageStart(k)
        BY <1>6, <2>2, <3>1, PageStarts
      <4>2. QED
        BY <1>3, <1>4, <1>5, <1>6, <1>7, <1>8, <2>3, <4>1
    <3>2. QED
      BY <1>6, <2>2, <3>1
  <2>5. k \in 0 .. n - 1
    BY <1>1, <2>2, <2>4
  <2>6. i + k \in Slots /\ pages[i + k].page = q /\ pages[i + k].size > 0
    BY <1>1, <2>2, <2>5
  <2>7. SlotOf(w) = i + k
    BY <2>6 DEF Filled, Placed, SlotOf, q
  <2>8. r < pages[i + k].size
    <3>1. CASE k = n - 1
      <4>1. i + k = i + n - 1
        BY <1>1, <1>4, <3>1
      <4>2. r < L
        BY <1>3, <1>5, <1>6, <1>7, <1>8, <2>3, <3>1
      <4>3. QED
        BY <4>1, <4>2 DEF L
    <3>2. CASE k # n - 1
      <4>1. k \in 0 .. n - 2
        BY <1>1, <2>5, <3>2
      <4>2. QED
        BY <1>1, <1>5, <4>1
    <3>3. QED
      BY <3>1, <3>2
  <2>9. Pours(i, n, w)
    <3>1. InCache(w)
      BY <2>6, <2>7, <2>8 DEF InCache, SlotOf, q, r
    <3>2. QED
      BY <1>1, <1>4, <2>5, <2>7, <3>1 DEF Pours
  <2>10. w - start = k * PageSize + r
    <3>1. PageStart(k) = k * PageSize
      BY DEF PageStart
    <3>2. w - start = PageStart(k) + r
      BY <1>4, <1>5, <1>7, <2>3
    <3>3. QED
      BY <3>1, <3>2
  <2>11. (w - start) \div PageSize = k /\ (w - start) % PageSize = r
    BY <1>4, <1>5, <2>2, <2>10, SplitOnce
  <2>12. QED
    BY <2>7, <2>9, <2>11
<1>9. ASSUME Pours(i, n, w) PROVE In
  <2>1. InCache(w) /\ i <= SlotOf(w) /\ SlotOf(w) < i + n
    BY <1>9 DEF Pours
  <2> DEFINE k == SlotOf(w) - i
  <2>2. SlotOf(w) \in Nat
    BY <1>4, <1>5, DivMod DEF SlotOf, q
  <2>3. k \in 0 .. n - 1 /\ SlotOf(w) = i + k
    BY <1>1, <1>4, <2>1, <2>2
  <2> HIDE DEF k
  <2>4. q = P + k /\ r < pages[i + k].size
    BY <1>1, <2>1, <2>3 DEF InCache, SlotOf, q, r
  <2>5. k \in Nat /\ PageStart(q) = start + PageStart(k) /\ PageStart(k) \in Nat
    BY <1>1, <2>3, <2>4, PageStartSum, PageStarts
  <2>6. PageStart(k) + r < PageStart(n - 1) + L
    <3>1. CASE k = n - 1
      <4>1. i + k = i + n - 1
        BY <1>1, <1>4, <3>1
      <4>2. r < L
        BY <2>4, <4>1 DEF L
      <4>3. QED
        BY <1>5, <1>6, <1>7, <3>1, <4>2
    <3>2. CASE k # n - 1
      <4>1. k < n - 1
        BY <1>1, <2>3, <3>2
      <4>2. PageStart(k) + PageSize <= PageStart(n - 1)
        BY <1>6, <2>5, <4>1, PageStarts
      <4>3. QED
        BY <1>4, <1>5, <1>6, <1>7, <2>5, <4>2
    <3>3. QED
      BY <3>1, <3>2
  <2>7. QED
    BY <1>3, <1>5, <1>6, <1>7, <2>5, <2>6
<1>10. CASE In
  BY <1>2, <1>8, <1>10 DEF i, n, r
<1>11. CASE ~In
  BY <1>2, <1>9, <1>11 DEF i, n
<1>12. QED
  BY <1>10, <1>11

(* The slots and the sizes once the piece is written.                      *)
LEMMA PieceSizes ==
    ASSUME RunInv, Filled, FlushWrite
    PROVE  LET i == fl.index
               n == InOneWrite(i)
           IN  /\ \A j \in Slots : /\ pages'[j].page = pages[j].page
                                   /\ pages'[j].size = pages[j].size
                                   /\ pages'[j].isDirty <=> pages[j].isDirty /\ ~(i <= j /\ j < i + n)
               /\ target'.size \in Nat /\ target.size <= target'.size /\ target'.size <= ViewSize
               /\ \A j \in Slots : i <= j /\ j < i + n =>
                     pages[j].isDirty /\ EndOf(pages[j]) \in Nat /\ EndOf(pages[j]) <= target'.size
<1> DEFINE i == fl.index
           n == InOneWrite(i)
           P == pages[i].page
           e == i + n - 1
           num == FlushBytes(i, n)
<1>1. /\ n \in Nat \ {0} /\ i \in Slots /\ i + n <= NumPages /\ P \in Nat
      /\ \A j \in Slots : i <= j /\ j < i + n => pages[j].isDirty
      /\ \A k \in 0 .. n - 1 : /\ i + k \in Slots /\ pages[i + k].isDirty
                               /\ pages[i + k].page = P + k
                               /\ pages[i + k].size \in 1 .. PageSize
      /\ \A k \in 0 .. n - 2 : pages[i + k].size = PageSize
  BY PieceDirty, PiecePages
<1>2. /\ pages' = [j \in Slots |->
             [pages[j] EXCEPT !.isDirty = pages[j].isDirty /\ ~(i <= j /\ j < i + n)]]
      /\ target'.size = IF num = 0 THEN target.size ELSE Larger(target.size, PageStart(P) + num)
  BY DEF FlushWrite, TargetAfter, PageStart
<1>3. num = PageStart(n - 1) + pages[e].size
  BY DEF FlushBytes, PageStart
<1> HIDE DEF n, i, num, P
<1>4. i \in Nat /\ NumPages \in Nat \ {0} /\ PageSize \in Nat \ {0} /\ target.size \in Nat
      /\ ViewSize \in Nat /\ target.size <= ViewSize
  BY <1>1, Types, CacheAssumption DEF Slots
<1>5. n - 1 \in 0 .. n - 1 /\ n - 1 \in Nat /\ e = i + (n - 1)
  BY <1>1, <1>4
<1> HIDE DEF e
<1>6. e \in Slots /\ pages[e].isDirty /\ pages[e].page = P + (n - 1) /\ pages[e].size \in 1 .. PageSize
  BY <1>1, <1>5
<1>7. /\ PageStart(P) \in Nat /\ PageStart(n - 1) \in Nat
      /\ PageStart(pages[e].page) = PageStart(P) + PageStart(n - 1)
  <2>1. PageStart(P) \in Nat /\ PageStart(n - 1) \in Nat
    BY <1>1, <1>5, PageStarts
  <2>2. PageStart(P + (n - 1)) = PageStart(P) + PageStart(n - 1)
    BY <1>1, <1>5, PageStartSum
  <2>3. QED
    BY <1>6, <2>1, <2>2
<1>8. EndOf(pages[e]) = PageStart(P) + num /\ num > 0 /\ EndOf(pages[e]) \in Nat /\ num \in Nat
  BY <1>3, <1>6, <1>7 DEF EndOf
<1>9. EndOf(pages[e]) <= ViewSize
  BY <1>6, Types
<1>10. /\ target'.size \in Nat /\ target.size <= target'.size /\ target'.size <= ViewSize
       /\ EndOf(pages[e]) <= target'.size
  BY <1>2, <1>4, <1>8, <1>9 DEF Larger
<1>11. ASSUME NEW j \in Slots, i <= j, j < i + n
       PROVE  EndOf(pages[j]) \in Nat /\ EndOf(pages[j]) <= target'.size
  <2> DEFINE k == j - i
  <2>1. k \in 0 .. n - 1 /\ j = i + k /\ k \in Nat
    BY <1>1, <1>4, <1>11 DEF Slots
  <2> HIDE DEF k
  <2>2. pages[j].page = P + k /\ pages[j].size \in 1 .. PageSize /\ P + k \in Nat
    BY <1>1, <2>1
  <2>3. PageStart(P + k) \in Nat
    BY <2>2, PageStarts
  <2>4. EndOf(pages[j]) = PageStart(P + k) + pages[j].size
    BY <2>2 DEF EndOf
  <2>5. CASE k = n - 1
    <3>1. j = e
      BY <1>5, <2>1, <2>5
    <3>2. QED
      BY <1>8, <1>10, <3>1
  <2>6. CASE k # n - 1
    <3>1. P + k < P + (n - 1) /\ P + (n - 1) \in Nat
      BY <1>1, <2>1, <2>6
    <3>2. PageStart(P + k) + PageSize <= PageStart(P + (n - 1)) /\ PageStart(P + (n - 1)) \in Nat
      BY <2>2, <3>1, PageStarts
    <3>3. EndOf(pages[e]) = PageStart(P + (n - 1)) + pages[e].size
      BY <1>6 DEF EndOf
    <3>4. EndOf(pages[j]) <= EndOf(pages[e])
      BY <1>4, <1>6, <2>2, <2>3, <2>4, <3>2, <3>3
    <3>5. QED
      BY <1>4, <1>8, <1>10, <2>2, <2>3, <2>4, <3>4
  <2>7. QED
    BY <2>5, <2>6
<1>12. \A j \in Slots : /\ pages'[j].page = pages[j].page /\ pages'[j].size = pages[j].size
                        /\ pages'[j].isDirty <=> pages[j].isDirty /\ ~(i <= j /\ j < i + n)
  <2>1. TAKE j \in Slots
  <2>2. pages[j] \in [page : Nat \cup {-1}, size : 0 .. PageSize, isDirty : BOOLEAN]
    BY <2>1 DEF RunInv, IInv, TypeOK
  <2>3. pages'[j] = [pages[j] EXCEPT !.isDirty = pages[j].isDirty /\ ~(i <= j /\ j < i + n)]
    BY <1>2, <2>1
  <2>4. QED
    BY <2>2, <2>3
<1>13. QED
  BY <1>1, <1>10, <1>11, <1>12 DEF i, n

(* Where the run begins then, the target has what comes before.            *)
LEMMA PieceStart ==
    ASSUME RunInv, Filled, FlushWrite, pages'[firstDirtyPage'].isDirty
    PROVE  /\ firstDirtyPage' \in Slots
           /\ PageStart(pages[firstDirtyPage'].page) <= target'.size
<1> DEFINE i == fl.index
           n == InOneWrite(i)
           e == i + n - 1
           first == firstDirtyPage'
<1>1. /\ n \in Nat \ {0} /\ i \in Slots /\ i + n <= NumPages
      /\ \A j \in Slots : i <= j /\ j < i + n => pages[j].isDirty
  BY PieceDirty
<1>2. /\ \A j \in Slots : pages'[j].isDirty <=> pages[j].isDirty /\ ~(i <= j /\ j < i + n)
      /\ target'.size \in Nat /\ target.size <= target'.size
      /\ \A j \in Slots : i <= j /\ j < i + n => EndOf(pages[j]) \in Nat /\ EndOf(pages[j]) <= target'.size
  BY PieceSizes
<1>3. first = IF i = firstDirtyPage THEN (firstDirtyPage + n) % NumPages ELSE firstDirtyPage
  BY DEF FlushWrite, FirstDirtyAfter
<1> HIDE DEF n, i, first
<1>4. i \in Nat /\ NumPages \in Nat \ {0} /\ target.size \in Nat /\ firstDirtyPage \in Slots
  BY <1>1, Types, CacheAssumption DEF Slots
<1>5. CASE i # firstDirtyPage
  <2>1. first = firstDirtyPage
    BY <1>3, <1>5
  <2>2. pages[firstDirtyPage].isDirty
    BY <1>2, <1>4, <2>1 DEF first
  <2>3. PageStart(pages[firstDirtyPage].page) <= target.size
    BY <2>2 DEF Filled, FromStart
  <2>4. PageStart(pages[firstDirtyPage].page) \in Nat
    BY <1>4, <2>2, Types, PageStarts
  <2>5. QED
    BY <1>2, <1>4, <2>1, <2>3, <2>4 DEF first
<1>6. CASE i = firstDirtyPage
  <2>1. first = After(e) /\ e \in Slots /\ i <= e /\ e < i + n
    <3> DEFINE a == firstDirtyPage + n
    <3>1. a \in Nat /\ a < 2 * NumPages /\ a = i + n
      BY <1>1, <1>4, <1>6 DEF Slots
    <3>2. a % NumPages = IF a < NumPages THEN a ELSE a - NumPages
      <4> HIDE DEF a
      <4> QED BY <1>4, <3>1, ModWraps
    <3>3. QED
      BY <1>1, <1>3, <1>4, <1>6, <3>1, <3>2 DEF After, Slots
  <2>2. first \in Slots
    BY <1>4, <2>1 DEF After, Slots
  <2>3. pages[first].isDirty /\ first # firstDirtyPage
    <3>1. pages[first].isDirty /\ ~(i <= first /\ first < i + n)
      BY <1>2, <2>2 DEF first
    <3>2. QED
      BY <1>1, <1>4, <1>6, <3>1
  <2>4. pages[e].isDirty
    BY <1>1, <2>1
  <2> HIDE DEF e
  <2>5. pages[first].page = pages[e].page + 1 /\ pages[e].size = PageSize
    BY <2>1, <2>3, <2>4, NextPage
  <2>6. pages[e].page \in Nat
    BY <2>1, <2>4, Types
  <2>7. PageStart(pages[first].page) = EndOf(pages[e])
    <3>1. PageStart(pages[e].page + 1) = PageStart(pages[e].page) + PageSize
      BY <2>6, PageStarts
    <3>2. QED
      BY <2>5, <3>1 DEF EndOf
  <2>8. QED
    BY <1>2, <2>1, <2>2, <2>7 DEF first
<1>7. QED
  BY <1>5, <1>6

(* The target grows by the piece, and the file stays as it is.             *)
LEMMA FlushWriteStep == ASSUME ViewInv, RunInv', FlushWrite PROVE Filled' /\ Underway' /\ FileStep
<1> DEFINE i == fl.index
           n == InOneWrite(i)
<1>1. RunInv /\ Filled /\ Underway
  BY DEF ViewInv, FlushWrite, Flushing
<1>2. /\ n \in Nat \ {0} /\ i \in Slots /\ i + n <= NumPages
      /\ \A j \in Slots : /\ pages'[j].page = pages[j].page
                          /\ pages'[j].size = pages[j].size
                          /\ pages'[j].isDirty <=> pages[j].isDirty /\ ~(i <= j /\ j < i + n)
      /\ target'.size \in Nat /\ target.size <= target'.size /\ target'.size <= ViewSize
      /\ \A j \in Slots : i <= j /\ j < i + n =>
            pages[j].isDirty /\ EndOf(pages[j]) \in Nat /\ EndOf(pages[j]) <= target'.size
  BY <1>1, PieceDirty, PieceSizes
<1>3. \A w \in Watched : target'.bytes[w] = IF Pours(i, n, w)
                              THEN cacheData[SlotOf(w)][w % PageSize] ELSE target.bytes[w]
  BY <1>1, PieceBytes
<1>4. /\ pc = "flush" /\ pc' = "flush" /\ fl'.back = fl.back /\ dirtyCount > 0
      /\ UNCHANGED <<position, eof, writingAtEOF, cacheData, wr, rd>>
  BY <1>1, Types DEF FlushWrite, Flushing
<1>5. /\ pages'[firstDirtyPage'].isDirty =>
            firstDirtyPage' \in Slots /\ PageStart(pages[firstDirtyPage'].page) <= target'.size
  BY <1>1, PieceStart
<1> HIDE DEF n, i
<1>6. i \in Nat /\ NumPages \in Nat \ {0} /\ target.size \in Nat /\ ViewSize \in Nat
      /\ \A j \in Slots : pages[j].isDirty => EndOf(pages[j]) <= ViewSize
  BY <1>1, <1>2, Types, CacheAssumption DEF Slots
<1>7. \A j \in Slots : EndOf(pages'[j]) = EndOf(pages[j])
  BY <1>2 DEF EndOf
<1>8. ViewSize' = ViewSize
  <2>1. \/ ViewSize = target'.size
        \/ \E j \in Slots : pages'[j].isDirty /\ ViewSize = EndOf(pages'[j])
    <3>1. CASE ViewSize = target.size
      BY <1>2, <1>6, <3>1
    <3>2. ASSUME NEW j \in Slots, pages[j].isDirty, ViewSize = EndOf(pages[j])
          PROVE  ViewSize = target'.size \/ pages'[j].isDirty
      BY <1>2, <1>6, <3>2
    <3>3. QED
      BY <1>1, <1>7, <3>1, <3>2, Types
  <2>2. IsSize(pages', target'.size, ViewSize)
    BY <1>2, <1>6, <1>7, <2>1 DEF IsSize
  <2>3. QED
    BY <2>2, ViewSizeNext
<1>9. View' = View
  <2>1. ASSUME NEW w \in Watched PROVE ViewByte(w)' = ViewByte(w)
    <3>1. SlotOf(w) \in Slots /\ SlotOf(w) = (w \div PageSize) % NumPages
      BY CacheAssumption, InPage, DivMod DEF Slots, SlotOf
    <3>2. InCache(w)' = InCache(w)
      BY <1>2, <3>1 DEF InCache
    <3>3. CASE InCache(w)
      BY <1>4, <3>2, <3>3 DEF ViewByte
    <3>4. CASE ~InCache(w)
      <4>1. target'.bytes[w] = target.bytes[w]
        BY <1>3, <3>4 DEF Pours
      <4>2. QED
        BY <3>2, <3>4, <4>1 DEF ViewByte
    <3>5. QED
      BY <3>3, <3>4
  <2>2. QED
    BY <2>1 DEF View
<1>10. Placed' /\ Ends' /\ FromStart'
  <2>1. Placed'
    BY <1>1, <1>2 DEF Filled, Placed
  <2>2. Ends'
    BY <1>1, <1>2, <1>7, <1>8 DEF Filled, Ends
  <2>3. FromStart'
    BY <1>2, <1>5 DEF FromStart, PageStart
  <2>4. QED
    BY <2>1, <2>2, <2>3
<1>11. CleanTrue'
  <2>1. ASSUME NEW j \in Slots, pages[j].size > 0, ~pages'[j].isDirty
        PROVE  EndOf(pages[j]) <= target'.size
    <3>1. CASE pages[j].isDirty
      BY <1>2, <2>1, <3>1
    <3>2. CASE ~pages[j].isDirty
      <4>1. EndOf(pages[j]) <= target.size
        BY <1>1, <2>1, <3>2 DEF Filled, CleanTrue
      <4>2. EndOf(pages[j]) \in Nat
        <5>1. pages[j].page \in Nat /\ pages[j].size \in Nat
          BY <1>1, <2>1, Types DEF Filled, Placed
        <5>2. PageStart(pages[j].page) \in Nat
          BY <5>1, PageStarts
        <5>3. QED
          BY <5>1, <5>2 DEF EndOf
      <4>3. QED
        BY <1>2, <1>6, <4>1, <4>2
    <3>3. QED
      BY <3>1, <3>2
  <2>2. ASSUME NEW j \in Slots, pages[j].size > 0, ~pages'[j].isDirty,
               NEW o \in Offsets, o < pages[j].size, PageStart(pages[j].page) + o \in Watched
        PROVE  cacheData[j][o] = target'.bytes[PageStart(pages[j].page) + o]
    <3> DEFINE q == pages[j].page
               w == PageStart(q) + o
    <3>1. q \in Nat /\ q % NumPages = j
      BY <1>1, <2>2, Types DEF Filled, Placed
    <3> HIDE DEF q
    <3>2. w \in Nat /\ PageStart(q) \in Nat /\ PageStart(q) <= w /\ w < PageStart(q) + PageSize
          /\ w - PageStart(q) = o
      <4> DEFINE s == PageStart(q)
      <4>1. s \in Nat /\ o \in 0 .. PageSize - 1 /\ PageSize \in Nat
        BY <3>1, PageStarts, CacheAssumption DEF Offsets
      <4> HIDE DEF s
      <4>2. s + o \in Nat /\ s <= s + o /\ s + o < s + PageSize /\ s + o - s = o
        BY <4>1
      <4>3. QED
        BY <4>1, <4>2 DEF s
    <3>3. w \div PageSize = q /\ w % PageSize = o
      <4> HIDE DEF w
      <4> QED BY <3>1, <3>2, PageIs
    <3>4. w \in Watched
      BY <2>2 DEF q
    <3> HIDE DEF w
    <3>5. SlotOf(w) = j /\ InCache(w)
      BY <2>2, <3>1, <3>3 DEF SlotOf, InCache, q
    <3>6. CASE Pours(i, n, w)
      BY <1>3, <3>3, <3>4, <3>5, <3>6 DEF w, q
    <3>7. CASE ~Pours(i, n, w)
      <4>1. ~pages[j].isDirty
        BY <1>2, <2>2, <3>5, <3>7 DEF Pours
      <4>2. cacheData[j][o] = target.bytes[PageStart(pages[j].page) + o]
        BY <1>1, <2>2, <4>1 DEF Filled, CleanTrue
      <4>3. QED
        BY <1>3, <3>4, <3>7, <4>2 DEF w, q
    <3>8. QED
      BY <3>6, <3>7
  <2>3. QED
    BY <1>2, <1>4, <2>1, <2>2 DEF CleanTrue, EndOf, PageStart
<1>12. /\ CurrentPage' = CurrentPage /\ CurrentSlot' = CurrentSlot /\ CurrentOffset' = CurrentOffset
       /\ CurrentSlot \in Slots
  BY <1>1, <1>4, Here DEF CurrentPage, CurrentSlot, CurrentOffset
<1>13. /\ \A q \in Nat : q % NumPages \in Slots
       /\ Cached' = Cached /\ RestCached' = RestCached
  <2>1. \A q \in Nat : q % NumPages \in Slots
    BY <1>6, DivMod DEF Slots
  <2>2. QED
    BY <1>2, <1>8, <1>12, <2>1 DEF Cached, RestCached, PageStart
<1>14. /\ Marking' = Marking /\ Evicting' = Evicting /\ Loading' = Loading /\ Writing' = Writing
       /\ ReadingAhead' = ReadingAhead /\ ClientPosition' = ClientPosition
       /\ PagesToWrite' = PagesToWrite
  BY <1>4 DEF Marking, Evicting, Loading, Writing, FlushFor, ReadingAhead, ClientPosition, PagesToWrite,
     PagesOf, Smaller
<1>15. Phases' /\ WriteFits' /\ Claims' /\ Marked' /\ Evicts'
  <2>1. Phases' /\ WriteFits' /\ Evicts'
    BY <1>1, <1>4, <1>8, <1>12, <1>14 DEF Underway, Phases, WriteFits, Evicts, PagesOf
  <2>2. Claims' /\ Marked'
    BY <1>1, <1>2, <1>4, <1>8, <1>12, <1>14 DEF Underway, Claims, Marked
  <2>3. QED
    BY <2>1, <2>2
<1>16. Dropped'
  BY <1>1, <1>2, <1>4, <1>6, <1>8, <1>12, <1>14, Types DEF Underway, Dropped, PagesOf, Ahead
<1>17. Missing' /\ AtEnd'
  BY <1>1, <1>4, <1>13, <1>14 DEF Underway, Missing, AtEnd
<1>18. AheadRight'
  BY <1>1, <1>2, <1>4, <1>12, <1>13, <1>14 DEF Underway, AheadRight, PassedCached, PageStart
<1>19. FileStep
  BY <1>4, <1>8, <1>9, <1>14 DEF FileStep, File!fileVars, ReadingAhead
<1>20. QED
  BY <1>10, <1>11, <1>15, <1>16, <1>17, <1>18, <1>19 DEF Filled, Underway

-----------------------------------------------------------------------------
(* Every step of the cache file is a step of a file, or none.              *)
LEMMA ClientView ==
    ASSUME Careful, ViewInv, ClientCall
    PROVE  Filled' /\ Underway' /\ FileStep
<1>1. ASSUME NEW n \in 1 .. MaxCount, Read(n) PROVE Filled' /\ Underway' /\ FileStep
  BY <1>1, ReadStep1, CacheAssumption
<1>2. ASSUME NEW n \in 1 .. MaxCount, NEW v \in Values, Write(n, v)
      PROVE  Filled' /\ Underway' /\ FileStep
  BY <1>2, WriteStep1, CacheAssumption
<1>3. ASSUME NEW p \in 0 .. MaxSize, Seek(p) PROVE Filled' /\ Underway' /\ FileStep
  BY <1>3, SeekStep, CacheAssumption DEF Seek
<1>4. CASE SeekEnd
  <2>1. target.size \in Nat
    BY <1>4, Types DEF SeekEnd, ViewInv
  <2>2. QED
    BY <1>4, <2>1, SeekStep DEF SeekEnd
<1>5. ASSUME NEW n \in 1 .. NumPages * PageSize, Flush(n) PROVE Filled' /\ Underway' /\ FileStep
  <2>1. n \in Nat
    BY <1>5, ProductNat, CacheAssumption
  <2>2. QED
    BY <1>5, <2>1, FlushWaits
<1>6. CASE Close
  BY <1>6, FlushWaits
<1>7. QED
  BY <1>1, <1>2, <1>3, <1>4, <1>5, <1>6 DEF ClientCall

LEMMA FlushView ==
    ASSUME Reliable, ViewInv, RunInv', FlushStep
    PROVE  FileStep /\ (pc' = "aborted" \/ (Filled' /\ Underway'))
<1>1. ~FlushFails
  BY DEF Reliable, FlushFails
<1>2. CASE FlushAborts
  <2>1. /\ pc' = "aborted"
        /\ UNCHANGED <<pages, cacheData, target, firstDirtyPage, position, eof, rd, wr>>
    BY <1>2 DEF FlushAborts, cacheVars, frames
  <2>2. FileStep
    BY <2>1, SameFile DEF FileStep, File!fileVars, ReadingAhead
  <2>3. QED
    BY <2>1, <2>2
<1>3. QED
  BY <1>1, <1>2, FlushWriteStep, FlushWaits DEF FlushStep

LEMMA NextView ==
    ASSUME Reliable, Careful, ViewInv, [Next]_vars
    PROVE  ViewInv' /\ FileStep
<1>1. RunInv /\ FlushSucceeds
  BY DEF ViewInv, Reliable, FlushSucceeds
<1>2. RunInv'
  BY <1>1, NextRunInv
<1>3. CASE UNCHANGED vars
  <2>1. UNCHANGED <<pages, cacheData, target, firstDirtyPage, position, eof, rd, wr>>
    BY <1>3 DEF vars
  <2>2. FileStep
    BY <2>1, SameFile DEF FileStep, File!fileVars, ReadingAhead
  <2>3. CASE pc = "aborted"
    BY <1>2, <1>3, <2>2, <2>3 DEF vars, ViewInv
  <2>4. CASE pc # "aborted"
    <3>1. /\ UNCHANGED <<pages, cacheData, target, firstDirtyPage, dirtyCount>>
          /\ UNCHANGED <<position, eof, writingAtEOF, wr, rd>>
          /\ pc' = pc /\ fl' = fl
      BY <1>3 DEF vars
    <3>2. /\ Marking' = Marking /\ Evicting' = Evicting /\ Loading' = Loading
          /\ (pc = "write") = (pc' = "write") /\ (pc = "read") = (pc' = "read")
          /\ (pc = "ahead") = (pc' = "ahead")
      BY <3>1 DEF Marking, Evicting, Loading, FlushFor
    <3>3. Filled' /\ Underway'
      BY <2>4, <3>1, <3>2, Waits
    <3>4. QED
      BY <1>2, <2>2, <3>3 DEF ViewInv
  <2>5. QED
    BY <2>3, <2>4
<1>4. CASE ClientCall
  BY <1>2, <1>4, ClientView DEF ViewInv
<1>5. CASE FlushStep
  BY <1>2, <1>5, FlushView DEF ViewInv
<1>6. CASE ReadStep
  <2>1. ~ReadLoadFails
    BY DEF Reliable, ReadLoadFails
  <2>2. Filled' /\ Underway' /\ FileStep
    BY <1>2, <1>6, <2>1, ReadCachedStep, ReadMissStep, ReadReturnsStep, ReadLoadStep DEF ReadStep
  <2>3. QED
    BY <1>2, <2>2 DEF ViewInv
<1>7. CASE WriteStep
  <2>1. Filled' /\ Underway' /\ FileStep
    BY <1>2, <1>7, WriteCopyStep, WriteGapStep, WriteMissAtEOFStep, WriteEvictStep, WriteMissStep,
       WriteAheadStep, WriteReturnsStep DEF WriteStep
  <2>2. QED
    BY <1>2, <2>1 DEF ViewInv
<1>8. QED
  BY <1>3, <1>4, <1>5, <1>6, <1>7 DEF Next, Step

(* All but the last page of the run are full.                              *)
LEMMA FullFromRun ==
    ASSUME ViewInv, pc \notin {"flush", "aborted"}, NEW k \in 0 .. dirtyCount - 2
    PROVE  pages[RunSlot(k)].size = PageSize
<1>1. RunInv /\ Filled
  BY DEF ViewInv
<1>2. firstDirtyPage \in Slots /\ dirtyCount \in 0 .. NumPages /\ NumPages \in Nat \ {0}
  BY <1>1, Types, CacheAssumption
<1>3. k \in 0 .. dirtyCount - 1 /\ k + 1 \in 0 .. dirtyCount - 1
  BY <1>2
<1>4. RunSlot(k) \in Slots /\ pages[RunSlot(k)].isDirty /\ pages[RunSlot(k + 1)].isDirty
  BY <1>1, <1>3, RunPages
<1>5. ASSUME NEW j \in 0 .. dirtyCount - 1
      PROVE  RunSlot(j) = IF firstDirtyPage + j < NumPages THEN firstDirtyPage + j
                                                         ELSE firstDirtyPage + j - NumPages
  BY <1>2, RunSlotWraps
<1>6. RunSlot(k + 1) = After(RunSlot(k)) /\ RunSlot(k + 1) # firstDirtyPage
  BY <1>2, <1>3, <1>5 DEF After, Slots
<1>7. QED
  BY <1>1, <1>4, <1>6, NextPage

(* With a target that takes every call, and a client that leaves no holes, *)
(* never writes more than the cache has pages for, and never starts with a *)
(* slot that the cache has not used: all the dirty pages but the last are  *)
(* full between any two steps outside flush_dirty_pages.  What that writes *)
(* in one piece has no byte in it that is not of the file.                 *)
THEOREM RunIsFull == ASSUME Reliable, Careful PROVE Spec => []DirtyPagesFull
<1>1. ViewInv /\ [Next]_vars => ViewInv'
  BY NextView
<1>2. Init => ViewInv
  BY InitView
<1>3. ViewInv => DirtyPagesFull
  BY FullFromRun DEF DirtyPagesFull
<1>4. QED
  BY <1>1, <1>2, <1>3, PTL DEF Spec

(* For such a client the cache file is a file: a read moves over bytes     *)
(* that are there, a write changes the bytes it covers and no others, the  *)
(* file grows by writes alone, and end of file is reported at the end.     *)
(* Loads, read-ahead, evictions and flushes do not show, wherever in a     *)
(* call of cache_file_read, cache_file_write or flush_dirty_pages they     *)
(* come.                                                                   *)
THEOREM CacheImplementsFile == ASSUME Reliable, Careful PROVE Spec => ImplementsFile
<1>1. ViewInv /\ [Next]_vars => ViewInv' /\ [File!FileNext]_(File!fileVars)
  BY NextView DEF FileStep
<1>2. Init => ViewInv /\ File!Open
  BY InitView
<1>3. QED
  BY <1>1, <1>2, PTL DEF Spec, ImplementsFile, File!FileSpec
=============================================================================
