----------------------------- MODULE CacheFile -----------------------------
(***************************************************************************)
(* The page cache that mxf_cache_file.c puts in front of another MXFFile.  *)
(*                                                                         *)
(* The cache is direct mapped: page k of the file can only be in slot      *)
(* k % NumPages.  Written pages stay dirty in the cache; the code keeps    *)
(* the dirty slots one circular run, firstDirtyPage and the dirtyCount - 1 *)
(* slots after it, so that they can be flushed in few large writes.        *)
(*                                                                         *)
(* Every iteration of the loops of cache_file_read, cache_file_write and   *)
(* flush_dirty_pages is a step; pc says which loop the call in progress is *)
(* in.  read, write and flush frames hold the locals of the C functions.   *)
(* A file position that the code keeps as a byte offset of a page start is *)
(* kept here as the page's number (the code's position \div PageSize).     *)
(***************************************************************************)
EXTENDS Integers

CONSTANTS NumPages,   (* slots of the cache                                *)
          PageSize,   (* bytes of a page                                   *)
          MaxSize,    (* bound: no write ends past this position           *)
          MaxCount,   (* bound: bytes of one read or write call            *)
          InitSizes,  (* sizes the target may have when it is opened       *)
          Watched,    (* byte positions whose content is followed          *)
          Values,     (* bytes a client writes                             *)
          Junk,       (* a byte the client never wrote there               *)
          Calls,      (* the kinds of calls the client makes, see Next     *)
          Failures    (* the calls of the target that may fail             *)

ASSUME CacheAssumption ==
    /\ NumPages \in Nat \ {0}
    /\ PageSize \in Nat \ {0}
    /\ MaxSize \in Nat
    /\ MaxCount \in Nat
    /\ InitSizes \subseteq Nat
    /\ Watched \subseteq Nat
    /\ Junk \notin Values
    /\ Calls \subseteq {"read", "write", "unfit_write", "hole_write", "blind_write", "seek",
                        "seek_end", "flush", "close"}
    /\ Failures \subseteq {"seek", "read", "write"}

VARIABLES position, eof, writingAtEOF,
          pages,           (* [page, size, isDirty] of each slot            *)
          cacheData,       (* the bytes of each slot                        *)
          firstDirtyPage, dirtyCount,
          target,          (* [size, bytes] of the file behind the cache    *)
          pc,              (* the loop the call in progress is in           *)
          wr,              (* frame of cache_file_write                     *)
          rd,              (* frame of cache_file_read                      *)
          fl               (* frame of flush_dirty_pages                    *)

cacheVars == <<position, eof, writingAtEOF, pages, cacheData, firstDirtyPage, dirtyCount>>
frames == <<wr, rd, fl>>
vars == <<position, eof, writingAtEOF, pages, cacheData, firstDirtyPage, dirtyCount,
          target, pc, wr, rd, fl>>

Slots   == 0 .. NumPages - 1
Offsets == 0 .. PageSize - 1
Bytes   == Values \cup {Junk}

Smaller(a, b) == IF a <= b THEN a ELSE b
Larger(a, b)  == IF a >= b THEN a ELSE b
PagesOf(n)    == (n + PageSize - 1) \div PageSize

(* get_current_page_info: page, slot and offset of the position.           *)
CurrentPage   == position \div PageSize
CurrentSlot   == CurrentPage % NumPages
CurrentOffset == position % PageSize
Cached        == pages[CurrentSlot].page = CurrentPage

-----------------------------------------------------------------------------
NoRead  == [count |-> 0, rem |-> 0, back |-> "idle"]
NoFlush == [index |-> 0, rem |-> 0, back |-> "idle"]
NoWrite == [count |-> 0, rem |-> 0, value |-> Junk, position |-> 0, eof |-> FALSE]

Init ==
    /\ position = 0
    /\ eof = FALSE
    /\ writingAtEOF = FALSE
    /\ pages = [i \in Slots |-> [page |-> IF i = 0 THEN -1 ELSE 0, size |-> 0, isDirty |-> FALSE]]
    /\ cacheData = [i \in Slots |-> [o \in Offsets |-> Junk]]
    /\ firstDirtyPage = 0
    /\ dirtyCount = 0
    /\ \E n \in InitSizes, v \in Values :
           target = [size |-> n, bytes |-> [w \in Watched |-> IF w < n THEN v ELSE Junk]]
    /\ pc = "idle"
    /\ wr = NoWrite /\ rd = NoRead /\ fl = NoFlush

-----------------------------------------------------------------------------
(* flush_dirty_pages(index, rem), returning to the step named back.        *)
StartFlush(index, rem, back) ==
    /\ fl' = [index |-> index, rem |-> rem, back |-> back]
    /\ pc' = "flush"

Flushing == pc = "flush" /\ dirtyCount > 0 /\ fl.rem > 0

(* How far the dirty run goes on from slot i, and the assertions about it. *)
RunFrom(i) ==
    IF i >= firstDirtyPage THEN dirtyCount - (i - firstDirtyPage)
                           ELSE ((firstDirtyPage + dirtyCount) % NumPages) - i
FlushAsserts(i) ==
    IF i >= firstDirtyPage
    THEN i - firstDirtyPage < dirtyCount
    ELSE /\ (firstDirtyPage + dirtyCount) % NumPages > i
         /\ RunFrom(i) <= dirtyCount

(* The target once num contiguous bytes of the cache, from slot i on, are  *)
(* written at the file position of slot i.                                 *)
FlushBytesWhole(i, n) == n * PageSize
FlushBytes(i, n) == (n - 1) * PageSize + pages[i + n - 1].size
TargetAfter(i, num) ==
    LET start == pages[i].page * PageSize
        Byte(w) == cacheData[i + (w - start) \div PageSize][(w - start) % PageSize]
    IN  [size  |-> IF num = 0 THEN target.size ELSE Larger(target.size, start + num),
         bytes |-> [w \in Watched |-> IF start <= w /\ w < start + num THEN Byte(w)
                                                                    ELSE target.bytes[w]]]

WantedOnly(i) == fl.rem
(* From slot i, the pages flush_dirty_pages still wants, extended to the   *)
(* end of the run unless it started at its beginning, and those of them    *)
(* that one write can take.                                                *)
Wanted(i) == IF i # firstDirtyPage THEN Larger(fl.rem, RunFrom(i)) ELSE fl.rem
InOneWrite(i) == Smaller(Smaller(RunFrom(i), NumPages - i), Wanted(i))

FirstDirtyAfterStay(i, n) == firstDirtyPage
(* The beginning of the run once n pages from slot i on are clean.         *)
FirstDirtyAfter(i, n) ==
    IF i = firstDirtyPage THEN (firstDirtyPage + n) % NumPages ELSE firstDirtyPage

FlushWrite ==
    LET i == fl.index
        n == InOneWrite(i)
    IN  /\ Flushing
        /\ pages[i].isDirty
        /\ FlushAsserts(i)
        /\ target' = TargetAfter(i, FlushBytes(i, n))
        /\ pages' = [j \in Slots |->
               [pages[j] EXCEPT !.isDirty = pages[j].isDirty /\ ~(i <= j /\ j < i + n)]]
        /\ dirtyCount' = dirtyCount - n
        /\ firstDirtyPage' = FirstDirtyAfter(i, n)
        /\ fl' = [fl EXCEPT !.index = (i + n) % NumPages, !.rem = Wanted(i) - n]
        /\ UNCHANGED <<position, eof, writingAtEOF, cacheData, pc, wr, rd>>

FlushSkip ==
    LET i == fl.index
        n == Smaller(IF i >= firstDirtyPage THEN NumPages - i ELSE firstDirtyPage - i, fl.rem)
    IN  /\ Flushing
        /\ ~pages[i].isDirty
        /\ fl' = [fl EXCEPT !.index = (i + n) % NumPages, !.rem = fl.rem - n]
        /\ UNCHANGED <<cacheVars, target, pc, wr, rd>>

FlushReturns ==
    /\ pc = "flush"
    /\ dirtyCount = 0 \/ fl.rem = 0
    /\ pc' = fl.back
    /\ fl' = NoFlush
    /\ UNCHANGED <<cacheVars, target, wr, rd>>

(* An assertion of flush_dirty_pages fails and the program aborts.         *)
FlushAborts ==
    /\ Flushing
    /\ pages[fl.index].isDirty
    /\ ~FlushAsserts(fl.index)
    /\ pc' = "aborted"
    /\ UNCHANGED <<cacheVars, target, frames>>

(* A failed call inside cache_file_read: it returns 0 and leaves eof.      *)
ReadFails ==
    /\ rd' = IF rd.back = "idle" THEN NoRead ELSE [rd EXCEPT !.rem = rd.count]
    /\ pc' = rd.back

UncheckedWrites == {"idle", "closed", "mark", "evict"}
(* The callers of flush_dirty_pages that do not look at its result.        *)
Unchecked == {"idle", "closed"}

(* The target refuses the seek, or takes only some of the bytes: all the   *)
(* pages stay dirty, and the caller gives up, or does not look (close).    *)
FlushFails ==
    LET i == fl.index
    IN  /\ Flushing
        /\ pages[i].isDirty
        /\ FlushAsserts(i)
        /\ \/ "seek" \in Failures /\ UNCHANGED target
           \/ "write" \in Failures /\ \E m \in 0 .. FlushBytes(i, InOneWrite(i)) - 1 :
                                         target' = TargetAfter(i, m)
        /\ fl' = NoFlush
        /\ \/ fl.back \in Unchecked /\ pc' = fl.back /\ UNCHANGED <<wr, rd>>
           \/ fl.back \in {"mark", "evict"} \ Unchecked /\ pc' = "idle" /\ wr' = NoWrite /\ UNCHANGED rd
           \/ fl.back = "load" /\ ReadFails /\ UNCHANGED wr
        /\ UNCHANGED cacheVars

-----------------------------------------------------------------------------
(* cache_file_read                                                         *)
(* as many pages as possible in one read of the target, up to the last slot*)
PagesToRead == Smaller(PagesOf(rd.rem), NumPages - CurrentSlot)

ReadCached ==
    /\ pc = "read" /\ rd.rem > 0
    /\ Cached
    /\ CurrentOffset < pages[CurrentSlot].size
    /\ LET n == Smaller(pages[CurrentSlot].size - CurrentOffset, rd.rem)
       IN  /\ rd' = [rd EXCEPT !.rem = rd.rem - n]
           /\ position' = position + n
    /\ UNCHANGED <<eof, writingAtEOF, pages, cacheData, firstDirtyPage, dirtyCount,
                   target, pc, wr, fl>>

ReadMiss ==
    /\ pc = "read" /\ rd.rem > 0
    /\ ~Cached
    /\ StartFlush(CurrentSlot, PagesToRead, "load")
    /\ UNCHANGED <<cacheVars, target, wr, rd>>

ReadReturns ==
    /\ \/ pc = "read" /\ rd.rem = 0
       \/ pc = "read" /\ Cached /\ CurrentOffset >= pages[CurrentSlot].size
       \/ pc = "load" /\ target.size <= CurrentPage * PageSize
       \/ pc = "load" /\ "read" \in Failures
    /\ eof' = (rd.count > 0 /\ rd.rem > 0)
    /\ pc' = rd.back
    /\ rd' = IF rd.back = "idle" THEN NoRead ELSE rd
    /\ UNCHANGED <<position, writingAtEOF, pages, cacheData, firstDirtyPage, dirtyCount,
                   target, wr, fl>>

(* The n bytes the target delivers from the start of the current page fill *)
(* the slots from the current one on; a last, partial page is kept as such.*)
ReadLoad ==
    LET there == Smaller(target.size - CurrentPage * PageSize, PagesToRead * PageSize)
        Start(i) == (i - CurrentSlot) * PageSize
        In(i, o, n) == i >= CurrentSlot /\ Start(i) + o < n
        Byte(w) == IF w \in Watched THEN target.bytes[w] ELSE Junk
    IN  /\ pc = "load"
        /\ there > 0
        /\ \E n \in IF "read" \in Failures THEN 1 .. there ELSE {there} :
              /\ pages' = [i \in Slots |->
                     IF In(i, 0, n)
                     THEN [page |-> CurrentPage + (i - CurrentSlot),
                           size |-> Smaller(n - Start(i), PageSize),
                           isDirty |-> pages[i].isDirty]
                     ELSE pages[i]]
              /\ cacheData' = [i \in Slots |-> [o \in Offsets |->
                     IF In(i, o, n) THEN Byte(CurrentPage * PageSize + Start(i) + o)
                                    ELSE cacheData[i][o]]]
        /\ pc' = "read"
        /\ UNCHANGED <<position, eof, writingAtEOF, firstDirtyPage, dirtyCount, target, frames>>

ReadLoadFails ==
    /\ "seek" \in Failures
    /\ pc = "load"
    /\ ReadFails
    /\ UNCHANGED <<cacheVars, target, wr, fl>>

-----------------------------------------------------------------------------
(* cache_file_write                                                        *)
PagesToWrite == Smaller(PagesOf(wr.rem), NumPages)

(* A slot that holds no page yet (-1) becomes the page being written.      *)
Claimed(i) ==
    IF pages[i].page = -1
    THEN [page |-> CurrentPage, size |-> 0, isDirty |-> pages[i].isDirty]
    ELSE pages[i]
WritableClean == pages[CurrentSlot].page \in {-1, CurrentPage} \/ ~pages[CurrentSlot].isDirty
Writable == pages[CurrentSlot].page \in {-1, CurrentPage}

PreviousSlot == IF CurrentSlot = 0 THEN NumPages - 1 ELSE CurrentSlot - 1
GapOfSlots == /\ ~pages[CurrentSlot].isDirty
              /\ dirtyCount > 0
              /\ ~pages[PreviousSlot].isDirty
(* The page would not extend the run of dirty pages.                       *)
Gap ==
    /\ ~pages[CurrentSlot].isDirty
    /\ dirtyCount > 0
    /\ pages[PreviousSlot].page # CurrentPage - 1 \/ ~pages[PreviousSlot].isDirty

WriteCopy ==
    LET i == CurrentSlot
        n == Smaller(PageSize - CurrentOffset, wr.rem)
        Written(o) == CurrentOffset <= o /\ o < CurrentOffset + n
        Byte(o) == IF CurrentPage * PageSize + o \in Watched THEN wr.value ELSE Junk
    IN  /\ \/ pc = "write" /\ wr.rem > 0 /\ Writable /\ ~Gap
           \/ pc = "mark"
        /\ pages' = [pages EXCEPT ![i] = [page |-> CurrentPage,
                                          size |-> Larger(Claimed(i).size, CurrentOffset + n),
                                          isDirty |-> TRUE]]
        /\ cacheData' = [cacheData EXCEPT ![i] =
                            [o \in Offsets |-> IF Written(o) THEN Byte(o) ELSE cacheData[i][o]]]
        /\ dirtyCount' = IF pages[i].isDirty THEN dirtyCount ELSE dirtyCount + 1
        /\ firstDirtyPage' = IF dirtyCount = 0 THEN i ELSE firstDirtyPage
        /\ wr' = [wr EXCEPT !.rem = wr.rem - n]
        /\ position' = position + n
        /\ pc' = "write"
        /\ UNCHANGED <<eof, writingAtEOF, target, rd, fl>>

(* the sequence of dirty pages must be contiguous: flush all of them       *)
WriteGap ==
    /\ pc = "write" /\ wr.rem > 0
    /\ Writable
    /\ Gap
    /\ pages' = [pages EXCEPT ![CurrentSlot] = Claimed(CurrentSlot)]
    /\ StartFlush(0, NumPages, "mark")
    /\ UNCHANGED <<position, eof, writingAtEOF, cacheData, firstDirtyPage, dirtyCount,
                   target, wr, rd>>

WriteMissAtEOF ==
    /\ pc = "write" /\ wr.rem > 0
    /\ ~Writable
    /\ writingAtEOF
    /\ StartFlush(CurrentSlot, PagesToWrite, "evict")
    /\ UNCHANGED <<cacheVars, target, wr, rd>>

EvictedButLast == {(CurrentSlot + k) % NumPages : k \in 0 .. PagesToWrite - 2}
Evicted == {(CurrentSlot + k) % NumPages : k \in 0 .. PagesToWrite - 1}

WriteEvict ==
    /\ pc = "evict"
    /\ pages' = [i \in Slots |->
                    IF i \in Evicted
                    THEN [page |-> -1, size |-> 0, isDirty |-> pages[i].isDirty]
                    ELSE pages[i]]
    /\ pc' = "write"
    /\ UNCHANGED <<position, eof, writingAtEOF, cacheData, firstDirtyPage, dirtyCount,
                   target, frames>>

(* The pages to be written are read first, by cache_file_read itself.      *)
WriteMiss ==
    /\ pc = "write" /\ wr.rem > 0
    /\ ~Writable
    /\ ~writingAtEOF
    /\ wr' = [wr EXCEPT !.position = position, !.eof = eof]
    /\ rd' = [count |-> PagesToWrite * PageSize, rem |-> PagesToWrite * PageSize, back |-> "ahead"]
    /\ pc' = "read"
    /\ UNCHANGED <<cacheVars, target, fl>>

WriteAhead ==
    /\ pc = "ahead"
    /\ rd.rem = 0 \/ eof
    /\ writingAtEOF' = (writingAtEOF \/ rd.rem > 0)
    /\ position' = wr.position
    /\ eof' = wr.eof
    /\ rd' = NoRead
    /\ wr' = [wr EXCEPT !.position = 0, !.eof = FALSE]
    /\ pc' = "write"
    /\ UNCHANGED <<pages, cacheData, firstDirtyPage, dirtyCount, target, fl>>

(* The read came back short and not for the end of the file: the write     *)
(* returns 0, with the position where the read left it.                    *)
WriteAheadFails ==
    /\ pc = "ahead"
    /\ rd.rem > 0 /\ ~eof
    /\ rd' = NoRead
    /\ wr' = NoWrite
    /\ pc' = "idle"
    /\ UNCHANGED <<cacheVars, target, fl>>

WriteReturns ==
    /\ pc = "write" /\ wr.rem = 0
    /\ wr' = NoWrite
    /\ pc' = "idle"
    /\ UNCHANGED <<cacheVars, target, rd, fl>>

-----------------------------------------------------------------------------
(* The calls of the client.                                                *)
CacheFileSizeFirst ==
    IF dirtyCount > 0
    THEN Larger(target.size, pages[firstDirtyPage].page * PageSize + pages[firstDirtyPage].size)
    ELSE target.size
(* cache_file_size                                                         *)
CacheFileSize ==
    LET last == (firstDirtyPage + dirtyCount - 1) % NumPages
    IN  IF dirtyCount > 0
        THEN Larger(target.size, pages[last].page * PageSize + pages[last].size)
        ELSE target.size

Read(count) ==
    /\ pc = "idle"
    /\ rd' = [count |-> count, rem |-> count, back |-> "idle"]
    /\ pc' = "read"
    /\ UNCHANGED <<cacheVars, target, wr, fl>>

(* Slot 0 has not been used and the file was not empty when it was opened. *)
Blind == pages[0].page = -1 /\ target.size > 0

(* A write that starts inside a page and is not smaller than the cache may *)
(* need more pages than the cache has.                                     *)
Fits(count) == CurrentOffset = 0 \/ PagesOf(count) < NumPages

Write(count, v) ==
    /\ pc = "idle"
    /\ position + count <= MaxSize
    /\ Fits(count) \/ "unfit_write" \in Calls
    /\ ~Blind \/ "blind_write" \in Calls
    /\ position <= CacheFileSize \/ "hole_write" \in Calls
    /\ wr' = [count |-> count, rem |-> count, value |-> v, position |-> 0, eof |-> FALSE]
    /\ pc' = "write"
    /\ UNCHANGED <<cacheVars, target, rd, fl>>

(* SEEK_SET, or SEEK_CUR with the offset that leads to newPosition.  The   *)
(* seek of the target at the end moves nothing a later call depends on.    *)
SeekTo(newPosition) ==
    /\ eof' = FALSE
    /\ position' = newPosition
    /\ writingAtEOF' = FALSE
    /\ UNCHANGED <<pages, cacheData, firstDirtyPage, dirtyCount, target, pc, frames>>

Seek(newPosition) == pc = "idle" /\ SeekTo(newPosition)
SeekEnd == pc = "idle" /\ SeekTo(target.size)

(* mxf_cache_file_flush(minSize)                                           *)
Flush(minSize) ==
    /\ pc = "idle"
    /\ dirtyCount > 0
    /\ StartFlush(firstDirtyPage, PagesOf(minSize), "idle")
    /\ UNCHANGED <<cacheVars, target, wr, rd>>

Close ==
    /\ pc = "idle"
    /\ StartFlush(0, NumPages, "closed")
    /\ UNCHANGED <<cacheVars, target, wr, rd>>

ClientCall ==
    \/ "read" \in Calls /\ \E n \in 1 .. MaxCount : Read(n)
    \/ "write" \in Calls /\ \E n \in 1 .. MaxCount, v \in Values : Write(n, v)
    \/ "seek" \in Calls /\ \E p \in 0 .. MaxSize : Seek(p)
    \/ "seek_end" \in Calls /\ SeekEnd
    \/ "flush" \in Calls /\ \E n \in 1 .. NumPages * PageSize : Flush(n)
    \/ "close" \in Calls /\ Close

FlushStep == FlushWrite \/ FlushSkip \/ FlushReturns \/ FlushAborts \/ FlushFails
ReadStep  == ReadCached \/ ReadMiss \/ ReadReturns \/ ReadLoad \/ ReadLoadFails
WriteStep == WriteCopy \/ WriteGap \/ WriteMissAtEOF \/ WriteEvict \/ WriteMiss
             \/ WriteAhead \/ WriteAheadFails \/ WriteReturns

(* The rest of a call that is in progress.                                 *)
Step == FlushStep \/ ReadStep \/ WriteStep

Next == ClientCall \/ Step

Spec == Init /\ [][Next]_vars
(* A call runs to its end once made; nothing makes the client call.        *)
FairSpec == Spec /\ WF_vars(Step)

-----------------------------------------------------------------------------
TypeOK ==
    /\ position \in Nat
    /\ eof \in BOOLEAN
    /\ writingAtEOF \in BOOLEAN
    /\ pages \in [Slots -> [page : Nat \cup {-1}, size : 0 .. PageSize, isDirty : BOOLEAN]]
    /\ cacheData \in [Slots -> [Offsets -> Bytes]]
    /\ firstDirtyPage \in Slots
    /\ dirtyCount \in 0 .. NumPages
    /\ target \in [size : Nat, bytes : [Watched -> Bytes]]
    /\ pc \in {"idle", "flush", "read", "load", "write", "mark", "evict", "ahead",
               "closed", "aborted"}
    /\ rd \in [count : Nat, rem : Nat, back : {"idle", "ahead"}]
    /\ fl \in [index : Slots, rem : Nat, back : {"idle", "load", "mark", "evict", "closed"}]
    /\ wr \in [count : Nat, rem : Nat, value : Bytes, position : Nat, eof : BOOLEAN]

(* The dirty run.  Outside flush_dirty_pages the dirty slots are exactly   *)
(* firstDirtyPage and the dirtyCount - 1 slots after it: the two counters  *)
(* and the isDirty flags, which the code updates separately, agree.  They  *)
(* hold consecutive pages of the file, which flush_dirty_pages relies on   *)
(* when it writes several slots in one piece.                              *)
RunSlot(k) == (firstDirtyPage + k) % NumPages
DirtyRun ==
    pc \notin {"flush", "aborted"} =>
        /\ {i \in Slots : pages[i].isDirty} = {RunSlot(k) : k \in 0 .. dirtyCount - 1}
        /\ \A k \in 1 .. dirtyCount - 1 :
              pages[RunSlot(k)].page = pages[RunSlot(k - 1)].page + 1

(* All the pages of the run but the last are full: the piece that a flush  *)
(* writes has no bytes in it that are not of the file.                     *)
DirtyPagesFull ==
    pc \notin {"flush", "aborted"} =>
        \A k \in 0 .. dirtyCount - 2 : pages[RunSlot(k)].size = PageSize

(* The file the client sees: the cached bytes, over those of the target.   *)
InCache(w) ==
    LET i == (w \div PageSize) % NumPages
    IN  pages[i].page = w \div PageSize /\ w % PageSize < pages[i].size
ViewByte(w) == IF InCache(w) THEN cacheData[(w \div PageSize) % NumPages][w % PageSize]
                             ELSE target.bytes[w]
View == [w \in Watched |-> ViewByte(w)]

PageEnd(i) == IF pages[i].isDirty THEN pages[i].page * PageSize + pages[i].size ELSE 0
ViewSize ==
    CHOOSE n \in {target.size} \cup {PageEnd(i) : i \in Slots} :
        \A i \in Slots : PageEnd(i) <= n /\ target.size <= n

(* mxf_file_size looks at the last dirty page only.                        *)
SizeIsExact == pc = "idle" => CacheFileSize = ViewSize

(* While it reads ahead for a write the code moves the position and the    *)
(* end-of-file flag of the file, and puts them back afterwards.            *)
ReadingAhead == rd.back = "ahead"
File == INSTANCE MXFFile WITH
            size <- ViewSize, bytes <- View,
            position <- IF ReadingAhead THEN wr.position ELSE position,
            eof <- IF ReadingAhead THEN wr.eof ELSE eof

(* The cache file is an MXFFile: loads and flushes do not show.            *)
ImplementsFile == File!FileSpec

(* Every call returns (or an assertion stops the program).                 *)
CallsReturn == (pc # "idle") ~> (pc \in {"idle", "closed", "aborted"})

(* The assertions of flush_dirty_pages about the dirty run hold.           *)
NoAssertFails == pc # "aborted"
=============================================================================
