---------------------------- MODULE Interleaver ----------------------------
(***************************************************************************)
(* The read/write interleaver, mxf_rw_intl_file.c.                         *)
(*                                                                         *)
(* Files that are written get a cache (mxf_cache_file.c) each; what is in  *)
(* the caches is flushed while other files are read: every time the reads  *)
(* together have gone on by BlockSize bytes there is a round of flushes    *)
(* that writes about as much.  The aim is to read and write the disk by    *)
(* turns and in large pieces.                                              *)
(*                                                                         *)
(* Each iteration of the loops of intl_file_read and flush_writer_data is  *)
(* a step.  Of a cache only the number of dirty pages is kept, which is    *)
(* all that the interleaver asks of it; CacheFile models the rest.  Of     *)
(* readCount only the remainder by BlockSize is kept, all that is used.    *)
(***************************************************************************)
EXTENDS Integers

CONSTANTS BlockSize,   (* interleaveBlockSize, in bytes                    *)
          PageSize,    (* bytes of a page of the caches                    *)
          CachePages,  (* pages of each cache                              *)
          MaxWriters,  (* bound: files opened for writing                  *)
          MaxCount,    (* bound: bytes of one call of read                 *)
          Failures     (* {"write"} if the files may refuse to be written  *)

ASSUME InterleaverAssumption ==
    /\ BlockSize \in Nat \ {0}
    /\ PageSize \in Nat \ {0}
    /\ CachePages \in Nat \ {0}
    /\ MaxWriters \in Nat
    /\ MaxCount \in Nat
    /\ Failures \subseteq {"write"}

VARIABLES readCount,             (* bytes read so far, modulo BlockSize     *)
          numWriters,
          dirty,                 (* dirty pages of each writer's cache      *)
          lastWriterIndexFlush,
          loop,                  (* the loop the call in progress is in     *)
          rd,                    (* frame of intl_file_read, kept when it   *)
                                 (* has returned                            *)
          fl,                    (* frame of flush_writer_data              *)
          overtaken              (* history: how often v was flushed since  *)
                                 (* w was, or was opened, up to 2           *)

interleaverVars == <<readCount, numWriters, dirty, lastWriterIndexFlush, loop, rd, fl, overtaken>>

Least(a, b) == IF a <= b THEN a ELSE b
PagesOf(n)    == (n + PageSize - 1) \div PageSize

Slots   == 0 .. MaxWriters - 1
Writers == 0 .. numWriters - 1
Source  == -1      (* a file opened for reading                             *)

NoRead  == [file |-> Source, count |-> 0, rem |-> 0, flushCount |-> 0, short |-> FALSE,
            start |-> 0, rounds |-> 0, missed |-> FALSE]
NoFlush == [index |-> 0, i |-> 0, rem |-> 0, pages |-> 0]

InterleaverInit ==
    /\ readCount = 0
    /\ numWriters = 0
    /\ dirty = [w \in Slots |-> 0]
    /\ lastWriterIndexFlush = 0
    /\ loop = "idle"
    /\ rd = NoRead
    /\ fl = NoFlush
    /\ overtaken = [w \in Slots |-> [v \in Slots |-> 0]]

-----------------------------------------------------------------------------
(* mxf_rw_intl_open of a file for writing: add_cached_writer.              *)
OpenWriter ==
    /\ loop = "idle"
    /\ numWriters < MaxWriters
    /\ numWriters' = numWriters + 1
    /\ UNCHANGED <<readCount, dirty, lastWriterIndexFlush, loop, rd, fl, overtaken>>

(* Any write of a byte or more leaves its page dirty; it may flush others. *)
WriteOf(w) ==
    /\ loop = "idle"
    /\ \E d \in (IF "write" \in Failures THEN 0 ELSE 1) .. CachePages :
           dirty' = [dirty EXCEPT ![w] = d]
    /\ UNCHANGED <<readCount, numWriters, lastWriterIndexFlush, loop, rd, fl, overtaken>>

-----------------------------------------------------------------------------
(* intl_file_read                                                          *)
FlushCountOfCall(count) == count \div BlockSize
(* The ends of blocks that a read of count bytes reaches.                  *)
FlushCount(count) == (readCount + count) \div BlockSize

Read(file, count) ==
    /\ loop = "idle"
    /\ rd' = [file |-> file, count |-> count, rem |-> count, flushCount |-> FlushCount(count),
              short |-> FALSE, start |-> readCount, rounds |-> 0, missed |-> FALSE]
    /\ loop' = "read"
    /\ UNCHANGED <<readCount, numWriters, dirty, lastWriterIndexFlush, fl, overtaken>>

(* have_writer_data                                                        *)
HaveWriterData == \E w \in Writers : dirty[w] > 0

FirstWriterAgain == lastWriterIndexFlush
(* flush_writer_data begins behind the last writer it has flushed.         *)
FirstWriter == (lastWriterIndexFlush + 1) % numWriters
FlushFrame == [index |-> FirstWriter, i |-> 0, rem |-> BlockSize, pages |-> 0]

(* A target that has once given less than it was asked for is at its end.  *)
Given(wanted) == IF rd.short THEN {0} ELSE 0 .. wanted

(* The target gives n bytes.  It may be a writer itself; the read then     *)
(* goes through its cache, which may flush pages to make room.             *)
Transfer(n) ==
    /\ readCount' = (readCount + n) % BlockSize
    /\ IF rd.file \in Writers
       THEN \E d \in 0 .. dirty[rd.file] : dirty' = [dirty EXCEPT ![rd.file] = d]
       ELSE UNCHANGED dirty

(* A block is read, and a round of flushes follows; a target with fewer    *)
(* bytes than wanted ends the call only after it.                          *)
ReadBlock ==
    LET wanted == Least(rd.rem, BlockSize)
    IN  /\ loop = "read" /\ rd.rem > 0
        /\ rd.flushCount > 0
        /\ HaveWriterData
        /\ \E n \in Given(wanted) :
              /\ Transfer(n)
              /\ rd' = [rd EXCEPT !.rem = rd.rem - n, !.short = (n # wanted)]
        /\ fl' = FlushFrame
        /\ loop' = "flush"
        /\ UNCHANGED <<numWriters, lastWriterIndexFlush, overtaken>>

AfterPiece(n) == IF n = rd.rem THEN "read" ELSE "idle"

(* All that remains is read at once.  With nothing to flush now, nothing   *)
(* is flushed in the rest of the call.                                     *)
ReadRest ==
    /\ loop = "read" /\ rd.rem > 0
    /\ ~(rd.flushCount > 0 /\ HaveWriterData)
    /\ \E n \in Given(rd.rem) :
          /\ Transfer(n)
          /\ rd' = [rd EXCEPT !.rem = rd.rem - n, !.short = (n # rd.rem), !.flushCount = 0,
                              !.missed = (rd.missed \/ rd.flushCount > 0)]
          /\ loop' = AfterPiece(n)
    /\ UNCHANGED <<numWriters, lastWriterIndexFlush, fl, overtaken>>

ReadReturns ==
    /\ loop = "read" /\ rd.rem = 0
    /\ loop' = "idle"
    /\ UNCHANGED <<readCount, numWriters, dirty, lastWriterIndexFlush, rd, fl, overtaken>>

-----------------------------------------------------------------------------
(* flush_writer_data                                                       *)
PagesFlushedOfBlock(w) ==
    LET all == Least(dirty[w], PagesOf(BlockSize))
    IN  IF "write" \in Failures THEN 0 .. all ELSE {all}
(* mxf_cache_file_flush takes whole pages, as many as hold rem bytes or as *)
(* there are; fewer if the target fails.                                   *)
PagesFlushed(w) ==
    LET all == Least(dirty[w], PagesOf(fl.rem))
    IN  IF "write" \in Failures THEN 0 .. all ELSE {all}

(* The round ends when every writer was flushed, or with the first that    *)
(* has nothing to flush: the turn stays with that one.                     *)
Stops == fl.i = numWriters \/ dirty[fl.index] = 0

(* flush_writer_data returns 1; the count of rounds goes down, and the     *)
(* read goes on unless its last piece was short.                           *)
RoundDone(pages) ==
    /\ rd' = [rd EXCEPT !.flushCount = rd.flushCount - 1, !.rounds = rd.rounds + 1]
    /\ loop' = IF rd.short THEN "idle" ELSE "read"
    /\ fl' = [NoFlush EXCEPT !.pages = pages]

OvertakenBy(w) ==
    [x \in Slots |-> [v \in Slots |->
        IF x = w \/ x \notin Writers THEN 0
        ELSE IF v = w THEN Least(overtaken[x][v] + 1, 2) ELSE overtaken[x][v]]]

FlushWriter ==
    LET w == fl.index
    IN  /\ loop = "flush"
        /\ ~Stops
        /\ \E n \in PagesFlushed(w) \ {0} :
              /\ dirty' = [dirty EXCEPT ![w] = dirty[w] - n]
              /\ IF n * PageSize >= fl.rem
                 THEN RoundDone(fl.pages + n)
                 ELSE /\ fl' = [index |-> (w + 1) % numWriters, i |-> fl.i + 1,
                                rem |-> fl.rem - n * PageSize, pages |-> fl.pages + n]
                      /\ UNCHANGED <<rd, loop>>
        /\ lastWriterIndexFlush' = w
        /\ overtaken' = OvertakenBy(w)
        /\ UNCHANGED <<readCount, numWriters>>

RoundStops ==
    /\ loop = "flush"
    /\ Stops
    /\ RoundDone(fl.pages)
    /\ UNCHANGED <<readCount, numWriters, dirty, lastWriterIndexFlush, overtaken>>

(* Not one page could be written: the read breaks off.                     *)
RoundFails ==
    /\ loop = "flush"
    /\ ~Stops
    /\ 0 \in PagesFlushed(fl.index)
    /\ rd' = [rd EXCEPT !.missed = TRUE]
    /\ loop' = "idle"
    /\ fl' = NoFlush
    /\ UNCHANGED <<readCount, numWriters, dirty, lastWriterIndexFlush, overtaken>>

-----------------------------------------------------------------------------
Call ==
    \/ OpenWriter
    \/ \E w \in Writers : WriteOf(w)
    \/ \E f \in Writers \cup {Source}, n \in 1 .. MaxCount : Read(f, n)

Step == ReadBlock \/ ReadRest \/ ReadReturns \/ FlushWriter \/ RoundStops \/ RoundFails

NextInterleaver == Call \/ Step
InterleaverSpec == InterleaverInit /\ [][NextInterleaver]_interleaverVars

-----------------------------------------------------------------------------
InterleaverOK ==
    /\ readCount \in 0 .. BlockSize - 1
    /\ numWriters \in 0 .. MaxWriters
    /\ dirty \in [Slots -> 0 .. CachePages]
    /\ lastWriterIndexFlush \in Writers \cup {0}
    /\ loop \in {"idle", "read", "flush"}
    /\ rd \in [file : Slots \cup {Source}, count : Nat, rem : Nat, flushCount : Nat,
               short : BOOLEAN, start : 0 .. BlockSize - 1, rounds : Nat, missed : BOOLEAN]
    /\ fl \in [index : Writers \cup {0}, i : 0 .. numWriters, rem : 0 .. BlockSize, pages : Nat]
    /\ overtaken \in [Slots -> [Slots -> 0 .. 2]]

(* Reading waits for little writing: a round that goes through several     *)
(* caches writes less than one page more than a block in all.              *)
RoundIsBounded == (fl.pages - 1) * PageSize < BlockSize

(* Reads and writes keep the same pace, however the reads of the files     *)
(* that share the interleaver cut across the blocks: there was one round   *)
(* for every end of a block passed, none less unless there was nothing to  *)
(* flush or a flush failed, and one more only if the read came back short. *)
BlocksPassed == (rd.start + (rd.count - rd.rem)) \div BlockSize
PaceKept ==
    loop # "flush" =>
        /\ rd.rounds <= BlocksPassed + (IF rd.short THEN 1 ELSE 0)
        /\ ~rd.missed /\ loop = "idle" => rd.rounds >= BlocksPassed

(* The writers take turns, over all the rounds, cut off or failed ones     *)
(* included: none is flushed a second time while another one waits.        *)
InTurn == \A w, v \in Writers : overtaken[w][v] <= 1
=============================================================================
