----------------------------- MODULE MemoryFile -----------------------------
(***************************************************************************)
(* The file that mxf_memory_file.c keeps in a list of chunks of one size,  *)
(* or, when opened for reading, in one chunk that belongs to the client.   *)
(*                                                                         *)
(* A read, a write or a flush goes from chunk to chunk, one a step; index  *)
(* and offset of the call are posChunkIndex and posChunkPos.  The client's *)
(* positions start at virtualStartPos, those of the chunks at 0.           *)
(***************************************************************************)
EXTENDS Integers, Functions

CONSTANTS ChunkSize,       (* chunkSize of a new file                        *)
          VirtualStarts,   (* the virtualStartPos that clients choose        *)
          ReadSizes,       (* sizes of the memory given to open_read         *)
          MaxSize,         (* bound: no write ends past this chunk position  *)
          MaxCount,        (* bound: bytes of one read or write call         *)
          Watched, Values, Junk,
          Calls,           (* the kinds of calls the client makes            *)
          Failures         (* what may fail                                  *)

ASSUME MemoryFileAssumption ==
    /\ ChunkSize \in Nat \ {0}
    /\ VirtualStarts \subseteq Nat /\ ReadSizes \subseteq Nat
    /\ MaxSize \in Nat /\ MaxCount \in Nat
    /\ Watched \subseteq Nat
    /\ Junk \notin Values
    /\ Calls \subseteq {"read", "write", "seek", "hole", "any_hole", "flush", "close"}
    /\ Failures \subseteq {"realloc", "malloc", "target", "short"}

VARIABLES mode,            (* "closed", "new", or "readOnly"                 *)
          virtualStartPos,
          chunks,          (* [allocSize, size, data] by index               *)
          position, eof,
          pc,              (* "idle", or the loop that is running            *)
          call,            (* the call in progress                           *)
          target           (* the file that the last flush went to           *)

vars == <<mode, virtualStartPos, chunks, position, eof, pc, call, target>>

Bytes == Values \cup {Junk}
Smaller(a, b) == IF a <= b THEN a ELSE b
Larger(a, b)  == IF a >= b THEN a ELSE b

NumChunks == IF chunks = <<>> THEN 0 ELSE 1 + CHOOSE i \in DOMAIN chunks : \A j \in DOMAIN chunks : j <= i

NoCall   == [op |-> "none", rem |-> 0, value |-> Junk, index |-> 0, offset |-> 0]
NoTarget == [done |-> FALSE, size |-> 0, bytes |-> [w \in Watched |-> Junk]]
(* A chunk fresh from malloc() holds anything.                             *)
NewChunk == [allocSize |-> ChunkSize, size |-> 0, data |-> [o \in 0 .. ChunkSize - 1 |-> Junk]]

-----------------------------------------------------------------------------
Closed ==
    /\ mode = "closed" /\ virtualStartPos = 0
    /\ chunks = <<>> /\ position = 0 /\ eof = FALSE
    /\ pc = "idle" /\ call = NoCall /\ target = NoTarget

Init == Closed

OpenNew(start) ==
    /\ mode = "closed"
    /\ mode' = "new" /\ virtualStartPos' = start
    /\ UNCHANGED <<chunks, position, eof, pc, call, target>>

OpenRead(start, n, v) ==
    /\ mode = "closed"
    /\ mode' = "readOnly" /\ virtualStartPos' = start
    /\ chunks' = [i \in {0} |-> [allocSize |-> n, size |-> n,
                     data |-> [o \in 0 .. n - 1 |-> IF start + o \in Watched THEN v ELSE Junk]]]
    /\ UNCHANGED <<position, eof, pc, call, target>>

Close ==
    /\ mode # "closed" /\ pc = "idle"
    /\ "close" \in Calls
    /\ mode' = "closed" /\ virtualStartPos' = 0
    /\ chunks' = <<>> /\ position' = 0 /\ eof' = FALSE
    /\ target' = NoTarget
    /\ UNCHANGED <<pc, call>>

-----------------------------------------------------------------------------
(* mxf_mem_file_get_size                                                   *)
SizeOf(chs, n) == IF n = 0 THEN 0 ELSE ChunkSize * (n - 1) + chs[n - 1].size
FileSize == SizeOf(chunks, NumChunks)

(* get_chunk_pos for position p in the n chunks chs                        *)
IndexAt(p, n) == IF n = 1 THEN 0 ELSE Smaller(p \div ChunkSize, n - 1)
OffsetAt(p, n) == p - ChunkSize * IndexAt(p, n)
IsAt(p, chs, n) ==
    /\ n # 0
    /\ n > 1 => p \div ChunkSize <= n
    /\ OffsetAt(p, n) <= chs[IndexAt(p, n)].size

Return ==
    /\ pc' = "idle"
    /\ call' = NoCall

(* Nothing is read, and eof stays as it was, when the position is beyond   *)
(* the end.                                                                *)
Read(count) ==
    /\ mode # "closed" /\ pc = "idle"
    /\ IsAt(position, chunks, NumChunks)
    /\ pc' = "read"
    /\ call' = [NoCall EXCEPT !.op = "read", !.rem = count,
                    !.index = IndexAt(position, NumChunks), !.offset = OffsetAt(position, NumChunks)]
    /\ UNCHANGED <<mode, virtualStartPos, chunks, position, eof, target>>

(* After n bytes the call has come to the end of a chunk that ends at end. *)
Ended(n, end) == call.offset + n >= end

(* One chunk, which may be at its end already.                             *)
ReadChunk ==
    /\ pc = "read" /\ call.rem > 0 /\ call.index < NumChunks
    /\ LET chunk == chunks[call.index]
           n     == Larger(0, Smaller(chunk.size - call.offset, call.rem))
           ended == Ended(n, chunk.size)
       IN  /\ position' = position + n
           /\ call' = [call EXCEPT !.rem = @ - n,
                          !.index = IF ended THEN @ + 1 ELSE @,
                          !.offset = IF ended THEN 0 ELSE @ + n]
    /\ UNCHANGED <<mode, virtualStartPos, chunks, eof, pc, target>>

ReadReturns ==
    /\ pc = "read"
    /\ call.rem = 0 \/ call.index = NumChunks
    /\ eof' = (call.rem > 0)
    /\ Return
    /\ UNCHANGED <<mode, virtualStartPos, chunks, position, target>>

-----------------------------------------------------------------------------
(* extend_mem_file                                                         *)
RemainderForgotten == 0
Remainder == IF NumChunks = 0 THEN 0 ELSE chunks[NumChunks - 1].allocSize - chunks[NumChunks - 1].size
Missing(count) == position + count - FileSize
NumExtendChunksDown(count) ==
    IF Missing(count) <= Remainder THEN 0 ELSE (Missing(count) - Remainder) \div ChunkSize
NumExtendChunks(count) ==
    IF Missing(count) <= Remainder THEN 0
    ELSE (Missing(count) - Remainder + ChunkSize - 1) \div ChunkSize
Extended(k) == [i \in 0 .. NumChunks + k - 1 |-> IF i < NumChunks THEN chunks[i] ELSE NewChunk]

(* The bytes from the end of the file to the position become part of it:   *)
(* the chunks before the one where the position is are full, and that one  *)
(* ends at the position, counted from where the file has come to by then.  *)
HoleFilled(chs, n) ==
    LET first  == IndexAt(FileSize, n)
        last   == CHOOSE i \in first .. n - 1 :
                     /\ position <= (i + 1) * ChunkSize
                     /\ \A j \in first .. i - 1 : position > (j + 1) * ChunkSize
        upTo(i) == IF i = first THEN FileSize ELSE i * ChunkSize
    IN  [i \in 0 .. n - 1 |->
            IF i \in first .. last - 1 THEN [chs[i] EXCEPT !.size = chs[i].allocSize]
            ELSE IF i = last THEN [chs[i] EXCEPT !.size = position - upTo(i)]
            ELSE chs[i]]
IsHole == position > FileSize

Prepared(count) ==
    LET k == NumExtendChunks(count)
    IN  IF IsHole THEN HoleFilled(Extended(k), NumChunks + k) ELSE Extended(k)

(* The client's holes begin at the end of a chunk, unless it makes any.    *)
HoleAllowed ==
    IsHole => \/ "any_hole" \in Calls
              \/ "hole" \in Calls /\ FileSize % ChunkSize = 0

(* Where get_chunk_pos finds no chunk the index and offset are those that  *)
(* happen to be on the stack.                                              *)
Write(count, v) ==
    /\ mode = "new" /\ pc = "idle"
    /\ position + count <= MaxSize
    /\ HoleAllowed
    /\ LET n == NumChunks + NumExtendChunks(count)
       IN  /\ chunks' = Prepared(count)
           /\ pc' = IF IsAt(position, chunks', n) THEN "write" ELSE "undefined"
           /\ call' = [op |-> "write", rem |-> count, value |-> v,
                       index |-> IndexAt(position, n), offset |-> OffsetAt(position, n)]
    /\ target' = NoTarget
    /\ UNCHANGED <<mode, virtualStartPos, position, eof>>

(* The chunks allocated before the one that could not be stay, empty.      *)
ExtendFails(count) ==
    /\ mode = "new" /\ pc = "idle"
    /\ position + count <= MaxSize
    /\ \E k \in 0 .. NumExtendChunks(count) - 1 :
          /\ IF k = 0 THEN "realloc" \in Failures ELSE "malloc" \in Failures
          /\ chunks' = Extended(k)
    /\ UNCHANGED <<mode, virtualStartPos, position, eof, pc, call, target>>

(* The end of a chunk of n bytes once it is written up to end.             *)
GrownTo(n, end) == end
Grown(n, end) == Larger(n, end)

WriteChunk ==
    /\ pc = "write"
    /\ LET chunk == chunks[call.index]
           n     == Larger(0, Smaller(chunk.allocSize - call.offset, call.rem))
           ended == Ended(n, chunk.allocSize)
           there(o) == virtualStartPos + call.index * ChunkSize + o
           data  == [o \in DOMAIN chunk.data |->
                        IF call.offset <= o /\ o < call.offset + n
                        THEN IF there(o) \in Watched THEN call.value ELSE Junk
                        ELSE chunk.data[o]]
           size  == Grown(chunk.size, call.offset + n)
       IN  /\ chunks' = [chunks EXCEPT ![call.index] = [chunk EXCEPT !.size = size, !.data = data]]
           /\ position' = position + n
           /\ IF call.rem = n
              THEN Return
              ELSE /\ call' = [call EXCEPT !.rem = @ - n,
                                  !.index = IF ended THEN @ + 1 ELSE @,
                                  !.offset = IF ended THEN 0 ELSE @ + n]
                   /\ UNCHANGED pc
    /\ UNCHANGED <<mode, virtualStartPos, eof, target>>

-----------------------------------------------------------------------------
(* SEEK_SET to a position of the client                                    *)
FromStart(newPosition) == newPosition - virtualStartPos

Seek(newPosition) ==
    /\ mode # "closed" /\ pc = "idle"
    /\ FromStart(newPosition) >= 0
    /\ position' = FromStart(newPosition)
    /\ eof' = FALSE
    /\ UNCHANGED <<mode, virtualStartPos, chunks, pc, call, target>>

(* SEEK_END                                                                *)
SeekEnd ==
    /\ mode # "closed" /\ pc = "idle"
    /\ position' = FileSize
    /\ eof' = FALSE
    /\ UNCHANGED <<mode, virtualStartPos, chunks, pc, call, target>>

(* mxf_mem_file_flush_to_file, to a new file                               *)
Flush ==
    /\ mode # "closed" /\ pc = "idle"
    /\ target' = NoTarget
    /\ pc' = "flush"
    /\ call' = [NoCall EXCEPT !.op = "flush"]
    /\ UNCHANGED <<mode, virtualStartPos, chunks, position, eof>>

FlushLengthAlloc(i) == chunks[i].allocSize
FlushLength(i) == chunks[i].size

(* What the target takes of a chunk; that it takes some counts as success. *)
Taken(n) ==
    IF "short" \in Failures THEN 1 .. n ELSE {n}

FlushChunk ==
    /\ pc = "flush" /\ call.index < NumChunks
    /\ \E n \in IF FlushLength(call.index) = 0 THEN {0} ELSE Taken(FlushLength(call.index)) :
          target' = [target EXCEPT !.size = @ + n,
                        !.bytes = [w \in Watched |->
                            LET o == w - virtualStartPos - target.size
                            IN  IF 0 <= o /\ o < n THEN chunks[call.index].data[o] ELSE @[w]]]
    /\ call' = [call EXCEPT !.index = @ + 1]
    /\ UNCHANGED <<mode, virtualStartPos, chunks, position, eof, pc>>

FlushReturns ==
    /\ pc = "flush" /\ call.index = NumChunks
    /\ target' = [target EXCEPT !.done = TRUE]
    /\ Return
    /\ UNCHANGED <<mode, virtualStartPos, chunks, position, eof>>

FlushFails ==
    /\ "target" \in Failures
    /\ pc = "flush" /\ call.index < NumChunks
    /\ FlushLength(call.index) > 0
    /\ Return
    /\ UNCHANGED <<mode, virtualStartPos, chunks, position, eof, target>>

-----------------------------------------------------------------------------
ClientCall ==
    \/ \E s \in VirtualStarts : OpenNew(s)
    \/ \E s \in VirtualStarts, n \in ReadSizes, v \in Values : OpenRead(s, n, v)
    \/ Close
    \/ "read" \in Calls /\ \E n \in 1 .. MaxCount : Read(n)
    \/ "write" \in Calls /\ \E n \in 1 .. MaxCount, v \in Values : Write(n, v)
    \/ "write" \in Calls /\ \E n \in 1 .. MaxCount : ExtendFails(n)
    \/ "seek" \in Calls /\ \E p \in 0 .. MaxSize + virtualStartPos : Seek(p)
    \/ "seek" \in Calls /\ SeekEnd
    \/ "flush" \in Calls /\ Flush

Step == ReadChunk \/ ReadReturns \/ WriteChunk \/ FlushChunk \/ FlushReturns \/ FlushFails

Next == ClientCall \/ Step

Spec == Init /\ [][Next]_vars

-----------------------------------------------------------------------------
TypeOK ==
    /\ mode \in {"closed", "new", "readOnly"}
    /\ virtualStartPos \in Nat /\ position \in Nat /\ eof \in BOOLEAN
    /\ DOMAIN chunks = 0 .. NumChunks - 1
    /\ \A i \in DOMAIN chunks :
          /\ chunks[i].allocSize \in Nat
          /\ chunks[i].size \in 0 .. chunks[i].allocSize
          /\ chunks[i].data \in [0 .. chunks[i].allocSize - 1 -> Bytes]
    /\ pc \in {"idle", "read", "write", "flush", "undefined"}
    /\ call.rem \in Nat /\ call.value \in Bytes
    /\ pc \in {"read", "write"} /\ call.rem > 0 /\ call.index < NumChunks =>
          call.offset \in 0 .. chunks[call.index].allocSize
    /\ pc = "write" => call.index < NumChunks
    /\ target \in [done : BOOLEAN, size : Nat, bytes : [Watched -> Bytes]]

(* The bytes in the chunks, whatever their number.                         *)
Total == FoldFunction(+, 0, [i \in DOMAIN chunks |-> chunks[i].size])

(* The size is worked out from the last chunk alone, which has room only   *)
(* if a chunk before it does not.                                          *)
SizeIsTotal == pc = "idle" => FileSize = Total

(* A flush that reports success has put every byte where it belongs.       *)
FlushIsWhole ==
    target.done =>
        /\ target.size = Total
        /\ \A w \in Watched : w >= virtualStartPos =>
              target.bytes[w] = IF w - virtualStartPos < Total
                                THEN chunks[IndexAt(w - virtualStartPos, NumChunks)].data[OffsetAt(w - virtualStartPos, NumChunks)]
                                ELSE Junk

ViewSize == virtualStartPos + IF pc = "idle" THEN FileSize ELSE Total
ViewByte(w) ==
    LET p == w - virtualStartPos
    IN  IF p >= 0 /\ p < Total /\ OffsetAt(p, NumChunks) < chunks[IndexAt(p, NumChunks)].size
        THEN chunks[IndexAt(p, NumChunks)].data[OffsetAt(p, NumChunks)] ELSE Junk
View == [w \in Watched |-> ViewByte(w)]
Tell == virtualStartPos + position

File == INSTANCE MXFFile WITH size <- ViewSize, bytes <- View, position <- Tell

Opened ==
    /\ mode # mode'
    /\ Tell' = virtualStartPos' /\ eof' = FALSE

(* The write of a hole makes it part of the file first, and holds anything.*)
HoleMade ==
    /\ pc = "idle" /\ pc' = "write"
    /\ Tell > ViewSize /\ ViewSize' = Tell
    /\ View' = View
    /\ Tell' = Tell /\ eof' = eof

(* The chunks are one MXFFile to a client, from any virtual start, also    *)
(* when memory runs out before a write has begun.                          *)
ImplementsFile ==
    File!Open /\ [][File!FileNext \/ Opened \/ HoleMade]_<<ViewSize, View, Tell, eof>>
=============================================================================
