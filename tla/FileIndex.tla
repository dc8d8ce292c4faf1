----------------------------- MODULE FileIndex -----------------------------
(***************************************************************************)
(* The index that the reader example makes of a file and by which it finds *)
(* frames: mxf_index_helper.c, the frame functions of mxf_op1a_reader.c    *)
(* and the checks of mxf_reader.c before them.                             *)
(*                                                                         *)
(* The file may still be growing.  Then its partitions are not known, but  *)
(* for the header partition; and what was read or looked up before may be  *)
(* different now.                                                          *)
(*                                                                         *)
(* A file is a row of cells: the key and length (KL) of a KLV are one, its *)
(* value is as many as its length says.  Positions, lengths and byte       *)
(* counts are in cells.  All frames have the same elements, as the reader  *)
(* demands; a frame is what the code calls a content package.              *)
(***************************************************************************)
EXTENDS Integers, Sequences, FiniteSets, FiniteSetsExt, Functions

CONSTANTS Files,      (* each a sequence of cells and one of partitions    *)
          Elements,   (* the elements of a frame: a sequence of [key, len] *)
          Opened,     (* how much of a growing file is there when it is    *)
                      (* opened: "frame", the first frame, or "anything"   *)
          Clients     (* what clients do: "retry" a read that failed       *)

(* A cell is a KL, with the frame it belongs to or -1, or part of a value. *)
Cells == [key : STRING, len : Nat, frame : Nat \cup {-1}]
(* A partition, with the position of its pack.                             *)
Partitions == [kind : {"header", "body", "footer"}, at : Nat, hasEssence : BOOLEAN,
               headerByteCount : Nat, indexByteCount : Nat, hasFill : BOOLEAN]

ASSUME IndexAssumption ==
    /\ \A f \in Files : f.cells \in Seq(Cells) /\ f.parts \in Seq(Partitions) /\ f.parts # <<>>
    /\ Elements \in Seq([key : STRING, len : Nat]) /\ Elements # <<>>
    /\ Opened \in {"frame", "anything"}
    /\ Clients \subseteq {"retry"}

VARIABLES file,
          written,        (* cells of it that are there                     *)
          duration,       (* clip.duration: what the metadata says, or -1   *)
          pc,
          ix,             (* the FileIndex                                  *)
          filePosition,
          cpCount,        (* local of read_content_package                  *)
          lost            (* the last read failed and nothing found the     *)
                          (* way back since                                 *)

vars == <<file, written, duration, pc, ix, filePosition, cpCount, lost>>

-----------------------------------------------------------------------------
(* The file, as it will be in the end.                                     *)
File == file.cells
Parts == file.parts
PackLen == 2
FillLen == 2

StartKey == Elements[1].key
Frames(cells) == {p \in DOMAIN cells : cells[p].key = StartKey}
FrameStart(n) == CHOOSE p \in 0 .. Len(File) - 1 : p + 1 \in Frames(File) /\ File[p + 1].frame = n
AllFrames == Cardinality(Frames(File))
FramesBefore(at) == Cardinality({p \in Frames(File) : p <= at})
(* Where in a frame an element begins, and the frame ends.                 *)
ElementStart[e \in 1 .. Len(Elements) + 1] ==
    IF e = 1 THEN 0 ELSE ElementStart[e - 1] + 1 + Elements[e - 1].len
FrameLen == ElementStart[Len(Elements) + 1]
FrameThere(n) == n \in 0 .. AllFrames - 1 /\ FrameStart(n) + FrameLen <= written

-----------------------------------------------------------------------------
(* mxf_read_kl at a position.  What is read from inside a value is no key. *)
NullKL == [key |-> "null", len |-> 0, frame |-> -1]
AtEOF(p) == p >= written
KLAt(p) == File[p + 1]

IsElement(kl) == \E e \in DOMAIN Elements : Elements[e].key = kl.key

(* The index: its partitions are the first ones of the file.  Positions in *)
(* the list count from 1, so that 0 is the code's -1.                      *)
NewEntry == [essenceStartPos |-> -1, startPosition |-> -1]
NoIndex == [partitions |-> <<>>, currentPartition |-> 0, isComplete |-> FALSE, currentPosition |-> -1,
            indexedDuration |-> 0, contentPackageLen |-> 0, next |-> NullKL]

HasEssence(k) == Parts[k].hasEssence
PartitionDataStart(k) == Parts[k].at + PackLen

Failed(index) == [result |-> "failed", ix |-> index]
Crashed == [result |-> "crashed", ix |-> NoIndex]
Done(index, at) == [result |-> "done", ix |-> index, at |-> at]

(* position_at_start_essence: past the fill, the header metadata and the   *)
(* index, unless the place is known.                                       *)
EssenceStart(i, k) ==
    IF i.partitions[k].essenceStartPos >= 0
    THEN i.partitions[k].essenceStartPos
    ELSE PartitionDataStart(k) + (IF Parts[k].hasFill THEN FillLen ELSE 0)
             + Parts[k].headerByteCount + Parts[k].indexByteCount

PositionAtStartEssence(i, k) ==
    LET start == EssenceStart(i, k)
    IN  IF AtEOF(start) \/ ~IsElement(KLAt(start))
        THEN Failed(i)
        ELSE Done([i EXCEPT !.partitions[k].essenceStartPos = start, !.next = KLAt(start)], start + 1)

(* add_partition_index_entry reads a pack, at the position after its KL,   *)
(* and gives its caller no entry; the caller goes on with it regardless.   *)
AddPartition(i, at) == IF at + PackLen - 1 <= written THEN Crashed ELSE Failed(i)

NextPackBehind(p) == {q \in p .. written - 1 : KLAt(q).key = "pack"}
First(S) == CHOOSE k \in S : \A j \in S : k <= j

(* move_to_next_partition_with_essence                                     *)
MoveToNext(i, at) ==
    LET last == Len(i.partitions)
        candidates == {k \in i.currentPartition + 1 .. last : HasEssence(k)}
        packs == NextPackBehind(PartitionDataStart(last))
        atLast == [i EXCEPT !.currentPartition = last]
    IN  IF candidates # {}
        THEN PositionAtStartEssence([i EXCEPT !.currentPartition = First(candidates)], First(candidates))
        ELSE IF i.isComplete
        THEN Failed(i)
        ELSE IF i.currentPartition < last
        THEN IF packs = {} THEN Failed([atLast EXCEPT !.next = NullKL])
                           ELSE AddPartition(atLast, First(packs) + 1)
        ELSE IF i.next.key = "pack" THEN AddPartition(i, at) ELSE Failed(i)

-----------------------------------------------------------------------------
(* create_index, and complete_partition_index                              *)
(* The content package goes on up to the next first element or partition,  *)
(* or to the end of the file.                                              *)
ToNextFrame(start) ==
    LET ends == {p \in start + 1 .. written - 1 : KLAt(p).key = StartKey}
    IN  IF ends # {} THEN First(ends) - start ELSE written - start
ContentPackageLen(start) ==
    LET ends == {p \in start + 1 .. written - 1 : KLAt(p).key \in {StartKey, "pack"}}
        kls == {p \in start .. written - 1 : KLAt(p).key # "value"}
        lastKL == CHOOSE p \in kls : \A q \in kls : q <= p
    IN  IF ends # {} THEN First(ends) - start ELSE lastKL + 1 + KLAt(lastKL).len - start

PackagesFromPack(i, k) ==
    (Parts[k + 1].at - PartitionDataStart(k)) \div i.contentPackageLen
NumContentPackages(i, k) ==
    (Parts[k + 1].at - i.partitions[k].essenceStartPos) \div i.contentPackageLen

EssencePartitions(i) == {k \in DOMAIN i.partitions : HasEssence(k)}

PackagesIn(i, ks) == MapThenSumSet(LAMBDA k : NumContentPackages(i, k), ks)

WithEssenceStarts(i) ==
    [i EXCEPT !.partitions = [k \in DOMAIN i.partitions |->
        [i.partitions[k] EXCEPT !.essenceStartPos = IF HasEssence(k) THEN EssenceStart(i, k) ELSE -1]]]
(* The last partition of the index has no count; it is -1 there.           *)
WithPositions(i) ==
    LET Before(k) == {j \in EssencePartitions(i) : j < k}
    IN  [i EXCEPT
          !.partitions = [k \in DOMAIN i.partitions |->
              [i.partitions[k] EXCEPT !.startPosition = IF HasEssence(k) THEN PackagesIn(i, Before(k)) ELSE -1]],
          !.indexedDuration = PackagesIn(i, EssencePartitions(i) \ {Len(i.partitions)})]

CreateIndex(n) ==
    LET new == [NoIndex EXCEPT !.partitions = [k \in 1 .. n |-> NewEntry],
                               !.isComplete = Parts[n].kind = "footer"]
        first == MoveToNext(new, 0)
    IN  IF first.result # "done"
        THEN [first EXCEPT !.ix = NoIndex]
        ELSE LET full == WithPositions(WithEssenceStarts(
                             [new EXCEPT !.contentPackageLen = ContentPackageLen(first.at - 1)]))
                 start == MoveToNext(full, 0)
             IN  IF \E k \in EssencePartitions(full) : PositionAtStartEssence(full, k).result # "done"
                 THEN Failed(NoIndex)
                 ELSE [start EXCEPT !.ix.currentPosition = 0]

-----------------------------------------------------------------------------
(* set_position                                                            *)
(* The place of a frame in partition k, whether or not the frame is there. *)
SeekIn(i, k, position) ==
    LET e == i.partitions[k]
        p == e.essenceStartPos + (position - e.startPosition) * i.contentPackageLen
        there == [i EXCEPT !.currentPartition = k, !.currentPosition = position]
    IN  IF AtEOF(p) THEN Failed([there EXCEPT !.next = NullKL])
                    ELSE Done([there EXCEPT !.next = KLAt(p)], p + 1)

(* Back through the partitions to the one that has the frame.              *)
Backward(i, position) ==
    LET before == {k \in EssencePartitions(i) :
                      k <= i.currentPartition /\ i.partitions[k].startPosition <= position}
        k == CHOOSE b \in before : \A c \in before : c <= b
    IN  IF before = {} THEN Failed([i EXCEPT !.currentPartition = 1]) ELSE SeekIn(i, k, position)

EndsBefore(i, k, position) == position - i.partitions[k].startPosition > NumContentPackages(i, k)

(* On through the partitions with essence, up to the one that the frame    *)
(* may be in; in the last one that is known it is looked for wherever it   *)
(* would be.                                                               *)
OnFrom(i, k) == MoveToNext([i EXCEPT !.currentPartition = k], 0)
Forward(i, position) ==
    LET has(k) == k = Len(i.partitions) \/ ~EndsBefore(i, k, position)
        stops == {k \in EssencePartitions(i) : k >= i.currentPartition /\ (has(k) \/ OnFrom(i, k).result # "done")}
        k == First(stops)
    IN  IF has(k) THEN SeekIn(i, k, position) ELSE OnFrom(i, k)

RestoredPosition(i, backup) == [i EXCEPT !.currentPartition = backup.currentPartition,
                                         !.currentPosition = backup.currentPosition]
Restored(i, backup) == [i EXCEPT !.currentPartition = backup.currentPartition,
                                 !.currentPosition = backup.currentPosition,
                                 !.next = backup.next]

SetPosition(i, at, position) ==
    LET moved == IF position < i.currentPosition THEN Backward(i, position)
                 ELSE IF position > i.currentPosition THEN Forward(i, position)
                 ELSE IF i.next.key = StartKey THEN Done(i, at)
                 ELSE IF i.next.key = "pack" THEN MoveToNext(i, at)
                 ELSE Failed(i)
    IN  IF moved.result = "failed" THEN [result |-> "failed", ix |-> Restored(moved.ix, i), at |-> at] ELSE moved

EndOfEssence(i) == i.isComplete /\ i.currentPosition >= i.indexedDuration

(* get_last_written_frame_number, and of the index.                        *)
WrittenFrames(e) == e.startPosition + (written - e.essenceStartPos) \div ix.contentPackageLen
TargetPosition(e) == e.startPosition + (written - e.essenceStartPos) \div ix.contentPackageLen - 1
LastInIndex ==
    LET target == TargetPosition(ix.partitions[ix.currentPartition])
    IN  IF duration = 0 THEN 1
        ELSE IF ix.isComplete THEN ix.indexedDuration - 1
        ELSE IF Len(ix.partitions) # 1 THEN -1
        ELSE IF duration >= 0 /\ target >= duration THEN duration - 1
        ELSE target
LastWrittenFrame ==
    IF duration >= 0 /\ ix.currentPosition > duration THEN duration - 1 ELSE LastInIndex

-----------------------------------------------------------------------------
Init ==
    /\ file \in Files
    /\ written \in EssenceStart([NoIndex EXCEPT !.partitions = <<NewEntry>>], 1) .. Len(File)
    /\ Opened = "frame" /\ HasEssence(1) => FrameThere(0)
    /\ duration \in {-1, AllFrames}
    /\ pc = "closed"
    /\ ix = NoIndex
    /\ filePosition = 0 /\ cpCount = 0
    /\ lost = FALSE

(* The writer of the file.                                                 *)
Grow ==
    /\ written < Len(File)
    /\ written' = written + 1
    /\ UNCHANGED <<file, duration, pc, ix, filePosition, cpCount, lost>>

(* What comes of a call; wherever pc is if it succeeds.                    *)
Outcome(r, success) ==
    /\ pc' = IF r.result = "done" THEN success ELSE IF r.result = "crashed" THEN "crashed" ELSE pc
    /\ ix' = r.ix
    /\ filePosition' = IF r.result = "done" THEN r.at ELSE filePosition

(* op1a_initialise_reader: all partitions are known, by the random index   *)
(* pack or the header partition, or only the header partition is.          *)
Open(n) ==
    /\ pc = "closed"
    /\ n = Len(Parts) => written = Len(File)
    /\ Outcome(CreateIndex(n), "idle")
    /\ UNCHANGED <<file, written, duration, cpCount, lost>>

InClip(n) == duration >= 0 => n <= duration

PositionAtFrame(n) ==
    /\ pc = "idle"
    /\ InClip(n)
    /\ n # ix.currentPosition
    /\ LET r == SetPosition(ix, filePosition, n)
       IN  Outcome(r, "idle") /\ lost' = (lost /\ r.result # "done")
    /\ UNCHANGED <<file, written, duration, cpCount>>

FramesLeft == InClip(ix.currentPosition + 1) /\ ~EndOfEssence(ix)

SkipNextFrame ==
    /\ pc = "idle"
    /\ FramesLeft
    /\ LET r == SetPosition(ix, filePosition, ix.currentPosition + 1)
       IN  Outcome(r, "idle") /\ lost' = (lost /\ r.result # "done")
    /\ UNCHANGED <<file, written, duration, cpCount>>

(* read_next_frame, up to where it reads the elements.                     *)
ReadNextFrame ==
    /\ pc = "idle"
    /\ lost => "retry" \in Clients
    /\ FramesLeft
    /\ LET r == SetPosition(ix, filePosition, ix.currentPosition)
       IN  Outcome(r, "package") /\ cpCount' = IF r.result = "done" THEN 1 ELSE 0
    /\ UNCHANGED <<file, written, duration, lost>>

ReadFails(at) ==
    /\ pc' = "idle"
    /\ filePosition' = at
    /\ lost' = TRUE
    /\ cpCount' = 0

(* The listener wants the element, and the file ends in it.                *)
ReadElementFails ==
    /\ pc = "package"
    /\ filePosition + ix.next.len > written
    /\ ReadFails(written)
    /\ UNCHANGED <<file, written, duration, ix>>

(* The element is delivered, or skipped whether it is there or not; but    *)
(* nothing follows it, which is taken for a frame of the wrong length.     *)
LastElement ==
    /\ pc = "package"
    /\ AtEOF(filePosition + ix.next.len)
    /\ ix' = [ix EXCEPT !.next = NullKL]
    /\ ReadFails(filePosition + ix.next.len)
    /\ UNCHANGED <<file, written, duration>>

(* What follows the element is still of the frame, or ends it; unless the  *)
(* frame has the wrong length.                                             *)
ReadElement ==
    LET at == filePosition + ix.next.len
        count == cpCount + ix.next.len + 1
        whole == count = ix.contentPackageLen + 1
        read == [ix EXCEPT !.next = KLAt(at)]
    IN  /\ pc = "package"
        /\ ~AtEOF(at)
        /\ filePosition' = at + 1
        /\ \/ /\ count <= ix.contentPackageLen
              /\ ix' = read /\ cpCount' = count
              /\ UNCHANGED <<pc, lost>>
           \/ /\ count > ix.contentPackageLen
              /\ ix' = IF whole THEN [read EXCEPT !.currentPosition = @ + 1] ELSE read
              /\ pc' = "idle" /\ cpCount' = 0 /\ lost' = (lost \/ ~whole)
        /\ UNCHANGED <<file, written, duration>>

Next ==
    \/ Grow
    \/ \E n \in {1, Len(Parts)} : Open(n)
    \/ \E n \in 0 .. AllFrames + 1 : PositionAtFrame(n)
    \/ SkipNextFrame \/ ReadNextFrame
    \/ ReadElement \/ ReadElementFails \/ LastElement

Spec == Init /\ [][Next]_vars

-----------------------------------------------------------------------------
(* Files as they are written.  Partitions follow each other.  Essence,     *)
(* which a footer has none of, is whole frames from behind the index on to *)
(* the next partition; frames are numbered as they come, and elements      *)
(* occur nowhere else.                                                     *)
StartOf(f, k) == f.parts[k].at + PackLen + (IF f.parts[k].hasFill THEN FillLen ELSE 0)
                     + f.parts[k].headerByteCount + f.parts[k].indexByteCount
EndOf(f, k) == IF k = Len(f.parts) THEN Len(f.cells) ELSE f.parts[k + 1].at
ElementAt(o) == {e \in DOMAIN Elements : ElementStart[e] = o}
CellIs(cell, o) == /\ ElementAt(o) = {} => cell.key = "value"
                   /\ \A e \in ElementAt(o) : cell.key = Elements[e].key /\ cell.len = Elements[e].len
EssenceIs(f, k) ==
    /\ StartOf(f, k) < EndOf(f, k)
    /\ (EndOf(f, k) - StartOf(f, k)) % FrameLen = 0
    /\ \A p \in StartOf(f, k) .. EndOf(f, k) - 1 : CellIs(f.cells[p + 1], (p - StartOf(f, k)) % FrameLen)
ProperFile(f) ==
    /\ \A k \in DOMAIN f.parts :
          /\ StartOf(f, k) <= EndOf(f, k)
          /\ f.cells[f.parts[k].at + 1].key = "pack"
          /\ f.parts[k].hasEssence => EssenceIs(f, k)
          /\ f.parts[k].kind = "footer" => k = Len(f.parts) /\ ~f.parts[k].hasEssence
    /\ \A p \in DOMAIN f.cells :
          IsElement(f.cells[p]) => \E k \in DOMAIN f.parts : /\ f.parts[k].hasEssence
                                                            /\ p - 1 \in StartOf(f, k) .. EndOf(f, k) - 1
    /\ \A p \in Frames(f.cells) : f.cells[p].frame = Cardinality({q \in Frames(f.cells) : q < p})
FilesProper ==
    /\ \A e \in DOMAIN Elements : /\ Elements[e].key \notin {"pack", "value"}
                                  /\ Elements[e].key = StartKey => e = 1
    /\ \A f \in Files : ProperFile(f)
(* All partitions are known of a file that has its footer.                 *)
FootersWritten == \A f \in Files : Len(f.parts) > 1 => f.parts[Len(f.parts)].kind = "footer"

(* The frames in the partitions that the index knows.                      *)
IndexedFrames == IF Len(ix.partitions) < Len(Parts) THEN FramesBefore(Parts[Len(ix.partitions) + 1].at) ELSE AllFrames
AtFrame(i, at, n) == n < AllFrames /\ i.next = KLAt(FrameStart(n)) /\ at = FrameStart(n) + 1

(* The file position and the KL read last stand for the frame that the     *)
(* index is said to be at: its first element, or the end of the partition  *)
(* before it; and while the frame is read, each element in turn.  So what  *)
(* is delivered as frame n is frame n, whatever was read, skipped and      *)
(* looked for before, and however the file has grown since.                *)
InStep ==
    ~lost /\ ix.currentPosition <= IndexedFrames =>
        /\ pc = "idle" =>
               \/ AtFrame(ix, filePosition, ix.currentPosition)
               \/ /\ ix.next.key = "pack"
                  /\ \E k \in 1 .. Len(Parts) - 1 :
                        /\ filePosition = Parts[k + 1].at + 1
                        /\ ix.currentPosition = FramesBefore(Parts[k + 1].at)
        /\ pc = "package" =>
               /\ filePosition = FrameStart(ix.currentPosition) + cpCount
               /\ ix.next = KLAt(filePosition - 1) /\ IsElement(ix.next)

(* From wherever the reader is, every frame that has begun in a partition  *)
(* that the index knows can be positioned at and then read, and no other.  *)
FramesAreFound ==
    pc = "idle" => \A n \in 0 .. IndexedFrames - 1 :
        n # ix.currentPosition =>
            LET found == SetPosition(ix, filePosition, n)
                read == SetPosition(found.ix, found.at, n)
            IN  IF FrameStart(n) >= written THEN found.result = "failed"
                ELSE found.result = "done" /\ read.result = "done" /\ AtFrame(read.ix, read.at, n)

(* The last written frame is there, as all frames before it are, and the   *)
(* next is not.  Of a file whose index is not complete this is said only   *)
(* while nothing has been written behind its first partition.  That the    *)
(* frame can be read is LastWrittenCanBeRead.                              *)
LastWrittenTold == ix.isComplete \/ written <= FrameStart(0) + IndexedFrames * FrameLen
LastWrittenIsLast ==
    pc = "idle" /\ LastWrittenTold =>
        \A n \in 0 .. AllFrames - 1 : FrameThere(n) <=> n <= LastWrittenFrame

(* "returns the last frame that can be read from the file", says           *)
(* mxf_reader.h of get_last_written_frame_number: a read of a frame up to  *)
(* that one does not fail.                                                 *)
ReadOfFrame == pc = "package" /\ pc' = "idle" /\ ~lost
LastWrittenCanBeRead ==
    [][ReadOfFrame /\ LastWrittenTold /\ ix.currentPosition <= LastWrittenFrame => ~lost']_vars

(* A read that has begun at a frame that the index knows succeeds if the   *)
(* frame is there and something behind it, and fails otherwise, whatever   *)
(* was read, skipped and looked for before and however the file has grown  *)
(* since, also between the elements of the frame: read_content_package     *)
(* wants the key of what follows the frame.                                *)
Followed(n) == FrameThere(n) /\ FrameStart(n) + FrameLen < written
ReadsWhatIsFollowed ==
    [][ReadOfFrame /\ ix.currentPosition < IndexedFrames => (~lost' <=> Followed(ix.currentPosition))]_vars

(* move_to_next_partition_with_essence goes on until it finds a partition  *)
(* with essence.                                                           *)
NoCrash == pc # "crashed"
=============================================================================
