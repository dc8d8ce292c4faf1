----------------------------- MODULE IndexTable -----------------------------
(***************************************************************************)
(* A client of the index table functions: it makes a segment, writes it in *)
(* one of the ways there are, and reads it back.                           *)
(***************************************************************************)
EXTENDS IndexSegment

CONSTANTS MaxDeltas, MaxEntries,        (* bounds of the arrays            *)
          SliceCounts, PosTableCounts,
          OptionSets                    (* the optional items clients set  *)

ASSUME TableAssumption ==
    SliceCounts \subseteq Nat /\ PosTableCounts \subseteq Nat /\ OptionSets \subseteq SUBSET DOMAIN OptionLen

VARIABLES segment,
          list,      (* the client keeps the entries in the segment, not   *)
                     (* on its own as writers of arrays piece by piece do  *)
          segmentFile,   (* the segment as it was written, or Nothing      *)
          result         (* of what was done last, or Nothing              *)

tableVars == <<segment, list, segmentFile, result>>

Nothing == <<>>
Crash == [ok |-> FALSE, crashed |-> TRUE]

NoTable == /\ segment = NewSegment /\ list = FALSE
           /\ segmentFile = Nothing /\ result = Nothing

Making == segment # NewSegment /\ segmentFile = Nothing /\ result = Nothing

(* mxf_create_index_table_segment; the client sets the fields.             *)
CreateSegment ==
    /\ NoTable
    /\ \E slices \in SliceCounts, tables \in PosTableCounts, force \in BOOLEAN, set \in OptionSets :
           segment' = [NewSegment EXCEPT !.common = 1, !.sliceCount = slices, !.posTableCount = tables,
                                         !.forceWriteSliceCount = force, !.options = set]
    /\ list' \in BOOLEAN
    /\ UNCHANGED <<segmentFile, result>>

Add(name, entryLen) ==
    LET n == Len(segment[name])
    IN  IF list /\ ~MayAdd(n, entryLen)
        THEN result' = Crash /\ UNCHANGED segment
        ELSE segment' = [segment EXCEPT ![name] = Append(@, n + 1)] /\ UNCHANGED result

AddDeltaEntry ==
    /\ Making /\ Len(segment.deltas) < MaxDeltas
    /\ Add("deltas", DeltaEntryLen)
    /\ UNCHANGED <<list, segmentFile>>

AddIndexEntry ==
    /\ Making /\ Len(segment.entries) < MaxEntries
    /\ Add("entries", EntryLen(segment))
    /\ UNCHANGED <<list, segmentFile>>

(* mxf_write_index_table_segment, or mxf_write_index_table_segment_header, *)
(* the headers of the arrays and their entries.                            *)
WriteSegment ==
    /\ Making
    /\ \E avid \in BOOLEAN : (list => ~avid) /\ segmentFile' = Written(segment, avid)
    /\ UNCHANGED <<segment, list, result>>

ReadBack ==
    /\ segmentFile # Nothing /\ result = Nothing
    /\ \E avid, default \in BOOLEAN :
           LET r == ReadSegment(segmentFile, [avid |-> avid, default |-> default])
           IN  result' = [ok |-> r.ok, crashed |-> r.crashed, segment |-> r.segment,
                          avid |-> avid, default |-> default]
    /\ UNCHANGED <<segment, list, segmentFile>>

NextTable == CreateSegment \/ AddDeltaEntry \/ AddIndexEntry \/ WriteSegment \/ ReadBack
TableSpec == NoTable /\ [][NextTable]_tableVars

-----------------------------------------------------------------------------
(* What a segment keeps: the counts go with the index entries.             *)
Kept(s) ==
    [common |-> s.common, options |-> s.options, deltas |-> s.deltas, entries |-> s.entries,
     forceWriteSliceCount |-> FALSE,
     sliceCount |-> IF s.entries # <<>> \/ s.forceWriteSliceCount THEN s.sliceCount ELSE 0,
     posTableCount |-> IF s.entries # <<>> THEN s.posTableCount ELSE 0]

Fits(len) == len < LenLimit

(* A segment is read back as it was made, in whatever way it was written,  *)
(* whenever the lengths of its arrays fit; that of the index entries need  *)
(* not for Avid's reader.  Otherwise it is not read at all, never in part. *)
(* An assertion fails on no segment that the assertions let be made.       *)
SegmentsReadBack ==
    segmentFile # Nothing /\ result # Nothing =>
        /\ result.ok <=> /\ Fits(DeltasLen(segment))
                         /\ \/ Fits(EntriesLen(segment))
                            \/ result.avid /\ ~result.crashed
        /\ result.ok => result.segment = Kept(segment)
        /\ result.crashed => ~list /\ result.avid /\ result.default /\ ~Fits(EntriesLen(segment))
=============================================================================
