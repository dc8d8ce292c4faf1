--------------------------- MODULE IndexSegment ---------------------------
(***************************************************************************)
(* How an index table segment is written and read: mxf_index_table.c and   *)
(* what mxf_avid.c has in its place.                                       *)
(*                                                                         *)
(* A segment is a local set: items with a tag and a length of 16 bits, the *)
(* arrays of delta and index entries among them.  Avid's files have arrays *)
(* longer than that, so that its reader goes by the number of entries.     *)
(* The lengths are those of the code; LocalBits is 16 there.  The seven    *)
(* items that each segment begins with are taken for one.                  *)
(***************************************************************************)
EXTENDS Integers, Sequences

CONSTANT LocalBits      (* of the length of an item *)

LenLimit == 2 ^ LocalBits          (* the first length that does not fit   *)
TagLen == 4                        (* of a local tag and length            *)
CommonLen == 80
ArrayHeaderLen == 8

(* At least the header of an array fits.                                   *)
ASSUME LocalBitsAssumption == LocalBits \in Nat /\ LenLimit \in Nat /\ ArrayHeaderLen < LenLimit

DeltaEntryLen == 6
OptionLen == [extStartOffset |-> 8, vbeByteCount |-> 8, singleIndexLocation |-> 1,
              singleEssenceLocation |-> 1, forwardIndexDirection |-> 1]

(* A new segment is all zero.                                              *)
NewSegment == [common |-> 0, sliceCount |-> 0, posTableCount |-> 0, forceWriteSliceCount |-> FALSE,
               options |-> {}, deltas |-> <<>>, entries |-> <<>>]

EntryLen(s) == 11 + 4 * s.sliceCount + 8 * s.posTableCount
ArrayLen(entries, entryLen) == ArrayHeaderLen + Len(entries) * entryLen
DeltasLen(s) == ArrayLen(s.deltas, DeltaEntryLen)
EntriesLen(s) == ArrayLen(s.entries, EntryLen(s))

(* add_delta_entry, add_index_entry: whether the assertion lets an entry   *)
(* be added to n others.  The last of them has not been counted.           *)
MayAdd(n, entryLen) == n = 0 \/ ArrayHeaderLen + (n - 1) * entryLen < LenLimit

-----------------------------------------------------------------------------
(* What the items add to the length of the segment.                        *)
DeltasAdd(s) == IF s.deltas = <<>> THEN 0 ELSE 12 + Len(s.deltas) * DeltaEntryLen
OptionAdds(s, o) == IF o \notin s.options THEN 0 ELSE IF OptionLen[o] = 8 THEN 12 ELSE 5
OptionsAdd(s) ==
    OptionAdds(s, "extStartOffset") + OptionAdds(s, "vbeByteCount") + OptionAdds(s, "singleIndexLocation")
    + OptionAdds(s, "singleEssenceLocation") + OptionAdds(s, "forwardIndexDirection")

(* A length that forgets the item for the number of pos tables.            *)
SegmentLenShort(s) ==
    CommonLen + DeltasAdd(s) + OptionsAdd(s)
    + (IF s.entries # <<>> THEN 17 + Len(s.entries) * EntryLen(s)
       ELSE IF s.forceWriteSliceCount THEN 5 ELSE 0)

(* The length of the segment, worked out before anything is written.       *)
SegmentLen(s) ==
    CommonLen + DeltasAdd(s) + OptionsAdd(s)
    + (IF s.entries # <<>> THEN 22 + Len(s.entries) * EntryLen(s)
       ELSE IF s.forceWriteSliceCount THEN 5 ELSE 0)

(* The items: localLen is the length that is written, len what is written. *)
LocalItem(tag, localLen, len, value) ==
    [tag |-> tag, localLen |-> localLen, len |-> len, value |-> value]
ItemIf(present, tag, len, value) == IF present THEN <<LocalItem(tag, len, len, value)>> ELSE <<>>

CountItems(s) ==
    ItemIf(s.entries # <<>> \/ s.forceWriteSliceCount, "sliceCount", 1, s.sliceCount)
    \o ItemIf(s.entries # <<>>, "posTableCount", 1, s.posTableCount)

OptionItem(s, o) == ItemIf(o \in s.options, o, OptionLen[o], TRUE)
OptionItems(s) ==
    OptionItem(s, "extStartOffset") \o OptionItem(s, "vbeByteCount") \o OptionItem(s, "singleIndexLocation")
    \o OptionItem(s, "singleEssenceLocation") \o OptionItem(s, "forwardIndexDirection")

PlainLen(len) == len % LenLimit
AvidLen(len) == IF len >= LenLimit THEN LenLimit - 1 ELSE len

ArrayItem(tag, localLen, len, entries) ==
    IF entries = <<>> THEN <<>> ELSE <<LocalItem(tag, localLen, len, entries)>>

(* What is in the file.  The header of the array of index entries is       *)
(* mxf_write_index_entry_array_header's, or that of mxf_avid.c.            *)
Written(s, avid) ==
    [segmentLen |-> SegmentLen(s),
     items |-> ItemIf(TRUE, "common", CommonLen - TagLen, s.common) \o CountItems(s) \o OptionItems(s)
               \o ArrayItem("deltas", PlainLen(DeltasLen(s)), DeltasLen(s), s.deltas)
               \o ArrayItem("entries", IF avid THEN AvidLen(EntriesLen(s)) ELSE PlainLen(EntriesLen(s)),
                            EntriesLen(s), s.entries)]

-----------------------------------------------------------------------------
(* Reading, item after item as long as the segment goes on.  A reader is   *)
(* [avid, default]: which of the two functions, and whether it is given    *)
(* mxf_default_add_index_entry, whose assertion may fail, to take entries. *)
Unread == [ok |-> TRUE, crashed |-> FALSE, totalLen |-> 0, segment |-> NewSegment]

Through(r, len, name, value) ==
    [ok |-> TRUE, crashed |-> FALSE, totalLen |-> r.totalLen + TagLen + len,
     segment |-> [r.segment EXCEPT ![name] = value]]
Refused(r, crashed) == [ok |-> FALSE, crashed |-> crashed, totalLen |-> r.totalLen, segment |-> r.segment]

WithEntries(r, item, name, checked, default, entryLen) ==
    IF checked /\ item.localLen # item.len THEN Refused(r, FALSE)
    ELSE IF default /\ ~MayAdd(Len(item.value) - 1, entryLen) THEN Refused(r, TRUE)
    ELSE Through(r, item.len, name, item.value)

ReadItem(r, item, segmentLen, reader) ==
    IF ~r.ok \/ r.totalLen >= segmentLen THEN r
    ELSE IF item.tag = "deltas" THEN WithEntries(r, item, "deltas", TRUE, TRUE, DeltaEntryLen)
    ELSE IF item.tag = "entries"
    THEN WithEntries(r, item, "entries", ~reader.avid, reader.default, EntryLen(r.segment))
    ELSE IF item.tag \in DOMAIN OptionLen
    THEN Through(r, item.localLen, "options", r.segment.options \cup {item.tag})
    ELSE Through(r, item.localLen, item.tag, item.value)

ReadSegment(written, reader) ==
    LET after[k \in 0 .. Len(written.items)] ==
            IF k = 0 THEN Unread
            ELSE ReadItem(after[k - 1], written.items[k], written.segmentLen, reader)
        r == after[Len(written.items)]
    IN  IF r.ok /\ r.totalLen # written.segmentLen THEN Refused(r, FALSE) ELSE r
=============================================================================
