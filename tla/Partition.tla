------------------------------ MODULE Partition ------------------------------
(***************************************************************************)
(* Partition packs of mxf_partition.c, the byte counts and links between   *)
(* them, KLV fill, and the Random Index Pack, with the programs that use   *)
(* them to lay out an MXF file: write_archive_mxf.c, write_avid_mxf.c and  *)
(* the reader in mxf_op1a_reader.c.                                        *)
(*                                                                         *)
(* A program writes a partition pack before it knows what the pack must    *)
(* say, and goes back for it later: to the header metadata, which must     *)
(* still end where the first body partition starts, and to every pack.  It *)
(* may die at any point, so each state shows a file that a reader may get. *)
(*                                                                         *)
(* A file is its KLVs by their positions; only their lengths and what      *)
(* packs and the Random Index Pack say of other places matter here.        *)
(***************************************************************************)
EXTENDS Integers, Sequences, FiniteSets

CONSTANTS KeyLen,           (* mxfKey_extlen                               *)
          MinLLen,          (* mxf_file_set_min_llen                       *)
          PackLen,          (* length of the value of a partition pack     *)
          KagSizes,
          ContentSizes,     (* of a header, index or essence KLV, per kind *)
          Spaces,           (* sizes of mxf_allocate_space_to_kag          *)
          BodyOffset,       (* where the client wants the first body       *)
          MinRoom,          (* the client's idea of the smallest fill      *)
          HeaderHasIndex,   (* it puts an index in the header partition    *)
          MaxPartitions     (* bound on the number of partitions           *)

Regions == {"header", "index"}

ASSUME PartitionAssumption ==
    /\ KeyLen \in Nat \ {0} /\ MinLLen \in 1 .. 9 /\ PackLen \in Nat
    /\ KagSizes \subseteq Nat \ {0}
    /\ ContentSizes \in [Regions \cup {"essence"} -> SUBSET (Nat \ 0 .. KeyLen + MinLLen - 1)]
    /\ Spaces \subseteq Nat
    /\ BodyOffset \in Nat /\ MinRoom \in Int /\ HeaderHasIndex \in BOOLEAN
    /\ MaxPartitions \in Nat

VARIABLES partitions,       (* the MXFFilePartitions in memory             *)
          klvs,             (* the KLVs of the file by their positions     *)
          size, position,   (* of the file                                 *)
          pc,               (* what the client is about                    *)
          region, stage,    (* how far the content of a partition is       *)
          cur,              (* the partition that is written to            *)
          next,             (* the next partition to write again           *)
          back              (* pc to go back to                            *)

fileVars == <<klvs, size, position>>
client == <<region, stage, cur, next, back>>
vars == <<partitions, klvs, size, position, pc, region, stage, cur, next, back>>

LastPartition == Len(partitions)
Larger(a, b) == IF a >= b THEN a ELSE b

-----------------------------------------------------------------------------
(* mxf_get_llen: bytes that a BER length takes.  A uint64_t that wrapped   *)
(* below zero is negative here, and takes all of them.                     *)
LLen(len) ==
    LET high == len \div 16777216
        top  == high \div 16777216
    IN  Larger(MinLLen, CASE len < 0 \/ 256 <= top            -> 9
                          [] 0 <= len /\ len < 128           -> 1
                          [] 128 <= len /\ len < 256         -> 2
                          [] 256 <= len /\ len < 65536       -> 3
                          [] 65536 <= len /\ high = 0        -> 4
                          [] 1 <= high /\ high < 256         -> 5
                          [] 256 <= high /\ high < 65536     -> 6
                          [] 65536 <= high /\ top = 0        -> 7
                          [] 1 <= top /\ top < 256           -> 8)
KLVLen(len) == KeyLen + LLen(len) + len

KLV(what, len, holds) == [what |-> what, len |-> len, holds |-> holds]

(* Writing a KLV over others leaves those whole that it does not touch.    *)
Untouched(at, len) == {p \in DOMAIN klvs : p + klvs[p].len <= at \/ p >= at + len}
Write(klv) ==
    /\ klvs' = [p \in Untouched(position, klv.len) \cup {position} |->
                   IF p = position THEN klv ELSE klvs[p]]
    /\ position' = position + klv.len
    /\ size' = Larger(size, position + klv.len)

Seek(pos) ==
    /\ position' = pos
    /\ UNCHANGED <<klvs, size>>
NoSeek == UNCHANGED fileVars
SeekEnd == Seek(size)

-----------------------------------------------------------------------------
(* mxf_allocate_space_to_kag: fillSize is made up to a whole number of KAG *)
(* units until there is room for its own length.                           *)
MisalignmentInFile(partition, space) == (position + space) % partition.kagSize
Misalignment(partition, space) ==
    (position + space - partition.thisPartition) % partition.kagSize

FillSizeOnce(least, kagSize) == IF least < 0 THEN least + kagSize ELSE least
FillSize(least, kagSize) ==
    LET After(n) == least + n * kagSize
        Fits(n)  == After(n) >= 0 /\ After(n) >= LLen(After(n))
    IN  After(CHOOSE n \in 0 .. KeyLen + 10 : Fits(n) /\ \A m \in 0 .. n - 1 : ~Fits(m))

AllocateSpaceToKag(partition, space) ==
    LET off  == Misalignment(partition, space)
        toKag == IF partition.kagSize > 1 THEN partition.kagSize - off ELSE 0
        fillSize == FillSize(space - KeyLen + toKag, partition.kagSize)
    IN  IF space = 0 /\ (partition.kagSize = 1 \/ off = 0)
        THEN UNCHANGED fileVars
        ELSE Write(KLV("fill", KeyLen + fillSize, <<>>))

(* mxf_fill_to_position.  Its own guard lets a position pass that is up to *)
(* KeyLen - MinLLen bytes behind the wanted one.                           *)
FillRefused(pos) == position > pos - MinLLen + KeyLen
Room(pos) == pos - position - KeyLen
FillValue(pos) == Room(pos) - LLen(Room(pos))
(* A fill size that wraps below zero gets written until the disk is full.  *)
FillFloods(pos)  == position # pos /\ Room(pos) < 0
FillAsserts(pos) == Room(pos) \in 0 .. LLen(Room(pos)) - 1
FillFits(pos)    == position = pos \/ Room(pos) >= LLen(Room(pos))
FillToPosition(pos) ==
    IF position = pos
    THEN UNCHANGED fileVars
    ELSE Write(KLV("fill", KeyLen + LLen(Room(pos)) + FillValue(pos), <<>>))
Flood ==
    /\ klvs' = [p \in {q \in DOMAIN klvs : q + klvs[q].len <= position} |-> klvs[p]]
    /\ UNCHANGED <<size, position>>

-----------------------------------------------------------------------------
NewPartition(kind, kagSize) ==
    [kind |-> kind, kagSize |-> kagSize, thisPartition |-> 0, previousPartition |-> 0,
     footerPartition |-> 0, byteCount |-> [r \in Regions |-> 0], markInPos |-> [r \in Regions |-> -1]]

(* What mxf_write_partition writes and changes                             *)
Pack(partition) ==
    [kind |-> partition.kind, thisPartition |-> partition.thisPartition,
     previousPartition |-> partition.previousPartition,
     footerPartition |-> partition.footerPartition, byteCount |-> partition.byteCount]
Placed(partition) ==
    [partition EXCEPT !.thisPartition = position,
                      !.footerPartition = IF partition.kind = "footer" THEN position ELSE @]
WritePack(i) ==
    /\ partitions' = [partitions EXCEPT ![i] = Placed(@)]
    /\ Write(KLV("pack", KLVLen(PackLen), Pack(Placed(partitions[i]))))

FooterAppended == partitions[LastPartition].kind = "footer"
HaveFooterAlways == TRUE
HaveFooter == partitions[LastPartition].kind = "footer"
(* mxf_update_partitions_in_memory                                         *)
Linked(i) ==
    [partitions[i] EXCEPT
        !.previousPartition = IF i > 1 THEN partitions[i - 1].thisPartition ELSE @,
        !.footerPartition   = IF HaveFooter THEN partitions[LastPartition].thisPartition ELSE @]

-----------------------------------------------------------------------------
Init ==
    /\ partitions = <<>>
    /\ klvs = [p \in {} |-> 0] /\ size = 0 /\ position = 0
    /\ pc = "filled" /\ back = "filled"
    /\ region = "none" /\ stage = "ended"
    /\ cur = 0 /\ next = 0

(* mxf_append_new_partition, mxf_append_new_from_partition                 *)
AppendPartition(kind, kagSize) ==
    /\ pc = "filled"
    /\ LastPartition < MaxPartitions
    /\ kind = "header" <=> LastPartition = 0
    /\ LastPartition > 0 => partitions[LastPartition].kind # "footer"
    /\ partitions' = Append(partitions, NewPartition(kind, kagSize))
    /\ cur' = LastPartition + 1
    /\ pc' = "appended"
    /\ UNCHANGED <<fileVars, region, stage, next, back>>

WritePartition ==
    /\ pc = "appended"
    /\ WritePack(cur)
    /\ pc' = "packed"
    /\ UNCHANGED client

FillAfterPack ==
    /\ pc = "packed"
    /\ AllocateSpaceToKag(partitions[cur], 0)
    /\ pc' = "content" /\ region' = "pack" /\ stage' = "ended"
    /\ UNCHANGED <<partitions, cur, next, back>>

(* Body partitions have essence.  The header partition and the footer have *)
(* header metadata and then an index; the former ends at BodyOffset, in    *)
(* the latter either may be missing.                                       *)
LastOfHeader == IF HeaderHasIndex THEN "index" ELSE "header"
MayFollow(r) ==
    \/ region = "pack" /\ partitions[cur].kind # "body" /\ (cur = 1 => r = "header")
    \/ region = "header" /\ r = "index" /\ (cur = 1 => HeaderHasIndex)

(* mxf_mark_header_start, mxf_mark_index_start                             *)
MarkStart(r) ==
    /\ pc = "content" /\ stage = "ended" /\ MayFollow(r)
    /\ partitions' = [partitions EXCEPT ![cur].markInPos[r] = position]
    /\ region' = r /\ stage' = "marked"
    /\ UNCHANGED <<fileVars, pc, cur, next, back>>

WriteContent(len) ==
    /\ pc = "content" /\ stage = "marked"
    /\ len \in ContentSizes[region]
    /\ Write(KLV(region, len, <<>>))
    /\ stage' = "written"
    /\ UNCHANGED <<partitions, pc, region, cur, next, back>>

FillContent(space) ==
    /\ pc = "content" /\ stage = "written" /\ cur > 1
    /\ AllocateSpaceToKag(partitions[cur], space)
    /\ stage' = "filled"
    /\ UNCHANGED <<partitions, pc, region, cur, next, back>>

(* The client checks that there is room before it fills up to BodyOffset.  *)
RoomLeft == position < BodyOffset - MinRoom
FillHeader ==
    /\ pc = "content" /\ stage = "written" /\ cur = 1 /\ region = LastOfHeader
    /\ RoomLeft /\ ~FillRefused(BodyOffset) /\ FillFits(BodyOffset)
    /\ FillToPosition(BodyOffset)
    /\ stage' = "filled"
    /\ UNCHANGED <<partitions, pc, region, cur, next, back>>

FillHeaderFails ==
    /\ pc = "content" /\ stage = "written" /\ cur = 1 /\ region = LastOfHeader
    /\ IF ~RoomLeft \/ FillRefused(BodyOffset)
       THEN pc' = "failed" /\ UNCHANGED fileVars
       ELSE \/ FillAsserts(BodyOffset) /\ pc' = "assert" /\ UNCHANGED fileVars
            \/ FillFloods(BodyOffset) /\ pc' = "failed" /\ Flood
    /\ UNCHANGED <<partitions, client>>

ByteCountFromPack(r) == position - partitions[cur].thisPartition
ByteCount(r) == position - partitions[cur].markInPos[r]
(* mxf_mark_header_end, mxf_mark_index_end                                 *)
MarkEnd ==
    /\ pc = "content" /\ stage \in {"written", "filled"}
    /\ cur = 1 /\ region = LastOfHeader => stage = "filled"
    /\ partitions' = [partitions EXCEPT ![cur].byteCount[region] = ByteCount(region),
                                        ![cur].markInPos[region] = -1]
    /\ stage' = "ended"
    /\ UNCHANGED <<fileVars, pc, region, cur, next, back>>

WriteEssence(len) ==
    /\ pc = "content" /\ stage = "ended" /\ region # "essence"
    /\ partitions[cur].kind = "body"
    /\ Write(KLV("essence", len, <<>>))
    /\ region' = "essence"
    /\ UNCHANGED <<partitions, pc, stage, cur, next, back>>

FillAfterContent ==
    /\ pc = "content" /\ stage = "ended" /\ cur = LastPartition
    /\ cur = 1 => region = LastOfHeader
    /\ AllocateSpaceToKag(partitions[cur], 0)
    /\ pc' = "filled" /\ region' = "none"
    /\ UNCHANGED <<partitions, stage, cur, next, back>>

WriteRIP ==
    /\ pc = "filled" /\ LastPartition > 0 /\ FooterAppended
    /\ Write(KLV("rip", KLVLen(12 * LastPartition + 4),
                 [i \in 1 .. LastPartition |-> partitions[i].thisPartition]))
    /\ pc' = "rip"
    /\ UNCHANGED <<partitions, client>>

-----------------------------------------------------------------------------
(* The client goes back to the header metadata and writes it again.        *)
MetadataPos ==
    CHOOSE p \in DOMAIN klvs : /\ klvs[p].what = "header"
                               /\ \A q \in DOMAIN klvs : klvs[q].what = "header" => p <= q
GoToMetadata ==
    /\ pc \in {"filled", "rip"} /\ LastPartition > 1
    /\ Seek(MetadataPos)
    /\ pc' = "content" /\ region' = "pack" /\ stage' = "ended"
    /\ cur' = 1 /\ back' = pc
    /\ UNCHANGED <<partitions, next>>

GoToEnd ==
    /\ pc = "content" /\ stage = "ended" /\ cur = 1 /\ LastPartition > 1 /\ region = LastOfHeader
    /\ SeekEnd
    /\ pc' = back /\ back' = "filled"
    /\ region' = "none" /\ cur' = LastPartition
    /\ UNCHANGED <<partitions, stage, next>>

(* mxf_update_partitions: the links, and then pack after pack.  Programs   *)
(* call it early too, but with a footer they have written the RIP first.   *)
UpdateInMemory ==
    /\ \/ pc = "filled" /\ LastPartition > 0 /\ ~FooterAppended
       \/ pc = "rip"
    /\ partitions' = [i \in 1 .. LastPartition |-> Linked(i)]
    /\ pc' = "update" /\ back' = pc /\ next' = 1
    /\ UNCHANGED <<fileVars, region, stage, cur>>

SeekToPartition ==
    /\ pc = "update" /\ next <= LastPartition
    /\ Seek(partitions[next].thisPartition)
    /\ pc' = "rewrite"
    /\ UNCHANGED <<partitions, client>>

RewritePartition ==
    /\ pc = "rewrite"
    /\ WritePack(next)
    /\ next' = next + 1 /\ pc' = "update"
    /\ UNCHANGED <<region, stage, cur, back>>

UpdateReturns ==
    /\ pc = "update" /\ next > LastPartition
    /\ SeekEnd
    /\ pc' = back /\ back' = "filled" /\ next' = 0
    /\ UNCHANGED <<partitions, region, stage, cur>>

Next ==
    \/ \E kind \in {"header", "body", "footer"}, kagSize \in KagSizes : AppendPartition(kind, kagSize)
    \/ WritePartition \/ FillAfterPack
    \/ \E r \in Regions : MarkStart(r)
    \/ \E len \in ContentSizes["header"] \cup ContentSizes["index"] : WriteContent(len)
    \/ \E space \in Spaces : FillContent(space)
    \/ FillHeader \/ FillHeaderFails
    \/ MarkEnd
    \/ \E len \in ContentSizes["essence"] : WriteEssence(len)
    \/ FillAfterContent
    \/ WriteRIP
    \/ GoToMetadata \/ GoToEnd
    \/ UpdateInMemory \/ SeekToPartition \/ RewritePartition \/ UpdateReturns

Spec == Init /\ [][Next]_vars

-----------------------------------------------------------------------------
(* The reader: get_file_partitions of mxf_op1a_reader.c.  It starts with   *)
(* the header pack and gives up for that one alone when something fails.   *)
IsPack(pos) == pos \in DOMAIN klvs /\ klvs[pos].what = "pack"
HeaderOnly == <<0>>

(* mxf_read_rip finds it from the end of the file.                         *)
RIPs == {p \in DOMAIN klvs : klvs[p].what = "rip" /\ p + klvs[p].len = size}
FromRIP ==
    LET rip == klvs[CHOOSE p \in RIPs : TRUE].holds
    IN  IF \A i \in DOMAIN rip : IsPack(rip[i]) THEN rip ELSE HeaderOnly

(* From footerPartition of the header pack along previousPartition until a *)
(* pack that says it is its own predecessor                                *)
Ends(pos) == klvs[pos].holds.previousPartition = klvs[pos].holds.thisPartition
Steps[n \in 0 .. MaxPartitions] ==
    IF n = 0 THEN <<klvs[0].holds.footerPartition>>
    ELSE LET found == Steps[n - 1]
         IN  IF ~IsPack(Head(found)) \/ Ends(Head(found)) THEN found
             ELSE <<klvs[Head(found)].holds.previousPartition>> \o found
FromFooter ==
    LET found == Steps[MaxPartitions]
    IN  IF klvs[0].holds.footerPartition = 0 \/ ~IsPack(Head(found)) THEN HeaderOnly ELSE found

FilePartitions == IF RIPs # {} THEN FromRIP ELSE FromFooter

(* mxf_app_read_footer_metadata of mxf_app.c: 0 if the file is not complete *)
(* yet, 1 if it has header metadata in the footer, 2 if it has none         *)
NextNonFiller(pos) ==
    CHOOSE p \in DOMAIN klvs : /\ p > pos /\ klvs[p].what # "fill"
                               /\ \A q \in DOMAIN klvs : q > pos /\ klvs[q].what # "fill" => p <= q
ReadFooterMetadata ==
    IF RIPs = {} THEN 0
    ELSE LET rip    == klvs[CHOOSE p \in RIPs : TRUE].holds
             footer == rip[Len(rip)]
         IN  IF ~IsPack(footer) THEN 0
             ELSE IF /\ klvs[footer].holds.kind = "footer"
                     /\ klvs[NextNonFiller(footer)].what = "header"
                     /\ klvs[footer].holds.byteCount["header"] # 0
                  THEN 1 ELSE 2

Packs == {p \in DOMAIN klvs : klvs[p].what = "pack"}
EveryPack(list) ==
    /\ {list[i] : i \in DOMAIN list} = Packs
    /\ \A i \in 1 .. Len(list) - 1 : list[i] < list[i + 1]

-----------------------------------------------------------------------------
Marks == Nat \cup {-1}
TypeOK ==
    /\ \A i \in 1 .. LastPartition :
          /\ partitions[i].byteCount \in [Regions -> Nat]
          /\ partitions[i].markInPos \in [Regions -> Marks]
    /\ \A p \in DOMAIN klvs : p \in Nat /\ klvs[p].len >= KeyLen + MinLLen
    /\ position \in 0 .. size
    /\ cur \in 0 .. LastPartition /\ next \in 0 .. LastPartition + 1

(* However often header metadata and packs are written over, with fill of  *)
(* whatever size is left, the file stays one KLV after the other.          *)
InPlace == pc = "content" /\ cur < LastPartition
Walkable ==
    ~InPlace /\ pc \notin {"failed", "assert"} =>
        /\ size > 0 => 0 \in DOMAIN klvs
        /\ \A p \in DOMAIN klvs :
              p + klvs[p].len = size \/ p + klvs[p].len \in DOMAIN klvs

(* A partition starts on the KAG of the one before it.                     *)
KagKept ==
    \A i \in 1 .. LastPartition - 1 :
        partitions[i + 1].thisPartition # 0 =>
            (partitions[i + 1].thisPartition - partitions[i].thisPartition) % partitions[i].kagSize = 0

(* Whenever the program dies, the reader finds the header partition alone  *)
(* or every partition, and never a part of the file that looks complete.   *)
AllOrHeader ==
    Packs # {} => FilePartitions = HeaderOnly \/ EveryPack(FilePartitions)

(* From the first KLV after a pack that is not fill, byteCount leads past  *)
(* the KLVs of the region and no others, as the reader of them insists.    *)
RegionAt(pos, r) ==
    CHOOSE p \in DOMAIN klvs : /\ p > pos /\ klvs[p].what = r
                               /\ \A q \in DOMAIN klvs : q > pos /\ klvs[q].what = r => p <= q
CountLeadsToEnd(pos, r) ==
    LET start == RegionAt(pos, r)
        end   == start + klvs[pos].holds.byteCount[r]
    IN  /\ end = size \/ end \in DOMAIN klvs
        /\ \A q \in DOMAIN klvs : start <= q /\ q < end => klvs[q].what \in {r, "fill"}
        /\ end \in DOMAIN klvs => klvs[end].what # r
ByteCounts ==
    \A pos \in Packs : \A r \in Regions :
        klvs[pos].holds.byteCount[r] # 0 => CountLeadsToEnd(pos, r)

(* When mxf_update_partitions returns, the packs in the file say what is   *)
(* there, and with a footer they lead from the header to every partition.  *)
UpdateCompletes ==
    [][pc = "update" /\ pc' # "update" /\ pc' # "rewrite" =>
          /\ ByteCounts
          /\ FooterAppended => EveryPack(FromFooter)]_vars

(* mxf_app.c:1021 says of the result 2 of mxf_app_read_footer_metadata     *)
(* that the presence of the header metadata will not change.               *)
FooterMetadataIsFinal == [][ReadFooterMetadata = 2 => ReadFooterMetadata' = 2]_vars

(* mxf_fill_to_position asserts that the fill has room for its own length. *)
NoAssertFails == pc # "assert"
=============================================================================
