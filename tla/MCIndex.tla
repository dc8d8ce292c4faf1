------------------------------ MODULE MCIndex ------------------------------
(* Small files for FileIndex, put together of partitions.                  *)
EXTENDS FileIndex, SequencesExt

P(kind, header, index, hasFill, frames) ==
    [kind |-> kind, headerByteCount |-> header, indexByteCount |-> index, hasFill |-> hasFill,
     frames |-> frames]
MCElements == <<[key |-> "picture", len |-> 2], [key |-> "sound", len |-> 1]>>
MCLayouts == {
    (* essence in the header partition, as single partition files have it  *)
    <<P("header", 2, 0, FALSE, 4), P("footer", 0, 0, FALSE, 0)>>,
    (* two partitions of essence with one between that has none            *)
    <<P("header", 2, 0, TRUE, 0), P("body", 0, 2, FALSE, 2), P("body", 0, 3, FALSE, 0),
      P("body", 0, 0, TRUE, 2), P("footer", 2, 0, FALSE, 0)>>,
    (* a partition after each frame, and no essence in the last of them    *)
    <<P("header", 3, 0, TRUE, 1), P("body", 0, 2, TRUE, 1), P("body", 2, 0, FALSE, 1),
      P("body", 0, 3, FALSE, 0), P("footer", 2, 2, TRUE, 0)>>,
    (* frames behind the index of their partition                          *)
    <<P("header", 4, 0, FALSE, 0), P("body", 3, 3, TRUE, 4), P("footer", 0, 3, FALSE, 0)>>,
    (* essence in the header partition and behind it                       *)
    <<P("header", 2, 2, TRUE, 2), P("body", 2, 0, FALSE, 3), P("footer", 0, 2, FALSE, 0)>>}

KL(key, len, frame) == <<[key |-> key, len |-> len, frame |-> frame]>>
Value(len) == [k \in 1 .. len |-> [key |-> "value", len |-> 0, frame |-> -1]]
KLV(key, cells) == IF cells = 0 THEN <<>> ELSE KL(key, cells - 1, -1) \o Value(cells - 1)
Frame(n) == FlattenSeq([e \in DOMAIN MCElements |->
    KL(MCElements[e].key, MCElements[e].len, n) \o Value(MCElements[e].len)])
FramesTo(l, k) == FoldLeft(LAMBDA n, p : n + p.frames, 0, SubSeq(l, 1, k))
CellsOf(l) == FlattenSeq([k \in DOMAIN l |->
    KLV("pack", PackLen) \o KLV("fill", IF l[k].hasFill THEN FillLen ELSE 0)
    \o KLV("header", l[k].headerByteCount) \o KLV("index", l[k].indexByteCount)
    \o FlattenSeq([f \in 1 .. l[k].frames |-> Frame(FramesTo(l, k - 1) + f - 1)])])
MCFiles == {[cells |-> CellsOf(l),
             parts |-> [k \in DOMAIN l |->
                [kind |-> l[k].kind, at |-> Len(CellsOf(SubSeq(l, 1, k - 1))), hasEssence |-> l[k].frames > 0,
                 headerByteCount |-> l[k].headerByteCount, indexByteCount |-> l[k].indexByteCount,
                 hasFill |-> l[k].hasFill]]] : l \in MCLayouts}

ASSUME FilesAsWritten == FilesProper /\ FootersWritten
=============================================================================
