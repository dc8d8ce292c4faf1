----------------------------- MODULE MCSearch -----------------------------
(***************************************************************************)
(* The files of the run of PartitionSearch: a run-in, a header partition,  *)
(* a body partition or none, a footer partition or none, cut off anywhere  *)
(* in their last bytes.                                                    *)
(***************************************************************************)
EXTENDS PartitionSearch

CONSTANTS MaxBody, MaxFooter, MaxCut   (* bounds of the lengths of the parts *)

Others(n) == [k \in 1 .. n |-> Other]
RunIns == UNION {[1 .. n -> 0 .. 2] : n \in 0 .. MaxRunIn + 1}
PacksOf(kind, most) == {Key(kind) \o Others(n) : n \in 1 .. most}
Whole == {r \o h \o b \o f : r \in RunIns, h \in PacksOf(Header, 2),
                             b \in PacksOf(Body, MaxBody) \cup {<<>>},
                             f \in PacksOf(Footer, MaxFooter) \cup {<<>>}}
MCFiles == {SubSeq(w, 1, Len(w) - n) : w \in Whole, n \in 0 .. MaxCut}

Padded(s) == [k \in 1 .. KeySize - 1 |-> IF k <= Len(s) THEN s[k] ELSE Other]
ASSUME FilesProper == RunInsProper /\ FootersLast

(* Nothing, or what is missing of a key of which the file has k bytes.     *)
MCLeftovers == {Padded(<<>>)}
    \cup {Padded(SubSeq(Key(kind), k + 1, KeySize)) : kind \in {Header, Body, Footer},
                                                     k \in 1 .. KeySize - 1}
=============================================================================
