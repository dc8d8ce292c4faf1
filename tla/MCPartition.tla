----------------------------- MODULE MCPartition -----------------------------
(* Sizes of KLVs for a small instance of Partition.                        *)
EXTENDS Partition, TLC

MCSizes == ("header" :> {40, 75, 120}) @@ ("index" :> {50}) @@ ("essence" :> {30})
=============================================================================
