----------------------------- MODULE MCPhysical -----------------------------
(***************************************************************************)
(* What a file is made of: partitions as they are written and updated, the *)
(* search for them by a reader with nothing but bytes to go by, and index  *)
(* table segments; and how files get to the disk, by turns with reads.     *)
(* These are models of different calls that share no state, so that each   *)
(* moves while the others stand still.                                     *)
(***************************************************************************)
EXTENDS MCPartition, MCSearch, IndexTable, Interleaver

MCOptionSets == {{}, {"extStartOffset"}, DOMAIN OptionLen}

NoPartition == partitions = <<>>

(* The search that never starts, on one of the files.                      *)
AFile == Key(Header) \o Others(1)
NoSearch == file = AFile /\ phase = "run-in" /\ filePos = 0

NoFile == NoPartition /\ NoSearch /\ NoTable

PartitionMoves == /\ NoSearch /\ NoTable /\ InterleaverInit
                  /\ Next /\ UNCHANGED <<searchVars, tableVars, interleaverVars>>
SearchMoves == /\ NoPartition /\ NoTable /\ InterleaverInit
               /\ NextSearch /\ UNCHANGED <<vars, tableVars, interleaverVars>>
TableMoves == /\ NoPartition /\ NoSearch /\ InterleaverInit
              /\ NextTable /\ UNCHANGED <<vars, searchVars, interleaverVars>>
InterleaverMoves == /\ NoFile
                    /\ NextInterleaver /\ UNCHANGED <<vars, searchVars, tableVars>>

PhysicalInit == Init /\ SearchInit /\ NoTable /\ InterleaverInit
PhysicalSpec ==
    /\ PhysicalInit
    /\ [][PartitionMoves \/ SearchMoves \/ TableMoves \/ InterleaverMoves]_<<vars, searchVars, tableVars, interleaverVars>>
=============================================================================
