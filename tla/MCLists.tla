------------------------------ MODULE MCLists ------------------------------
(***************************************************************************)
(* The two rows that the code keeps in lists of arrays of one size, with   *)
(* positions that go from array to array: the bytes of a memory file and   *)
(* the time codes of a recording.  Each moves while the other stands       *)
(* still, and a search that has begun goes on.                             *)
(***************************************************************************)
EXTENDS MemoryFile, MCTimecode

MemoryMoves == TimecodeInit /\ Next /\ UNCHANGED timecodeVars
TimecodeMoves == Init /\ NextTimecode /\ UNCHANGED vars

ListsInit == Init /\ TimecodeInit
ListsSpec == /\ ListsInit
             /\ [][MemoryMoves \/ TimecodeMoves]_<<vars, timecodeVars>>
             /\ WF_<<vars, timecodeVars>>(SearchStep /\ UNCHANGED vars)
=============================================================================
