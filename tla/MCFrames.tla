------------------------------ MODULE MCFrames ------------------------------
(***************************************************************************)
(* Both readers of the reader example: the one of files with an index that *)
(* it makes itself, and the one of Avid's files of one track, with their   *)
(* writer.  The two know nothing of each other, so that each moves while   *)
(* the other stands still.                                                 *)
(***************************************************************************)
EXTENDS MCIndex, MCClips

AFile == CHOOSE f \in Files : TRUE
NoFile == /\ file = AFile /\ written = Len(File) /\ duration = -1
          /\ pc = "closed" /\ ix = NoIndex
          /\ filePosition = 0 /\ cpCount = 0 /\ lost = FALSE
NoClip == type = Unc720 /\ companions = Alone /\ ClipInit

IndexMoves == NoClip /\ Next /\ UNCHANGED <<trackVars, readerVars>>
ClipMoves == NoFile /\ NextClip /\ UNCHANGED vars

FramesInit == (Init /\ NoClip) \/ (NoFile /\ ClipInit)
FramesSpec == /\ FramesInit
              /\ [][IndexMoves \/ ClipMoves]_<<vars, trackVars, readerVars>>
=============================================================================
