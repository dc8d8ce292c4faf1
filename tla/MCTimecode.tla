----------------------------- MODULE MCTimecode -----------------------------
(* Time codes around the end of a minute, for the VITC with drop frames at  *)
(* 30 frames a second.                                                     *)
EXTENDS TimecodeIndex

Timecode(h, m, s, f, d) == [hour |-> h, min |-> m, sec |-> s, frame |-> f, dropFrame |-> d]

MC_VITCs == {Timecode(0, 0, 59, 28, TRUE), Timecode(0, 0, 59, 29, TRUE), Timecode(0, 1, 0, 2, TRUE)}
MC_LTCs  == {Timecode(0, 0, 0, 0, FALSE), Timecode(0, 0, 0, 1, FALSE)}

ASSUME TimecodesProper == ProperTimecodes /\ TimecodesApart
=============================================================================
