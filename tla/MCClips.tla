------------------------------ MODULE MCClips ------------------------------
(* Types of essence and companions for AtomReader.                         *)
EXTENDS AtomReader

Video(kind, unit, startOffset, vbi, rate) ==
    [kind |-> kind, unit |-> unit, startOffset |-> startOffset, vbi |-> vbi,
     rate |-> rate, materialRate |-> rate]
Audio(unit, rate, materialRate) ==
    [kind |-> "pcm", unit |-> unit, startOffset |-> 0, vbi |-> 0, rate |-> rate, materialRate |-> materialRate]

Surplus == Video("padded", 4, 1, -1, Pal)
Unc720 == Video("unc720", 2, 0, 0, Pal)
MCTypes == {Video("mjpeg", 1, 0, 0, Pal), Video("imx", 2, 0, 0, Pal), Video("fixed", 2, 0, 0, Ntsc),
            Video("padded", 4, 1, 1, Pal), Video("padded", 3, 1, 0, Ntsc), Surplus, Unc720,
            Audio(6, Pal, Pal), Audio(1, SampleRate, SampleRate), Audio(1, SampleRate, Pal)}
(* All but the one that loses what is before its sample.                   *)
MCInPieces == MCTypes \ {Surplus}
MCSurplus == {Surplus}

Track(picture, rate, len) == [picture |-> picture, rate |-> rate, duration |-> len]
Others == {<<Track(TRUE, Pal, 1)>>, <<Track(TRUE, Ntsc, 2)>>, <<Track(FALSE, SampleRate, 7)>>}
Alone == [before |-> <<>>, after |-> <<>>]
MCCompanions == {Alone} \cup {[before |-> b, after |-> <<>>] : b \in Others}
                \cup {[before |-> <<>>, after |-> a] : a \in Others}
=============================================================================
