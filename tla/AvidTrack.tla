----------------------------- MODULE AvidTrack -----------------------------
(***************************************************************************)
(* The track writer of the Avid writer (write_avid_mxf.c): the essence of  *)
(* one track goes into a file of its own, in whole samples or in pieces,   *)
(* and completing the clip adds what readers need to find their way.       *)
(*                                                                         *)
(* Essence is a row of cells.  The file is what follows the header of the  *)
(* essence element; the header metadata before it is its durations.        *)
(* Lengths and rates are scaled down: a tick is 320 samples of sound, and  *)
(* the five NTSC frames of 1602 and 1601 samples have 5 and 4.             *)
(***************************************************************************)
EXTENDS IndexSegment, SequencesExt

CONSTANTS EssenceTypes,
          ArraySize,      (* MJPEG_STREAM_OFFSETS_ARRAY_SIZE               *)
          FrameSizes,     (* those of MJPEG frames                         *)
          SampleNumbers,  (* of sound samples in one call                  *)
          MaxLen,         (* bound of the essence of pictures              *)
          MaxSound,       (* that of sound                                 *)
          InPieces,       (* the types that clients write in pieces        *)
          Companions      (* the material tracks before and after this one *)

(* A type of essence: its kind; the length of an edit unit; the padding    *)
(* and the VBI lines in it, of which the client's data may have more than  *)
(* belong there (vbi < 0); the rates of the file's track and of the one in *)
(* the material package.  A companion has what its header item says.       *)
Kinds == {"mjpeg", "imx", "fixed", "padded", "unc720", "pcm"}
Rates == [ticks : Nat \ {0}, frames : Nat \ {0}]
ASSUME TrackAssumption ==
    /\ \A t \in EssenceTypes :
           /\ t.kind \in Kinds /\ {t.rate, t.materialRate} \subseteq Rates
           /\ t.unit \in Nat \ {0} /\ t.startOffset \in Nat /\ t.vbi \in Int
           /\ t.kind # "padded" => t.startOffset = 0 /\ t.vbi = 0
    /\ ArraySize \in Nat \ {0, 1} /\ FrameSizes \subseteq Nat \ {0}
    /\ SampleNumbers \subseteq Nat \ {0} /\ MaxLen \in Nat /\ MaxSound \in Nat
    /\ InPieces \subseteq EssenceTypes

VARIABLES type, companions,
          stage,              (* how far the file is                       *)
          essence,            (* the value of the essence element          *)
          trackDuration,
          sampleDataSize,     (* of the sample begun, or -1                *)
          offsets,            (* the list of arrays of MJPEG offsets       *)
          prevFrameOffset,
          sent                (* the sizes of the samples written          *)

trackVars == <<type, companions, stage, essence, trackDuration, sampleDataSize, offsets,
               prevFrameOffset, sent>>

-----------------------------------------------------------------------------
(* Lengths at one rate, to the nearest at another: what                    *)
(* mxfr_convert_length and complete_track both do in floating point.       *)
ConvertLength(in, len, out) ==
    IF len < 0 \/ in = out THEN len
    ELSE (2 * len * in.ticks * out.frames + in.frames * out.ticks) \div (2 * in.frames * out.ticks)

Picture(t) == t.kind # "pcm"
SizeFor(n) == IF type.kind = "pcm" THEN n * type.unit ELSE type.unit - type.startOffset - type.vbi

(* The data of the client's n-th sample, and the static data.              *)
Data(n, from, to) == [k \in 1 .. to - from |-> <<"sample", n, from + k>>]
Static(what, len) == [k \in 1 .. len |-> <<what, 0, k>>]
StartOffset(t) == Static("offset", t.startOffset) \o Static("vbi", IF t.vbi > 0 THEN t.vbi ELSE 0)

(* What write_samples makes of the data of a sample.                       *)
Stored(t, n, size) == StartOffset(t) \o Data(n, IF t.vbi < 0 THEN -t.vbi ELSE 0, size)

(* add_avid_mjpeg_offset.  An array holds one less than its size.          *)
WithOffset(arrays, offset) ==
    IF arrays = <<>> \/ Len(Last(arrays)) + 1 = ArraySize
    THEN Append(arrays, <<offset>>)
    ELSE [arrays EXCEPT ![Len(arrays)] = Append(@, offset)]

-----------------------------------------------------------------------------
(* create_track_writer: pictures have the project's rate, sound has it or  *)
(* that of its samples.  The element is open and its length not known.     *)
SampleRate == [ticks |-> 1, frames |-> 1]
RatesOf(t, cs) == {t.rate, t.materialRate} \cup {cs[k].rate : k \in DOMAIN cs}
OneProject(t, c) == LET rates == RatesOf(t, c.before \o c.after)
                    IN  \E rate \in rates : rates \subseteq {rate, SampleRate}

TrackInit ==
    /\ type \in EssenceTypes
    /\ companions \in Companions /\ OneProject(type, companions)
    /\ stage = "writing"
    /\ essence = <<>> /\ trackDuration = 0
    /\ sampleDataSize = -1
    /\ offsets = <<>> /\ prevFrameOffset = 0
    /\ sent = <<>>

Sample(numSamples, size) ==
    /\ trackDuration' = trackDuration + numSamples
    /\ sent' = Append(sent, size)
    /\ IF type.kind = "mjpeg"
       THEN /\ offsets' = WithOffset(offsets, prevFrameOffset)
            /\ prevFrameOffset' = prevFrameOffset + size
       ELSE UNCHANGED <<offsets, prevFrameOffset>>

(* The sizes that the functions accept for a number of samples.            *)
Sizes(numSamples) == IF type.kind = "mjpeg" THEN FrameSizes ELSE {SizeFor(numSamples)}
Numbers == IF type.kind # "pcm" THEN {1} ELSE IF type.unit = 1 THEN SampleNumbers ELSE {1, 2}
Next1 == Len(sent) + 1

WriteSamples(numSamples, size) ==
    /\ stage = "writing" /\ sampleDataSize = -1
    /\ size \in Sizes(numSamples)
    /\ essence' = essence \o Stored(type, Next1, size)
    /\ Sample(numSamples, size)
    /\ UNCHANGED <<type, companions, stage, sampleDataSize>>

StartWriteSamples ==
    /\ stage = "writing" /\ sampleDataSize = -1
    /\ type \in InPieces
    /\ sampleDataSize' = 0
    /\ UNCHANGED <<type, companions, stage, essence, trackDuration, offsets, prevFrameOffset, sent>>

(* What is written of a piece of a sample.  One with surplus VBI lines is  *)
(* not cut off but made longer, size - (...) for size + (...), and taken   *)
(* from before the data, or 4 GB after that where pointers have 64 bits.   *)
Pieces(size) ==
    LET before == sampleDataSize + type.vbi
        data == Data(Next1, sampleDataSize, sampleDataSize + size)
    IN  IF before >= 0 THEN {data}
        ELSE IF before + size > 0
        THEN {Static("memory", -before) \o data, Static("memory", size - before)}
        ELSE {<<>>}

WriteSampleData(size) ==
    /\ stage = "writing" /\ sampleDataSize >= 0
    /\ \E piece \in Pieces(size) :
           essence' = essence \o (IF sampleDataSize = 0 THEN StartOffset(type) ELSE <<>>) \o piece
    /\ sampleDataSize' = sampleDataSize + size
    /\ UNCHANGED <<type, companions, stage, trackDuration, offsets, prevFrameOffset, sent>>

(* There is no case for uncompressed 720p, which ends in an assertion.     *)
EndWriteSamples(numSamples) ==
    /\ stage = "writing" /\ sampleDataSize > 0
    /\ sampleDataSize \in Sizes(numSamples)
    /\ type.kind # "unc720"
    /\ Sample(numSamples, sampleDataSize)
    /\ sampleDataSize' = -1
    /\ UNCHANGED <<type, companions, stage, essence>>

AssertionFails ==
    /\ stage = "writing" /\ sampleDataSize >= 0 /\ type.kind = "unc720"
    /\ stage' = "crashed"
    /\ UNCHANGED <<type, companions, essence, trackDuration, sampleDataSize, offsets, prevFrameOffset, sent>>

-----------------------------------------------------------------------------
(* complete_track.  The client may have given up a sample in the middle,   *)
(* as main.c does at the end of an MJPEG stream.                           *)
MayComplete == stage = "writing" /\ (sampleDataSize = -1 \/ type.kind = "mjpeg")

FinalizeElement ==
    /\ MayComplete
    /\ stage' = "element"
    /\ UNCHANGED <<type, companions, essence, trackDuration, sampleDataSize, offsets, prevFrameOffset, sent>>

(* The footer partition with its index.  The last offset is the length.    *)
WriteFooter ==
    /\ stage = "element"
    /\ offsets' = IF type.kind = "mjpeg" THEN WithOffset(offsets, prevFrameOffset) ELSE offsets
    /\ stage' = "footer"
    /\ UNCHANGED <<type, companions, essence, trackDuration, sampleDataSize, prevFrameOffset, sent>>

UpdateHeader ==
    /\ stage = "footer"
    /\ stage' = "complete"
    /\ UNCHANGED <<type, companions, essence, trackDuration, sampleDataSize, offsets, prevFrameOffset, sent>>

(* The bounds of the essence.                                              *)
Bound == IF type.kind = "pcm" THEN MaxSound ELSE MaxLen

NextTrack ==
    \/ \E n \in Numbers : \E size \in Sizes(n) :
           Len(essence) + size <= Bound /\ WriteSamples(n, size)
    \/ StartWriteSamples
    \/ \E size \in 1 .. Bound : Len(essence) + size <= Bound /\ WriteSampleData(size)
    \/ \E n \in Numbers : EndWriteSamples(n)
    \/ AssertionFails
    \/ FinalizeElement \/ WriteFooter \/ UpdateHeader

TrackSpec == TrackInit /\ [][NextTrack]_trackVars

-----------------------------------------------------------------------------
(* What is in the file.                                                    *)
ElementLen == IF stage = "writing" THEN 0 ELSE Len(essence)

IndexThere == stage \in {"footer", "complete"}
FooterIndex ==
    LET entries == FlattenSeq(offsets)
    IN  IF type.kind = "mjpeg" THEN Written([NewSegment EXCEPT !.entries = entries], TRUE)
        ELSE Written([NewSegment EXCEPT !.common = type.unit], FALSE)

Known(len) == IF stage = "complete" THEN len ELSE -1
MaterialTracks ==
    companions.before
    \o <<[picture |-> Picture(type), rate |-> type.materialRate,
          duration |-> ConvertLength(type.rate, trackDuration, type.materialRate)]>>
    \o companions.after
Durations == [k \in DOMAIN MaterialTracks |->
                 [MaterialTracks[k] EXCEPT !.duration = Known(@)]]

-----------------------------------------------------------------------------
(* Between two samples the essence is that of the samples, each as         *)
(* write_samples stores it, whether it came whole or in pieces.            *)
SamplesAreStored ==
    stage # "crashed" /\ sampleDataSize = -1 =>
        essence = FlattenSeq([n \in DOMAIN sent |-> Stored(type, n, sent[n])])
=============================================================================
