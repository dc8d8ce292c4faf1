----------------------------- MODULE AtomReader -----------------------------
(***************************************************************************)
(* The OPAtom reader of the reader example (mxf_opatom_reader.c, with what *)
(* mxf_reader.c does before it), on the file of an AvidTrack.  The file    *)
(* may still be written, or be complete but for an end that a transfer has *)
(* not brought yet.                                                        *)
(***************************************************************************)
EXTENDS AvidTrack, FiniteSetsExt, Functions

CONSTANTS TailLen,        (* of what follows the essence in the file       *)
          MaxFrame        (* bound of the frames looked for                *)

VARIABLES reader,         (* the MXFReader, or Closed                      *)
          held,           (* cells at the end that are not there yet       *)
          delivered       (* the frame that the listener was given last    *)

readerVars == <<reader, held, delivered>>

Closed == [open |-> FALSE]
Nobody == [frame |-> -1, lens |-> <<>>, data |-> <<>>]

-----------------------------------------------------------------------------
(* The file behind the header of the essence element.                      *)
FileCells == essence \o (IF stage \in {"writing", "element"} THEN <<>> ELSE Static("tail", TailLen))
FileLen == Len(FileCells) - held

Pal   == [ticks |-> 6, frames |-> 1]
Fifty == [ticks |-> 3, frames |-> 1]
Ntsc  == [ticks |-> 23, frames |-> 5]
(* frameSizeSeq; the other rates have one frameSize.                       *)
SoundFrames(rate) == IF rate = Ntsc THEN <<5, 4, 5, 4, 5>> ELSE <<rate.ticks>>

Total(lens) == FoldFunction(+, 0, lens)
(* get_audio_file_offset, for frames in a sequence that is repeated.       *)
FrameOffset(lens, n) ==
    (n \div Len(lens)) * Total(lens) + Total(SubSeq(lens, 1, (n % Len(lens))))
(* get_audio_essence_element_frame_count                                   *)
FrameCount(lens, len) ==
    LET rest == len % Total(lens)
        whole == {k \in 1 .. Len(lens) - 1 : Total(SubSeq(lens, 1, k)) <= rest}
    IN  (len \div Total(lens)) * Len(lens) + Cardinality(whole)

(* get_clip_duration: the shortest of the material tracks, which come in   *)
(* any order; in PAL frames if there is no picture.                        *)
LastOne(clip, len) == [clip EXCEPT !.duration = len]
Shorter(clip, len) == [clip EXCEPT !.duration = IF len < @ THEN len ELSE @]
AddTrack(clip, track) ==
    LET At(rate) == ConvertLength(track.rate, track.duration, rate)
    IN  IF clip.hasVideo THEN Shorter(clip, At(clip.rate))
        ELSE IF track.picture
        THEN [hasVideo |-> TRUE, rate |-> track.rate,
              duration |-> LET before == ConvertLength(clip.rate, clip.duration, track.rate)
                           IN  IF clip.duration > 0 /\ before <= track.duration
                               THEN before ELSE track.duration]
        ELSE IF clip.duration > 0 THEN Shorter(clip, At(Pal))
        ELSE [clip EXCEPT !.duration = At(Pal)]
ClipOf(tracks) == FoldLeft(AddTrack, [hasVideo |-> FALSE, rate |-> Pal, duration |-> 0], tracks)

-----------------------------------------------------------------------------
(* opa_initialise_reader.  Two types need the index, which is behind the   *)
(* essence: all of it has to be there.                                     *)
IndexRead == ReadSegment(FooterIndex, [avid |-> type.kind = "mjpeg", default |-> FALSE])
CanOpen == type.kind \in {"mjpeg", "imx"} => IndexThere /\ IndexRead.ok

OpenClip(missing) ==
    LET clip == ClipOf(Durations)
    IN  /\ ~reader.open
        /\ missing > 0 => stage = "complete" /\ missing <= Len(FileCells) /\ type.kind \notin {"mjpeg", "imx"}
        /\ CanOpen
        /\ held' = missing
        /\ reader' = [open |-> TRUE, clip |-> clip,
                      frameOffsets |-> IF type.kind = "mjpeg" THEN IndexRead.segment.entries ELSE <<>>,
                      frameSizes |-> CASE type.kind = "mjpeg" -> <<>>
                                       [] type.kind = "imx" -> <<IndexRead.segment.common>>
                                       [] type.kind = "pcm" -> SoundFrames(clip.rate)
                                       [] OTHER -> <<type.unit>>,
                      essenceDataSize |-> ElementLen,
                      position |-> 0, filePos |-> 0, haveReadAFrame |-> FALSE]
        /\ UNCHANGED delivered

Transfer(n) ==
    /\ held >= n /\ held' = held - n
    /\ UNCHANGED <<reader, delivered>>

-----------------------------------------------------------------------------
(* get_avid_mjpeg_frame_info, or the frame's place by its number.          *)
HasInfo(n) == type.kind = "mjpeg" => n < Len(reader.frameOffsets) - 1
PlaceOf(n) == IF type.kind = "mjpeg" THEN reader.frameOffsets[n + 1]
              ELSE FrameOffset(reader.frameSizes, n)
SizeOfAll(n) == IF type.kind = "mjpeg" THEN reader.frameOffsets[n + 2] - reader.frameOffsets[n + 1]
                ELSE reader.frameSizes[1]
SizeOf(n) == IF type.kind = "mjpeg" THEN reader.frameOffsets[n + 2] - reader.frameOffsets[n + 1]
             ELSE reader.frameSizes[(n % Len(reader.frameSizes)) + 1]

InDuration(n) == reader.clip.duration >= 0 => n <= reader.clip.duration
ClipGoesOn == InDuration(reader.position + 1)

(* set_frame_rate: only sound without pictures, and at its start.          *)
SetFrameRate(rate) ==
    LET clip == reader.clip
        len == ConvertLength(clip.rate, clip.duration, rate)
        frames == FrameCount(SoundFrames(rate), reader.essenceDataSize)
    IN  /\ reader.open
        /\ ~clip.hasVideo /\ rate # clip.rate /\ reader.position = 0
        /\ reader' = [reader EXCEPT
               !.frameSizes = SoundFrames(rate),
               !.clip = [clip EXCEPT !.rate = rate,
                            !.duration = IF reader.essenceDataSize > 0 /\ len > frames THEN frames ELSE len]]
        /\ UNCHANGED <<held, delivered>>

PositionClip(n) ==
    /\ reader.open
    /\ InDuration(n) /\ n # reader.position /\ HasInfo(n)
    /\ reader' = [reader EXCEPT !.position = n, !.filePos = PlaceOf(n)]
    /\ UNCHANGED <<held, delivered>>

(* The reader after a frame, read or skipped, wherever the file ends.      *)
Past == [reader EXCEPT !.position = @ + 1, !.filePos = @ + SizeOf(reader.position)]

SkipClipFrame ==
    /\ reader.open /\ ClipGoesOn /\ HasInfo(reader.position)
    /\ reader' = Past
    /\ UNCHANGED <<held, delivered>>

(* The listener need not accept the frame.  When the file ends in it the   *)
(* read fails and the reader goes back to where it was.                    *)
ReadClipFrame(accept) ==
    LET end == reader.filePos + SizeOf(reader.position)
    IN  /\ reader.open /\ ClipGoesOn /\ HasInfo(reader.position)
        /\ accept => end <= FileLen
        /\ reader' = [Past EXCEPT !.haveReadAFrame = TRUE]
        /\ delivered' = IF accept
                        THEN [frame |-> reader.position, lens |-> reader.frameSizes,
                              data |-> SubSeq(FileCells, reader.filePos + type.startOffset + 1, end)]
                        ELSE delivered
        /\ UNCHANGED held

(* get_num_source_timecodes reads the next frame, whichever that is, and   *)
(* goes to frame 0.                                                        *)
GetNumSourceTimecodes ==
    LET reads == ClipGoesOn /\ HasInfo(reader.position)
        moves == reads \/ reader.position # 0
    IN  /\ reader.open /\ ~reader.haveReadAFrame
        /\ moves
        /\ reader' = [reader EXCEPT !.haveReadAFrame = reads,
                                    !.position = IF HasInfo(0) THEN 0 ELSE @,
                                    !.filePos = IF HasInfo(0) THEN 0 ELSE @]
        /\ UNCHANGED <<held, delivered>>

(* The last written frame, with the one that has begun.                    *)
LastClipFrameBegun ==
    LET target == FrameCount(reader.frameSizes, FileLen)
    IN  IF reader.clip.duration < 0 THEN -1
        ELSE IF type.kind = "mjpeg" \/ target >= reader.clip.duration THEN reader.clip.duration - 1
        ELSE target

(* get_last_written_frame_number                                           *)
LastClipFrame ==
    LET target == FrameCount(reader.frameSizes, FileLen) - 1
    IN  IF reader.clip.duration < 0 THEN -1
        ELSE IF type.kind = "mjpeg" \/ target >= reader.clip.duration THEN reader.clip.duration - 1
        ELSE target

NextRead ==
    \/ \E n \in 0 .. Len(FileCells) : OpenClip(n)
    \/ \E n \in 1 .. held : Transfer(n)
    \/ \E rate \in {Pal, Fifty, Ntsc} : SetFrameRate(rate)
    \/ \E n \in 0 .. MaxFrame : PositionClip(n)
    \/ reader.open /\ reader.position < MaxFrame /\ SkipClipFrame
    \/ \E accept \in BOOLEAN : reader.open /\ reader.position < MaxFrame /\ ReadClipFrame(accept)
    \/ GetNumSourceTimecodes

ClipInit == TrackInit /\ reader = Closed /\ held = 0 /\ delivered = Nobody
NextClip == \/ NextTrack /\ UNCHANGED readerVars
            \/ NextRead /\ UNCHANGED trackVars
ClipSpec == ClipInit /\ [][NextClip]_<<trackVars, readerVars>>

-----------------------------------------------------------------------------
(* The frames that clients wrote, as their reader should have them.        *)
Sound == FlattenSeq([n \in DOMAIN sent |-> Data(n, 0, sent[n])])
FramesSent(lens) == IF type.kind = "pcm" THEN FrameCount(lens, Len(Sound)) ELSE Len(sent)
FrameSent(lens, n) ==
    IF type.kind = "pcm"
    THEN SubSeq(Sound, FrameOffset(lens, n) + 1, FrameOffset(lens, n + 1))
    ELSE LET stored == Stored(type, n + 1, sent[n + 1])
         IN  SubSeq(stored, type.startOffset + 1, Len(stored))

(* A track of sound that is no frame long counts for nothing, if it comes  *)
(* first, when the shortest track is looked for.                           *)
Tracks == {MaterialTracks[k] : k \in DOMAIN MaterialTracks}
NoneIsEmpty == \A t \in Tracks : t.picture \/ ConvertLength(t.rate, t.duration, Pal) > 0

(* What is delivered as frame n is the n-th frame that was written, in     *)
(* whatever way it was written and the reader came there.  Beyond the last *)
(* there are two ways to be given something: the clip was opened before it *)
(* was complete and has no duration; or it ends within a frame of sound,   *)
(* by which the duration, which is rounded, may be too long.               *)
FramesAreDelivered ==
    delivered # Nobody =>
        LET n == delivered.frame
            frames == FramesSent(delivered.lens)
        IN  IF n < frames THEN delivered.data = FrameSent(delivered.lens, n)
            ELSE reader.clip.duration >= 0 /\ NoneIsEmpty => type.kind = "pcm" /\ n = frames

FrameWhole(n) ==
    /\ n < FramesSent(reader.frameSizes)
    /\ IF type.kind = "mjpeg" THEN reader.frameOffsets[n + 2] <= FileLen
       ELSE FrameOffset(reader.frameSizes, n + 1) <= FileLen

(* The last written frame is the last one of the clip that is there in     *)
(* whole, but for the end of the sound as above.                           *)
LastWrittenIsThere ==
    reader.open /\ reader.clip.duration >= 0 /\ NoneIsEmpty =>
        LET last == LastClipFrame
        IN  /\ \A n \in 0 .. last - 1 : FrameWhole(n)
            /\ last >= 0 => FrameWhole(last) \/ type.kind = "pcm"
            /\ last + 1 < reader.clip.duration => ~FrameWhole(last + 1)

(* The clip is as long as its shortest track, but for half a frame and     *)
(* half a PAL frame: the length of sound is rounded to PAL frames if there *)
(* was no picture before it, and again when there is one.  A new rate may  *)
(* take from it the rest of a frame, and a frame that was rounded up.      *)
DurationIsRight ==
    reader.open /\ reader.clip.duration >= 0 /\ NoneIsEmpty =>
        LET clip == reader.clip
            (* twice the ticks by which it is longer, times both rates     *)
            Longer(t) == 2 * (clip.duration * clip.rate.ticks * t.rate.frames
                              - t.duration * t.rate.ticks * clip.rate.frames)
            Rounding(t) == (clip.rate.ticks + Pal.ticks * clip.rate.frames) * t.rate.frames
        IN  /\ \A t \in Tracks : Longer(t) <= Rounding(t)
            /\ \E t \in Tracks : Longer(t) >= -(IF clip.hasVideo THEN 1 ELSE 2) * Rounding(t)

(* What get_clip_duration says of itself: that it finds the duration of    *)
(* the shortest track, in edit units of the pictures.                      *)
ShortestTrack ==
    reader.open /\ reader.clip.duration >= 0 /\ reader.clip.hasVideo =>
        reader.clip.duration = Min({ConvertLength(t.rate, t.duration, reader.clip.rate) : t \in Tracks})
=============================================================================
