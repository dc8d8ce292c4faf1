---------------------------- MODULE TimecodeIndex ----------------------------
(***************************************************************************)
(* The run-length coded index of the time codes of a recording, as         *)
(* timecode_index.c of the archive writer keeps one for the VITC and one   *)
(* for the LTC, and the searchers that find time codes and positions in    *)
(* it.  The writer adds both time codes of a frame at a time, and searches *)
(* when the last frame is in.                                              *)
(*                                                                         *)
(* The elements are one sequence; the code keeps them in arrays of a fixed *)
(* length, all of which but the last are full.                             *)
(***************************************************************************)
EXTENDS Integers, Sequences

CONSTANTS Base,           (* roundedTCBase                                   *)
          AllowDropFrame, (* the frame rate is n/1001                        *)
          VITCs, LTCs,    (* the time codes that frames come with            *)
          MaxFrames,      (* bound: frames in the recording                  *)
          Alone,          (* the tracks that are also searched on their own  *)
          Clients         (* what clients do beside the plain               *)

Tracks == {"vitc", "ltc"}

(* ArchiveTimecode                                                         *)
Timecodes == [hour : 0 .. 255, min : 0 .. 255, sec : 0 .. 255, frame : 0 .. 255, dropFrame : BOOLEAN]

ASSUME TimecodeAssumption ==
    /\ Base \in Nat \ {0}
    /\ AllowDropFrame \in BOOLEAN
    /\ VITCs \cup LTCs \subseteq Timecodes
    /\ MaxFrames \in Nat
    /\ Alone \subseteq Tracks
    /\ Clients \subseteq {"search_in_frozen", "dual_in_frozen"}

(* INVALID_TIMECODE_HOUR: no time code to look for                         *)
Invalid == [hour |-> 255, min |-> 0, sec |-> 0, frame |-> 0, dropFrame |-> FALSE]
TimecodesOf(track) == IF track = "vitc" THEN VITCs ELSE LTCs

VARIABLES frames,    (* the time codes added so far, by track               *)
          index,     (* elements [frozen, timecodePos, duration], by track  *)
          searcher,  (* by track                                            *)
          phase,        (* "adding", "idle", or "looking": the dual search     *)
          dual       (* the dual search in progress                         *)

timecodeVars == <<frames, index, searcher, phase, dual>>

-----------------------------------------------------------------------------
(* timecode_to_position: with drop frames the first two frame numbers of   *)
(* each minute are left out, except in every tenth.                        *)
Dropped(tc) ==
    IF AllowDropFrame /\ tc.dropFrame
    THEN (60 - 6) * 2 * tc.hour + (tc.min \div 10) * 9 * 2 + (tc.min % 10) * 2
    ELSE 0
TimecodeToPositionPlain(tc) == ((tc.hour * 60 + tc.min) * 60 + tc.sec) * Base + tc.frame
TimecodeToPosition(tc) == ((tc.hour * 60 + tc.min) * 60 + tc.sec) * Base + tc.frame - Dropped(tc)

(* position_to_timecode knows no drop frames.                              *)
PositionToTimecode(p) ==
    [hour  |-> p \div (60 * 60 * Base),
     min   |-> (p % (60 * 60 * Base)) \div (60 * Base),
     sec   |-> (p % (60 * Base)) \div Base,
     frame |-> p % Base,
     dropFrame |-> FALSE]

-----------------------------------------------------------------------------
(* add_timecode_to_index                                                   *)
NewElement(p) == [frozen |-> FALSE, timecodePos |-> p, duration |-> 1]

Continues(last, p) == last.timecodePos + last.duration = p
FreezesAny(last, p) == last.timecodePos = p
Freezes(last, p) == last.timecodePos = p /\ (last.frozen \/ last.duration = 1)

Added(ix, p) ==
    LET n == Len(ix)
    IN  IF n = 0 THEN <<NewElement(p)>>
        ELSE IF Continues(ix[n], p) THEN [ix EXCEPT ![n].duration = @ + 1]
        ELSE IF Freezes(ix[n], p) THEN [ix EXCEPT ![n].duration = @ + 1, ![n].frozen = TRUE]
        ELSE Append(ix, NewElement(p))

-----------------------------------------------------------------------------
(* The searcher                                                            *)
NewSearcher(ix) == [elementNum |-> 1, elementOffset |-> 0, position |-> 0,
                    atEnd |-> ix = <<>>, beforeStart |-> TRUE]

Failed(s) == [ok |-> FALSE, searcher |-> s]
Found(s)  == [ok |-> TRUE, searcher |-> s]

(* Where the searcher is when it has moved on to the start of element k.   *)
OffsetKept(s, k) == s.elementOffset
OffsetIn(s, k) == IF k = s.elementNum THEN s.elementOffset ELSE 0
PositionAt(ix, s, k) ==
    LET at[j \in s.elementNum .. k] ==
          IF j = s.elementNum THEN s.position
                              ELSE at[j - 1] + ix[j - 1].duration - OffsetIn(s, j - 1)
    IN  at[k]

Only(S, default) == IF S = {} THEN default ELSE CHOOSE x \in S : TRUE
First(S) == {k \in S : \A j \in S : k <= j}

(* move_timecode_index_searcher                                            *)
Move(ix, s, position) ==
    LET In(k) == position < PositionAt(ix, s, k) + ix[k].duration - OffsetIn(s, k)
    IN  IF position = s.position THEN Found(s)
        ELSE IF s.atEnd \/ position < s.position THEN Failed(s)
        ELSE Only({Found([s EXCEPT !.elementNum = k,
                                   !.elementOffset = OffsetIn(s, k) + position - PositionAt(ix, s, k),
                                   !.position = position,
                                   !.beforeStart = FALSE]) :
                   k \in First({k \in s.elementNum .. Len(ix) : In(k)})},
                  Failed(s))

(* find_timecode: the time code at a position                              *)
TimecodePosIn(element, offset) ==
    IF element.frozen THEN element.timecodePos ELSE element.timecodePos + offset
FindTimecode(ix, s, position) ==
    LET moved == Move(ix, s, position)
        at    == moved.searcher
    IN  IF moved.ok
        THEN [ok |-> TRUE, searcher |-> at,
              timecode |-> PositionToTimecode(TimecodePosIn(ix[at.elementNum], at.elementOffset))]
        ELSE [ok |-> FALSE, searcher |-> s, timecode |-> PositionToTimecode(0)]

(* find_position: the next position with a time code.  It is in an element *)
(* that counts up from where the searcher is in it, but not where the      *)
(* searcher found the last one, or in an element that is frozen at it.     *)
IsNextAgain(s, k, t, here) == t >= here
IsNext(s, k, t, here) == t >= here /\ (k > s.elementNum \/ s.beforeStart \/ t > here)

FindPosition(ix, s, tc) ==
    LET t       == TimecodeToPosition(tc)
        here(k) == ix[k].timecodePos + OffsetIn(s, k)
        Counted(k) == IsNext(s, k, t, here(k)) /\ t < ix[k].timecodePos + ix[k].duration
        Frozen(k)  == ix[k].frozen /\ t = ix[k].timecodePos
        On(k)      == IF Counted(k) THEN t - here(k) ELSE 0
    IN  IF s.atEnd THEN Failed(s)
        ELSE Only({Found([s EXCEPT !.elementNum = k,
                                   !.elementOffset = OffsetIn(s, k) + On(k),
                                   !.position = PositionAt(ix, s, k) + On(k),
                                   !.beforeStart = FALSE]) :
                   k \in First({k \in s.elementNum .. Len(ix) : Counted(k) \/ Frozen(k)})},
                  Failed(s))

(* find_frozen_timecode_at_offset                                          *)
FindFrozen(ix, s, offset) ==
    IF ~s.atEnd /\ ix[s.elementNum].frozen /\ s.elementOffset + offset < ix[s.elementNum].duration
    THEN Found([s EXCEPT !.elementOffset = @ + offset, !.position = @ + offset])
    ELSE Failed(s)

(* move_timecode_index_searcher_to_next_element                            *)
NextElement(ix, s) ==
    IF ~s.atEnd /\ s.elementNum < Len(ix)
    THEN Found([s EXCEPT !.elementNum = @ + 1, !.elementOffset = 0,
                         !.position = PositionAt(ix, s, s.elementNum + 1)])
    ELSE Failed(s)

-----------------------------------------------------------------------------
NoDual == [timecode |-> [tr \in Tracks |-> Invalid],
           position |-> [tr \in Tracks |-> 0], before |-> [tr \in Tracks |-> NewSearcher(<<>>)]]

TimecodeInit ==
    /\ frames = [tr \in Tracks |-> <<>>]
    /\ index = [tr \in Tracks |-> <<>>]
    /\ searcher = [tr \in Tracks |-> NewSearcher(<<>>)]
    /\ phase = "adding"
    /\ dual = NoDual

(* write_system_item                                                       *)
AddFrame(vitc, ltc) ==
    /\ phase = "adding"
    /\ Len(frames["vitc"]) < MaxFrames
    /\ LET tc == [tr \in Tracks |-> IF tr = "vitc" THEN vitc ELSE ltc]
       IN  /\ frames' = [tr \in Tracks |-> Append(frames[tr], tc[tr])]
           /\ index' = [tr \in Tracks |-> Added(index[tr], TimecodeToPosition(tc[tr]))]
    /\ UNCHANGED <<searcher, phase, dual>>

(* initialise_timecode_index_searcher, for both                            *)
StartSearch ==
    /\ phase \in {"adding", "idle"}
    /\ searcher' = [tr \in Tracks |-> NewSearcher(index[tr])]
    /\ phase' = "idle"
    /\ UNCHANGED <<frames, index, dual>>

(* No element is frozen at a time code that the one looked for would be    *)
(* reached from if it counted up instead.                                  *)
FrozenBefore(ix, t) ==
    \E k \in DOMAIN ix : /\ ix[k].frozen
                         /\ ix[k].timecodePos < t /\ t < ix[k].timecodePos + ix[k].duration
Searchable(ix, tc) ==
    "search_in_frozen" \in Clients \/ ~FrozenBefore(ix, TimecodeToPosition(tc))

(* The program's own searches: the position of an error with a time code.  *)
Find(track, tc) ==
    /\ phase = "idle"
    /\ Searchable(index[track], tc)
    /\ searcher' = [searcher EXCEPT ![track] = FindPosition(index[track], @, tc).searcher]
    /\ UNCHANGED <<frames, index, phase, dual>>

(* A search for a time code by position                                    *)
Go(track, position) ==
    /\ phase = "idle"
    /\ index[track] # <<>>
    /\ searcher' = [searcher EXCEPT ![track] = FindTimecode(index[track], @, position).searcher]
    /\ UNCHANGED <<frames, index, phase, dual>>

-----------------------------------------------------------------------------
(* find_position_at_dual_timecode, where both find a first position; where *)
(* one does not the searchers are restored at once.  A track whose time    *)
(* code is invalid follows the other.                                      *)
Wanted(tr, d) == d.timecode[tr] # Invalid

(* No frozen time code is followed by another: a search that steps from    *)
(* the one into the other takes its position to be that of the first.      *)
DualSearchable(tr, tc) ==
    /\ Searchable(index[tr], tc)
    /\ \/ "dual_in_frozen" \in Clients
       \/ tc = Invalid
       \/ \A k \in 2 .. Len(index[tr]) : ~(index[tr][k - 1].frozen /\ index[tr][k].frozen)

FindDual(vitc, ltc) ==
    /\ phase = "idle"
    /\ vitc # Invalid \/ ltc # Invalid
    /\ LET v == FindPosition(index["vitc"], searcher["vitc"], vitc)
           l == FindPosition(index["ltc"], searcher["ltc"], ltc)
           to == [vitc |-> IF vitc # Invalid THEN v
                           ELSE Move(index["vitc"], searcher["vitc"], l.searcher.position),
                  ltc  |-> IF ltc # Invalid THEN l
                           ELSE Move(index["ltc"], searcher["ltc"], v.searcher.position)]
       IN  /\ DualSearchable("vitc", vitc) /\ DualSearchable("ltc", ltc)
           /\ to["vitc"].ok /\ to["ltc"].ok
           /\ searcher' = [tr \in Tracks |-> to[tr].searcher]
           /\ dual' = [timecode |-> [vitc |-> vitc, ltc |-> ltc], before |-> searcher,
                       position |-> [tr \in Tracks |-> to[tr].searcher.position]]
    /\ phase' = "looking"
    /\ UNCHANGED <<frames, index>>

Behind == IF dual.position["vitc"] < dual.position["ltc"] THEN "vitc" ELSE "ltc"
Other(tr) == CHOOSE u \in Tracks : u # tr

DualFound ==
    /\ phase = "looking"
    /\ dual.position["vitc"] = dual.position["ltc"]
    /\ phase' = "idle"
    /\ dual' = NoDual
    /\ UNCHANGED <<frames, index, searcher>>

RestoredNot == searcher
Restored == dual.before

(* A search from a frozen element finds it again.                          *)
FoundAgainNever(next) == FALSE
FoundAgain(next) == next.searcher.position = dual.position[Behind]

CatchUp(s, position) ==
    /\ searcher' = [searcher EXCEPT ![Behind] = s]
    /\ dual' = [dual EXCEPT !.position[Behind] = position]
    /\ UNCHANGED phase

GiveUp ==
    /\ searcher' = Restored
    /\ phase' = "idle"
    /\ dual' = NoDual

(* The track that is behind catches up with the other: within its frozen   *)
(* element, or to the next position with its time code, or, where that is  *)
(* the one it is at, to the next element.                                  *)
LookFurther ==
    /\ phase = "looking"
    /\ dual.position["vitc"] # dual.position["ltc"]
    /\ LET ix     == index[Behind]
           there  == dual.position[Other(Behind)]
           frozen == FindFrozen(ix, searcher[Behind], there - dual.position[Behind])
           next   == FindPosition(ix, searcher[Behind], dual.timecode[Behind])
           moved  == IF FoundAgain(next) THEN NextElement(ix, next.searcher) ELSE next
       IN  IF frozen.ok THEN CatchUp(frozen.searcher, there)
           ELSE IF next.ok /\ moved.ok THEN CatchUp(moved.searcher, next.searcher.position)
           ELSE GiveUp
    /\ UNCHANGED <<frames, index>>

-----------------------------------------------------------------------------
TimecodeCall ==
    \/ \E v \in VITCs, l \in LTCs : AddFrame(v, l)
    \/ StartSearch
    \/ \E tr \in Alone : \E tc \in TimecodesOf(tr) : Find(tr, tc)
    \/ \E tr \in Alone, p \in 0 .. MaxFrames : Go(tr, p)
    \/ \E v \in VITCs \cup {Invalid}, l \in LTCs \cup {Invalid} : FindDual(v, l)

SearchStep == DualFound \/ LookFurther

NextTimecode == TimecodeCall \/ SearchStep

TimecodeSpec == TimecodeInit /\ [][NextTimecode]_timecodeVars
(* A dual search runs to its end once started.                             *)
FairSpec == TimecodeSpec /\ WF_timecodeVars(SearchStep)

-----------------------------------------------------------------------------
Positions(tr) == 0 .. Len(frames[tr]) - 1
FrameAt(tr, p) == frames[tr][p + 1]
Time(tr, p) == TimecodeToPosition(FrameAt(tr, p))

TimecodesOK ==
    /\ \A tr \in Tracks :
          /\ frames[tr] \in Seq(TimecodesOf(tr))
          /\ index[tr] \in Seq([frozen : BOOLEAN, timecodePos : Nat, duration : Nat \ {0}])
          /\ searcher[tr] \in [elementNum : Nat, elementOffset : Nat, position : Nat,
                               atEnd : BOOLEAN, beforeStart : BOOLEAN]
    /\ phase \in {"adding", "idle", "looking"}
    /\ \A tr \in Tracks : dual.timecode[tr] \in TimecodesOf(tr) \cup {Invalid} /\ dual.position[tr] \in Nat

(* The time codes of a recording: there are as many minutes and seconds as *)
(* there should be, and those of a track are of one kind, so that no two   *)
(* are at one position.                                                    *)
ProperTimecodes == \A tc \in VITCs \cup LTCs : tc.min < 60 /\ tc.sec < 60 /\ tc.frame < Base
TimecodesApart == \A tr \in Tracks : \A a, b \in TimecodesOf(tr) :
    TimecodeToPosition(a) = TimecodeToPosition(b) => a = b

(* A time code that froze at frame q has, at frame p, what it would have   *)
(* been had it counted up all the way: a source that dropped out and is    *)
(* back, or one that counts on from q whenever it is read.                 *)
Resumes(tr, q, p) ==
    /\ q + 1 < p /\ Time(tr, q + 1) = Time(tr, q)
    /\ \A r \in q + 1 .. p - 1 : Time(tr, r) \in {Time(tr, q), Time(tr, q) + (r - q)}
    /\ Time(tr, p) = Time(tr, q) + (p - q)
Resumed(tr) == \E p \in Positions(tr) : \E q \in 0 .. p : Resumes(tr, q, p)

(* What every recording is told of.  A frame has in the index the time     *)
(* code that it was added with, in hours, minutes, seconds and frames too  *)
(* if it has no drop frames, whatever was frozen, repeated or skipped.     *)
(* Only where a frozen time code is resumed does the frame have the frozen *)
(* one: add_timecode_to_index takes it to be next in the frozen element    *)
(* (see ContinuesPrevious).                                                *)
IndexTellsFrames ==
    phase = "adding" => \A tr \in Tracks : \A p \in Positions(tr) :
        LET r    == FindTimecode(index[tr], NewSearcher(index[tr]), p)
            at   == r.searcher
            told == TimecodePosIn(index[tr][at.elementNum], at.elementOffset)
        IN  /\ r.ok
            /\ \/ told = Time(tr, p) /\ (~FrameAt(tr, p).dropFrame => r.timecode = FrameAt(tr, p))
               \/ \E q \in 0 .. p : Resumes(tr, q, p) /\ told = Time(tr, q)


(* A searcher's position and its place among the elements agree, however   *)
(* many searches went before, also failed ones.                            *)
SearcherAgrees ==
    phase = "idle" => \A tr \in Tracks : index[tr] # <<>> =>
        LET s == searcher[tr]
        IN  /\ s.elementNum \in DOMAIN index[tr]
            /\ s.elementOffset < index[tr][s.elementNum].duration
            /\ s.position = PositionAt(index[tr], NewSearcher(index[tr]), s.elementNum) + s.elementOffset

(* The positions that a search for tc may find: those behind the searcher, *)
(* and its own if it is new or stands in a frozen element.                 *)
Ahead(tr, tc) ==
    LET s == searcher[tr]
        own == s.beforeStart \/ index[tr][s.elementNum].frozen
    IN  {p \in Positions(tr) : /\ FrameAt(tr, p) = tc
                               /\ p > s.position \/ (p = s.position /\ own)}

(* A search finds the next frame with the time code, and finds it whenever *)
(* there is one, in a track where no frozen time code is resumed.          *)
FindsNext ==
    phase = "idle" => \A tr \in Tracks : \A tc \in TimecodesOf(tr) :
        Searchable(index[tr], tc) /\ ~Resumed(tr) =>
            LET r == FindPosition(index[tr], searcher[tr], tc)
            IN  IF index[tr] = <<>> \/ Ahead(tr, tc) = {} THEN ~r.ok
                ELSE /\ r.ok
                     /\ r.searcher.position \in Ahead(tr, tc)
                     /\ \A p \in Ahead(tr, tc) : r.searcher.position <= p

(* A dual search that succeeds leaves both searchers at one frame, which   *)
(* has both time codes; one that fails leaves them where they were, and    *)
(* fails only if there is no such frame ahead.  This is where no frozen    *)
(* time code is resumed in a track that is searched.                       *)
Steady(d) == \A tr \in Tracks : Wanted(tr, d) => ~Resumed(tr)
DualReturns ==
    \/ \E p \in Positions("vitc") :
          \A tr \in Tracks :
             /\ searcher'[tr].position = p
             /\ Wanted(tr, dual) => FrameAt(tr, p) = dual.timecode[tr]
    \/ /\ searcher' = dual.before
       /\ \A p \in Positions("vitc") :
             \E tr \in Tracks : p <= dual.before[tr].position \/ FrameAt(tr, p) # dual.timecode[tr]
DualMatches == [][phase = "looking" /\ phase' = "idle" /\ Steady(dual) => DualReturns]_timecodeVars

(* Every search returns.                                                   *)
SearchesReturn == (phase = "looking") ~> (phase = "idle")
=============================================================================
