-------------------------- MODULE PartitionSearch --------------------------
(***************************************************************************)
(* How a reader finds its way into a file without a random index pack, in  *)
(* mxf_partition.c: the header partition behind a run-in of unknown length *)
(* (mxf_read_header_pp_kl_with_runin), then the footer partition, searched *)
(* backwards in windows (mxf_find_footer_partition).                       *)
(*                                                                         *)
(* A key is a prefix that is the same for all partition packs, the kind of *)
(* the partition and bytes that do not matter here.  Its lengths and those *)
(* of the windows are constants; in the code they are                      *)
(* Start 11, Prefix 13, KeySize 16, Window 32768, MaxIterations 250,       *)
(* MaxRunIn 65535.  The bytes of the prefix are taken to be all different, *)
(* of which the search relies on no more than that the first one, 06, does *)
(* not occur again.                                                        *)
(***************************************************************************)
EXTENDS Integers, Sequences

CONSTANTS Start,          (* bytes of the key the run-in may not contain    *)
          Prefix,         (* bytes all partition keys begin with            *)
          KeySize,        (* bytes of a key                                 *)
          Window,         (* bytes read at a time by the search backwards   *)
          MaxIterations,  (* windows the search reads at most               *)
          MaxRunIn,       (* MAX_RUNIN_LEN                                  *)
          Files,          (* the files that are opened: sequences of bytes  *)
          Leftovers       (* what uninitialised memory may hold: sequences  *)
                          (* of KeyLen - 1 bytes                            *)

ASSUME SearchAssumption ==
    /\ Start \in Nat \ {0} /\ Prefix \in Nat /\ Start <= Prefix
    /\ KeySize \in Nat /\ KeySize > Prefix
    /\ Window \in Nat /\ Window > KeySize
    /\ MaxIterations \in Nat \ {0}
    /\ MaxRunIn \in Nat
    /\ Files \subseteq Seq(Nat)
    /\ Leftovers \subseteq [1 .. KeySize - 1 -> Nat]

VARIABLES file,
          phase,
          filePos,           (* of the file                                 *)
          keyCompareByte, runinCheckCount,
          offset, i, lastIteration,
          buffer,            (* the first KeyLen - 1 bytes of the buffer    *)
          header, footer     (* the results: a position, or NotFound        *)

searchVars == <<file, phase, filePos, keyCompareByte, runinCheckCount,
                offset, i, lastIteration, buffer, header, footer>>

NotFound == -1

(* The bytes: 1 .. Prefix are those of the prefix; then there are the      *)
(* three kinds, and 0 for any other byte.                                  *)
Header == Prefix + 1
Body   == Prefix + 2
Footer == Prefix + 3
Other  == 0
Key(kind) == [k \in 1 .. KeySize |-> IF k <= Prefix THEN k
                                    ELSE IF k = Prefix + 1 THEN kind ELSE Other]

Smaller(a, b) == IF a <= b THEN a ELSE b
Size == Len(file)

SearchInit ==
    /\ file \in Files
    /\ phase = "run-in"
    /\ filePos = 0
    /\ keyCompareByte = 0 /\ runinCheckCount = 0
    /\ offset = Len(file) /\ i = 0 /\ lastIteration = FALSE
    /\ buffer = <<>>
    /\ header = NotFound /\ footer = NotFound

-----------------------------------------------------------------------------
(* mxf_read_header_pp_kl_with_runin                                        *)
KeyReached == keyCompareByte = Start
SearchingOn == phase = "run-in" /\ ~KeyReached
Searching == phase = "run-in" /\ runinCheckCount <= MaxRunIn /\ ~KeyReached

MissedBytes == keyCompareByte
(* The bytes a mismatch adds to the run-in: the ones that matched, and it. *)
Missed == keyCompareByte + 1

(* One byte of the loop; after a mismatch the next byte is compared to the *)
(* first of the key.                                                       *)
GetByte ==
    /\ Searching
    /\ filePos < Size
    /\ filePos' = filePos + 1
    /\ IF file[filePos + 1] = keyCompareByte + 1
       THEN keyCompareByte' = keyCompareByte + 1 /\ UNCHANGED runinCheckCount
       ELSE keyCompareByte' = 0 /\ runinCheckCount' = runinCheckCount + Missed
    /\ UNCHANGED <<file, phase, offset, i, lastIteration, buffer, header, footer>>

(* The rest of the key, and the first byte of the length, follow.          *)
HeaderKeyThere ==
    /\ runinCheckCount <= MaxRunIn
    /\ filePos - Start + KeySize < Size
    /\ SubSeq(file, filePos + 1, filePos + Prefix - Start + 1)
           = SubSeq(Key(Header), Start + 1, Prefix + 1)

HeaderEnds ==
    /\ phase = "run-in"
    /\ ~Searching \/ filePos = Size
    /\ header' = IF KeyReached /\ HeaderKeyThere THEN runinCheckCount ELSE NotFound
    /\ phase' = "footer"
    /\ UNCHANGED <<file, filePos, keyCompareByte, runinCheckCount, offset, i, lastIteration,
                   buffer, footer>>

-----------------------------------------------------------------------------
(* mxf_find_footer_partition                                               *)
TooNear == offset < KeySize + 1   (* the header partition pack must be first *)
NumRead == Smaller(Window, offset)

CarriedNot == [k \in 1 .. KeySize - 1 |-> Other]
(* The bytes behind those read: the first ones of the window before.       *)
Carried == buffer

WindowWith(behind) == SubSeq(file, offset - NumRead + 1, offset) \o behind

FoundInside(bytes, kinds) ==
    {j \in 0 .. NumRead - Prefix - 1 : \E kind \in kinds :
        SubSeq(bytes, j + 1, j + Prefix + 1) = SubSeq(Key(kind), 1, Prefix + 1)}
(* Where a key of one of the kinds starts in what was read; it may end     *)
(* behind it.                                                              *)
Found(bytes, kinds) ==
    {j \in 0 .. NumRead - 1 : \E kind \in kinds :
        SubSeq(bytes, j + 1, j + Prefix + 1) = SubSeq(Key(kind), 1, Prefix + 1)}

First(S) == CHOOSE j \in S : \A k \in S : j <= k

FooterEnds(result) ==
    /\ footer' = result
    /\ phase' = "done"
    /\ UNCHANGED <<file, filePos, keyCompareByte, runinCheckCount, offset, i, lastIteration,
                   buffer, header>>

Searched(bytes) ==
    LET footers == Found(bytes, {Footer})
    IN  IF footers # {}
        THEN FooterEnds(offset - NumRead + First(footers))
        ELSE /\ lastIteration' = (Found(bytes, {Header, Body}) # {})
             /\ buffer' = SubSeq(bytes, 1, KeySize - 1)
             /\ offset' = offset - NumRead
             /\ i' = i + 1
             /\ UNCHANGED <<file, phase, filePos, keyCompareByte, runinCheckCount, header, footer>>

Goes == phase = "footer" /\ i < MaxIterations /\ ~TooNear /\ ~lastIteration

(* Behind the first window, the last bytes of the file, there is memory    *)
(* that nothing was written to.                                            *)
FirstWindow ==
    /\ Goes /\ i = 0
    /\ \E leftover \in Leftovers : Searched(WindowWith(leftover))

NextWindow ==
    /\ Goes /\ i > 0
    /\ Searched(WindowWith(Carried))

FooterMissed ==
    /\ phase = "footer" /\ ~Goes
    /\ FooterEnds(NotFound)

NextSearch == GetByte \/ HeaderEnds \/ FirstWindow \/ NextWindow \/ FooterMissed
SearchSpec == SearchInit /\ [][NextSearch]_searchVars

-----------------------------------------------------------------------------
SearchTypeOK ==
    /\ phase \in {"run-in", "footer", "done"}
    /\ filePos \in 0 .. Size
    /\ keyCompareByte \in 0 .. Start
    /\ runinCheckCount \in 0 .. MaxRunIn + Start
    /\ offset \in 0 .. Size
    /\ i \in 0 .. MaxIterations
    /\ lastIteration \in BOOLEAN
    /\ Len(buffer) = IF i = 0 THEN 0 ELSE KeySize - 1
    /\ header \in 0 .. MaxRunIn \cup {NotFound}
    /\ footer \in 0 .. Size \cup {NotFound}

(* What is in a file, by its definition: the places where the first n      *)
(* bytes of a key stand.                                                   *)
PlacesIn(f, kind, n) == {p \in 0 .. Len(f) - n : SubSeq(f, p + 1, p + n) = SubSeq(Key(kind), 1, n)}
Places(kind, n) == PlacesIn(file, kind, n)

(* The files for which the search is made.  The first bytes of a key are   *)
(* not in the run-in, as the standard has it, and there is one header      *)
(* partition; no other partition follows the footer partition, and it does *)
(* not come first.                                                         *)
RunInsProper == \A f \in Files : \A p \in PlacesIn(f, Header, Start), q \in PlacesIn(f, Header, Prefix + 1) :
    q <= p
FootersLast == \A f \in Files : \A p \in PlacesIn(f, Footer, Prefix + 1) :
    /\ p > KeySize
    /\ \A kind \in {Header, Body} : \A q \in PlacesIn(f, kind, Prefix + 1) : q < p

RunInEnds == Places(Header, Start)
(* The last k bytes of the first p are the beginning of a key.             *)
EndsInKey(p, longest) ==
    \E k \in 1 .. longest : k <= p /\ SubSeq(file, p - k + 1, p) = SubSeq(Key(Header), 1, k)

HeaderPlace == First(RunInEnds)
HeaderThere ==
    /\ RunInEnds # {}
    /\ HeaderPlace <= MaxRunIn
    /\ HeaderPlace \in Places(Header, Prefix + 1)
    /\ HeaderPlace + KeySize < Size

(* The header partition is found at the first place where the beginning of *)
(* its key stands, with the run-in as long as the bytes before, if it is a *)
(* whole header key there.  Nothing else is found in a file whose run-in   *)
(* is a proper one (RunInsProper), but the header may be missed if the     *)
(* run-in ends with bytes that begin a key: the search does not go back to *)
(* them.                                                                   *)
HeaderFound ==
    phase # "run-in" =>
        /\ header # NotFound => HeaderThere /\ header = HeaderPlace
        /\ HeaderThere /\ ~EndsInKey(HeaderPlace, Start - 1) => header # NotFound

InReach == {p \in Places(Footer, Prefix + 1) : p >= Size - MaxIterations * Window}

(* The footer partition is found, however its key lies across the windows, *)
(* and nothing else is taken for it, when it is the last (FootersLast); if *)
(* the file was cut off inside a key this much at least holds: what is     *)
(* found begins like a footer key.                                         *)
FooterFound ==
    phase = "done" =>
        /\ ~EndsInKey(Size, Prefix) =>
               IF InReach = {} THEN footer = NotFound ELSE footer \in InReach
        /\ footer # NotFound =>
               \A k \in 1 .. Prefix + 1 : footer + k <= Size => file[footer + k] = Key(Footer)[k]
=============================================================================
