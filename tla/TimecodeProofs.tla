--------------------------- MODULE TimecodeProofs ---------------------------
(***************************************************************************)
(* Proofs about the index of time codes and the searches in it, for        *)
(* recordings of any length, any time codes and any sequence of searches.  *)
(***************************************************************************)
EXTENDS TimecodeIndex, WellFoundedInduction, TLAPS

Elements == [frozen : BOOLEAN, timecodePos : Nat, duration : Nat \ {0}]
Searchers == [elementNum : Nat, elementOffset : Nat, position : Nat, atEnd : BOOLEAN, beforeStart : BOOLEAN]

(* The position at which each element starts, and the index ends.          *)
Starts(ix, start) ==
    /\ start \in [1 .. Len(ix) + 1 -> Nat]
    /\ start[1] = 0
    /\ \A k \in 1 .. Len(ix) : start[k + 1] = start[k] + ix[k].duration

(* A searcher is where it says it is.                                      *)
At(ix, start, s) ==
    /\ s \in Searchers
    /\ s.atEnd <=> ix = <<>>
    /\ ix # <<>> => /\ s.elementNum \in 1 .. Len(ix)
                    /\ s.elementOffset < ix[s.elementNum].duration
                    /\ s.position = start[s.elementNum] + s.elementOffset

-----------------------------------------------------------------------------
LEMMA Least == \A S : S \subseteq Nat /\ S # {} => \E n \in S : \A m \in S : n <= m
<1> SUFFICES ASSUME NEW S, S \subseteq Nat, S # {}
             PROVE  \E n \in S : \A m \in S : n <= m
  OBVIOUS
<1>1. IsWellFoundedOn(OpToRel(<, Nat), Nat)
  BY NatLessThanWellFounded, Zenon
<1>2. PICK n \in S : \A m \in S : ~(<<m, n>> \in OpToRel(<, Nat))
  BY <1>1, WFMin, Zenon
<1>3. \A m \in S : ~(m < n)
  BY <1>2, Zenon DEF OpToRel
<1>4. QED
  BY <1>3

(* The elements of an index.                                               *)
LEMMA ElementOf ==
    ASSUME NEW ix \in Seq(Elements), NEW k \in 1 .. Len(ix)
    PROVE  /\ ix[k] \in Elements /\ ix[k].frozen \in BOOLEAN /\ ix[k].timecodePos \in Nat
           /\ ix[k].duration \in Nat /\ ix[k].duration >= 1
           /\ Len(ix) \in Nat /\ k \in Nat
<1>1. ix[k] \in Elements /\ Len(ix) \in Nat
  OBVIOUS
<1>2. QED
  BY <1>1 DEF Elements

(* Elements follow each other.                                             *)
LEMMA StartsGrow ==
    ASSUME NEW ix \in Seq(Elements), NEW start, Starts(ix, start),
           NEW j \in 1 .. Len(ix), NEW k \in j + 1 .. Len(ix) + 1
    PROVE  start[j] + ix[j].duration <= start[k]
<1> DEFINE Bad == {n \in Nat : n \in j + 1 .. Len(ix) + 1 /\ ~(start[j] + ix[j].duration <= start[n])}
<1>1. Len(ix) \in Nat /\ j \in Nat /\ j + 1 \in 1 .. Len(ix) + 1
  OBVIOUS
<1>2. \A n \in 1 .. Len(ix) + 1 : start[n] \in Nat
  BY DEF Starts
<1>3. start[j + 1] = start[j] + ix[j].duration /\ ix[j].duration \in Nat /\ start[j] \in Nat
  BY <1>2, ElementOf DEF Starts
<1>4. Bad = {}
  <2> SUFFICES ASSUME Bad # {} PROVE FALSE
    OBVIOUS
  <2>1. PICK n \in Bad : \A m \in Bad : n <= m
    BY Least
  <2>2. n # j + 1
    BY <1>3, <1>2, <2>1
  <2>3. n - 1 \in j + 1 .. Len(ix) + 1 /\ n - 1 \in 1 .. Len(ix) /\ n - 1 \in Nat /\ n = (n - 1) + 1
    BY <2>1, <2>2, <1>1
  <2>4. start[j] + ix[j].duration <= start[n - 1]
    BY <2>1, <2>3
  <2>5. start[n] = start[n - 1] + ix[n - 1].duration
    BY <2>3 DEF Starts
  <2>6. ix[n - 1].duration \in Nat /\ start[n - 1] \in Nat
    BY <2>3, <1>2, ElementOf
  <2>7. ~(start[j] + ix[j].duration <= start[n])
    BY <2>1
  <2> HIDE DEF Bad
  <2>8. QED
    BY <2>4, <2>5, <2>6, <2>7, <1>3
<1>5. QED
  BY <1>1, <1>4

(* Every position is in an element.                                        *)
LEMMA ElementAt ==
    ASSUME NEW ix \in Seq(Elements), NEW start, Starts(ix, start),
           NEW p \in Nat, p < start[Len(ix) + 1]
    PROVE  \E k \in 1 .. Len(ix) : start[k] <= p /\ p < start[k] + ix[k].duration
<1> DEFINE Above == {n \in 1 .. Len(ix) + 1 : p < start[n]}
<1>1. Len(ix) \in Nat /\ Len(ix) + 1 \in Above /\ Above \subseteq Nat
  OBVIOUS
<1>2. PICK n \in Above : \A m \in Above : n <= m
  BY <1>1, Least
<1>3. n # 1
  BY <1>2 DEF Starts
<1>4. n - 1 \in 1 .. Len(ix) /\ n = (n - 1) + 1 /\ ~(n <= n - 1) /\ n - 1 \in 1 .. Len(ix) + 1
  BY <1>1, <1>2, <1>3
<1>5. ~(p < start[n - 1])
  BY <1>2, <1>4
<1>6. start[n] = start[n - 1] + ix[n - 1].duration /\ start[n - 1] \in Nat
  BY <1>4 DEF Starts
<1>7. QED
  BY <1>2, <1>4, <1>5, <1>6

(* Where a searcher gets to, by the sum that the code adds up.             *)
LEMMA PositionAtIs ==
    ASSUME NEW ix \in Seq(Elements), ix # <<>>, NEW start, Starts(ix, start),
           NEW s, At(ix, start, s), NEW k \in s.elementNum .. Len(ix)
    PROVE  PositionAt(ix, s, k) = IF k = s.elementNum THEN s.position ELSE start[k]
<1> DEFINE e == s.elementNum
           D == e .. k
           at == CHOOSE f : f = [j \in D |-> IF j = e THEN s.position
                                             ELSE f[j - 1] + ix[j - 1].duration - OffsetIn(s, j - 1)]
           sum == [j \in D |-> IF j = e THEN s.position ELSE start[j]]
<1>1. /\ e \in 1 .. Len(ix) /\ s.elementOffset \in Nat /\ s.position = start[e] + s.elementOffset
      /\ Len(ix) \in Nat /\ k \in Nat /\ e <= k /\ k <= Len(ix)
  BY DEF At, Searchers
<1>2. \A j \in 1 .. Len(ix) : start[j] \in Nat /\ ix[j].duration \in Nat /\ start[j + 1] = start[j] + ix[j].duration
  <2>1. \A j \in 1 .. Len(ix) : start[j + 1] = start[j] + ix[j].duration
    BY DEF Starts
  <2>2. \A j \in 1 .. Len(ix) : j \in 1 .. Len(ix) + 1
    BY <1>1
  <2>3. \A j \in 1 .. Len(ix) : start[j] \in Nat
    BY <2>2 DEF Starts
  <2>4. QED
    BY <2>1, <2>3, ElementOf
<1>3. ASSUME NEW j \in D, j # e
      PROVE  /\ j - 1 \in D /\ j - 1 \in 1 .. Len(ix)
             /\ (IF j - 1 = e THEN s.position ELSE start[j - 1]) + ix[j - 1].duration - OffsetIn(s, j - 1) = start[j]
  <2>1. j - 1 \in D /\ j - 1 \in 1 .. Len(ix) /\ (j - 1) + 1 = j
    BY <1>1, <1>3
  <2>2. start[j] = start[j - 1] + ix[j - 1].duration /\ start[j - 1] \in Nat /\ ix[j - 1].duration \in Nat
    BY <1>2, <2>1
  <2>3. CASE j - 1 = e
    BY <2>1, <2>2, <2>3, <1>1 DEF OffsetIn
  <2>4. CASE j - 1 # e
    BY <2>1, <2>2, <2>4 DEF OffsetIn
  <2>5. QED
    BY <2>1, <2>3, <2>4
<1>4. sum = [j \in D |-> IF j = e THEN s.position
                         ELSE sum[j - 1] + ix[j - 1].duration - OffsetIn(s, j - 1)]
  BY <1>3
<1>5. at = [j \in D |-> IF j = e THEN s.position
                        ELSE at[j - 1] + ix[j - 1].duration - OffsetIn(s, j - 1)]
  <2> HIDE DEF sum, D, e
  <2>1. QED
    BY <1>4
<1>6. PositionAt(ix, s, k) = at[k]
  BY DEF PositionAt
<1> DEFINE Bad == {j \in D : at[j] # sum[j]}
<1> HIDE DEF at, sum
<1>7. Bad = {}
  <2> SUFFICES ASSUME Bad # {} PROVE FALSE
    OBVIOUS
  <2>1. Bad \subseteq Nat
    BY <1>1
  <2>2. PICK j \in Bad : \A m \in Bad : j <= m
    BY <2>1, Least
  <2>3. j \in D /\ at[j] # sum[j]
    BY <2>2
  <2>4. j # e
    BY <2>3, <1>4, <1>5
  <2>5. j - 1 \in D /\ ~(j <= j - 1)
    BY <2>3, <2>4, <1>3, <1>1
  <2>6. at[j - 1] = sum[j - 1]
    BY <2>2, <2>5
  <2>7. at[j] = at[j - 1] + ix[j - 1].duration - OffsetIn(s, j - 1)
    BY <2>3, <2>4, <1>5
  <2>8. sum[j] = sum[j - 1] + ix[j - 1].duration - OffsetIn(s, j - 1)
    BY <2>3, <2>4, <1>4
  <2>9. QED
    BY <2>3, <2>6, <2>7, <2>8
<1>8. at[k] = sum[k] /\ k \in D
  BY <1>7, <1>1
<1>9. QED
  BY <1>6, <1>8 DEF sum

-----------------------------------------------------------------------------
(* The index tells of every frame the time code it was added with; or, in  *)
(* a frozen element, of a frame whose time code is what the frozen one     *)
(* would have reached had it counted up.                                   *)
Place(e, o, t) ==
    \/ t = TimecodePosIn(e, o)
    \/ e.frozen /\ o >= 2 /\ t = e.timecodePos + o
Told(ix, fr, start) ==
    /\ Starts(ix, start)
    /\ start[Len(ix) + 1] = Len(fr)
    /\ \A k \in 1 .. Len(ix) : ix[k].frozen => ix[k].duration >= 2
    /\ \A k \in 1 .. Len(ix) : \A o \in 0 .. ix[k].duration - 1 :
           Place(ix[k], o, TimecodeToPosition(fr[start[k] + o + 1]))
(* Nothing but the time codes that frames were added with.                 *)
TellsRight(ix, fr, start) ==
    \A k \in 1 .. Len(ix) : \A o \in 0 .. ix[k].duration - 1 :
        TimecodeToPosition(fr[start[k] + o + 1]) = TimecodePosIn(ix[k], o)
Tells(ix, fr) == \E start : Told(ix, fr, start)

(* Frames of an element are frames of the recording.                       *)
LEMMA FrameIn ==
    ASSUME NEW ix \in Seq(Elements), NEW n \in Nat, NEW start, Starts(ix, start), start[Len(ix) + 1] = n,
           NEW k \in 1 .. Len(ix), NEW o \in 0 .. ix[k].duration - 1
    PROVE  start[k] \in Nat /\ start[k] + o + 1 \in 1 .. n
<1>1. k \in 1 .. Len(ix) + 1 /\ Len(ix) + 1 \in k + 1 .. Len(ix) + 1
  OBVIOUS
<1>2. start[k] \in Nat /\ ix[k].duration \in Nat
  BY <1>1, ElementOf DEF Starts
<1>3. start[k] + ix[k].duration <= n
  BY <1>1, StartsGrow
<1> DEFINE a == start[k]
           d == ix[k].duration
<1>4. a \in Nat /\ d \in Nat /\ a + d <= n /\ o \in 0 .. d - 1
  BY <1>2, <1>3, Zenon
<1> HIDE DEF a, d
<1>5. a + o + 1 \in 1 .. n
  BY <1>4
<1>6. QED
  BY <1>4, <1>5 DEF a

(* The last element gets one frame more.                                   *)
LEMMA LastGrows ==
    ASSUME NEW ix \in Seq(Elements), NEW T, NEW fr \in Seq(T), NEW tc \in T, NEW start, Told(ix, fr, start),
           NEW n, n = Len(ix), n # 0, NEW e \in Elements, e.duration = ix[n].duration + 1,
           \A o \in 0 .. ix[n].duration - 1, t \in Int : Place(ix[n], o, t) => Place(e, o, t),
           TimecodeToPosition(tc) \in Nat, Place(e, ix[n].duration, TimecodeToPosition(tc)),
           \A x \in T : TimecodeToPosition(x) \in Nat
    PROVE  [ix EXCEPT ![n] = e] \in Seq(Elements) /\ Tells([ix EXCEPT ![n] = e], Append(fr, tc))
<1> DEFINE ix2 == [ix EXCEPT ![n] = e]
           fr2 == Append(fr, tc)
           m == Len(fr)
           start2 == [start EXCEPT ![n + 1] = m + 1]
<1>1. n \in Nat /\ m \in Nat /\ n \in 1 .. Len(ix) /\ n + 1 \in 1 .. n + 1
  OBVIOUS
<1>2. /\ ix2 \in Seq(Elements) /\ Len(ix2) = n /\ ix2[n] = e
      /\ \A k \in 1 .. n : k # n => ix2[k] = ix[k]
  BY <1>1
<1>3. /\ fr2 \in Seq(T) /\ Len(fr2) = m + 1 /\ fr2[m + 1] = tc
      /\ \A q \in 1 .. m : fr2[q] = fr[q]
  OBVIOUS
<1>4. Starts(ix, start) /\ start[n + 1] = m /\ start \in [1 .. n + 1 -> Nat]
  BY DEF Told, Starts
<1>5. start[n + 1] = start[n] + ix[n].duration /\ ix[n].duration \in Nat /\ ix[n].duration >= 1 /\ start[n] \in Nat
  <2>1. n \in 1 .. n + 1
    BY <1>1
  <2>2. start[n + 1] = start[n] + ix[n].duration
    BY <1>1, <1>4 DEF Starts
  <2>3. QED
    BY <1>1, <1>4, <2>1, <2>2, ElementOf
<1>6. /\ start2 \in [1 .. n + 1 -> Nat] /\ start2[n + 1] = m + 1
      /\ \A k \in 1 .. n + 1 : k # n + 1 => start2[k] = start[k]
  BY <1>1, <1>4
<1> HIDE DEF start2, ix2, fr2, m
<1>7. Starts(ix2, start2)
  <2>1. start2[1] = 0
    <3>1. 1 \in 1 .. n + 1 /\ 1 # n + 1
      BY <1>1
    <3>2. QED
      BY <3>1, <1>4, <1>6 DEF Starts
  <2>2. ASSUME NEW k \in 1 .. n PROVE start2[k + 1] = start2[k] + ix2[k].duration
    <3>1. k \in 1 .. n + 1 /\ k # n + 1 /\ start2[k] = start[k]
      BY <1>1, <1>6
    <3>2. CASE k = n
      <4>1. start2[k + 1] = m + 1 /\ ix2[k].duration = ix[n].duration + 1 /\ start2[k] = start[n]
        BY <3>1, <3>2, <1>2, <1>6
      <4>2. QED
        BY <4>1, <1>4, <1>5
    <3>3. CASE k # n
      <4>1. k + 1 \in 1 .. n + 1 /\ k + 1 # n + 1
        BY <3>3, <1>1
      <4>2. start2[k + 1] = start[k + 1] /\ ix2[k] = ix[k]
        BY <4>1, <3>3, <1>2, <1>6
      <4>3. start[k + 1] = start[k] + ix[k].duration
        BY <1>4 DEF Starts
      <4>4. QED
        BY <3>1, <4>2, <4>3
    <3>4. QED
      BY <3>2, <3>3
  <2>3. QED
    BY <1>2, <1>6, <2>1, <2>2 DEF Starts
<1>8. ASSUME NEW k \in 1 .. n, NEW o \in 0 .. ix2[k].duration - 1
      PROVE  Place(ix2[k], o, TimecodeToPosition(fr2[start2[k] + o + 1]))
  <2>1. start2[k] = start[k]
    <3>1. k \in 1 .. n + 1 /\ k # n + 1
      BY <1>1
    <3>2. QED
      BY <3>1, <1>6
  <2>2. CASE o \in 0 .. ix[k].duration - 1
    <3>1. start[k] + o + 1 \in 1 .. m
      BY <2>2, <1>1, <1>4, FrameIn
    <3> DEFINE t == TimecodeToPosition(fr[start[k] + o + 1])
    <3>2. Place(ix[k], o, t)
      BY <1>8, <2>2 DEF Told
    <3>3. t \in Int
      <4>1. fr[start[k] + o + 1] \in T
        BY <3>1, <1>1 DEF m
      <4>2. QED
        BY <4>1
    <3> HIDE DEF t
    <3>4. Place(ix2[k], o, t)
      BY <1>2, <1>8, <2>2, <3>2, <3>3
    <3>5. QED
      BY <2>1, <3>1, <3>4, <1>3 DEF t
  <2>3. CASE ~(o \in 0 .. ix[k].duration - 1)
    <3>1. k = n
      BY <2>3, <1>2
    <3>2. o = ix[n].duration
      BY <2>3, <3>1, <1>2, <1>5
    <3>3. start[k] + o + 1 = m + 1
      BY <3>1, <3>2, <1>4, <1>5
    <3>4. QED
      BY <2>1, <3>1, <3>2, <3>3, <1>2, <1>3, <1>8
  <2>4. QED
    BY <2>2, <2>3
<1>f. ASSUME NEW k \in 1 .. n, ix2[k].frozen PROVE ix2[k].duration >= 2
  BY <1>2, <1>5, <1>f DEF Told
<1>9. Told(ix2, fr2, start2)
  BY <1>2, <1>3, <1>6, <1>7, <1>8, <1>f DEF Told
<1>10. QED
  BY <1>2, <1>9 DEF Tells, ix2, fr2

(* There is one element more.                                              *)
LEMMA ElementAppended ==
    ASSUME NEW ix \in Seq(Elements), NEW T, NEW fr \in Seq(T), NEW tc \in T, NEW start, Told(ix, fr, start),
           NEW p \in Nat, p = TimecodeToPosition(tc)
    PROVE  Append(ix, NewElement(p)) \in Seq(Elements) /\ Tells(Append(ix, NewElement(p)), Append(fr, tc))
<1> DEFINE e == NewElement(p)
           n == Len(ix)
           ix2 == Append(ix, e)
           fr2 == Append(fr, tc)
           m == Len(fr)
           start2 == [k \in 1 .. n + 2 |-> IF k = n + 2 THEN m + 1 ELSE start[k]]
<1>1. e \in Elements /\ e.duration = 1 /\ e.frozen = FALSE /\ e.timecodePos = p
  BY DEF NewElement, Elements
<1> HIDE DEF e
<1>2. n \in Nat /\ m \in Nat
  OBVIOUS
<1>3. /\ ix2 \in Seq(Elements) /\ Len(ix2) = n + 1 /\ ix2[n + 1] = e
      /\ \A k \in 1 .. n : ix2[k] = ix[k]
  BY <1>1
<1>4. /\ fr2 \in Seq(T) /\ Len(fr2) = m + 1 /\ fr2[m + 1] = tc
      /\ \A q \in 1 .. m : fr2[q] = fr[q]
  OBVIOUS
<1>5. Starts(ix, start) /\ start[n + 1] = m /\ start \in [1 .. n + 1 -> Nat]
  BY DEF Told, Starts
<1>6. /\ start2 \in [1 .. (n + 1) + 1 -> Nat] /\ start2[(n + 1) + 1] = m + 1
      /\ \A k \in 1 .. n + 1 : start2[k] = start[k]
  BY <1>2, <1>5
<1> HIDE DEF start2, ix2, fr2, m, n
<1>7. Starts(ix2, start2)
  <2>1. start2[1] = 0
    <3>1. 1 \in 1 .. n + 1
      BY <1>2
    <3>2. QED
      BY <3>1, <1>5, <1>6 DEF Starts
  <2>2. ASSUME NEW k \in 1 .. n + 1 PROVE start2[k + 1] = start2[k] + ix2[k].duration
    <3>1. CASE k = n + 1
      BY <3>1, <1>1, <1>3, <1>5, <1>6
    <3>2. CASE k # n + 1
      <4>1. k \in 1 .. n /\ k + 1 \in 1 .. n + 1
        BY <3>2, <1>2
      <4>2. start[k + 1] = start[k] + ix[k].duration
        BY <1>5, <4>1 DEF Starts, n
      <4>3. QED
        BY <4>1, <4>2, <1>3, <1>6
    <3>3. QED
      BY <3>1, <3>2
  <2>3. QED
    BY <1>3, <1>6, <2>1, <2>2 DEF Starts
<1>8. ASSUME NEW k \in 1 .. n + 1, NEW o \in 0 .. ix2[k].duration - 1
      PROVE  Place(ix2[k], o, TimecodeToPosition(fr2[start2[k] + o + 1]))
  <2>1. start2[k] = start[k]
    BY <1>6
  <2>2. CASE k = n + 1
    <3>1. o = 0
      BY <2>2, <1>1, <1>3
    <3>2. start2[k] + o + 1 = m + 1
      BY <2>1, <2>2, <3>1, <1>2, <1>5
    <3>3. Place(e, 0, p)
      BY <1>1 DEF TimecodePosIn, Place
    <3>4. QED
      BY <2>2, <3>1, <3>2, <3>3, <1>3, <1>4
  <2>3. CASE k # n + 1
    <3>1. k \in 1 .. n /\ ix2[k] = ix[k]
      BY <2>3, <1>2, <1>3
    <3>2. k \in 1 .. Len(ix) /\ o \in 0 .. ix[k].duration - 1 /\ start[Len(ix) + 1] = m
      BY <3>1, <1>5 DEF n
    <3>3. start[k] + o + 1 \in 1 .. m
      BY <3>2, <1>2, <1>5, FrameIn
    <3>4. Place(ix[k], o, TimecodeToPosition(fr[start[k] + o + 1]))
      BY <1>8, <3>2 DEF Told
    <3>5. QED
      BY <2>1, <3>1, <3>3, <3>4, <1>4
  <2>4. QED
    BY <2>2, <2>3
<1>f. ASSUME NEW k \in 1 .. n + 1, ix2[k].frozen PROVE ix2[k].duration >= 2
  <2>1. k \in 1 .. n
    BY <1>1, <1>2, <1>3, <1>f
  <2>2. QED
    BY <1>3, <1>f, <2>1 DEF Told, n
<1>9. Told(ix2, fr2, start2)
  BY <1>3, <1>4, <1>6, <1>7, <1>8, <1>f DEF Told
<1>10. QED
  BY <1>3, <1>9 DEF Tells, ix2, fr2, e

LEMMA IndexGrows ==
    ASSUME NEW ix \in Seq(Elements), NEW T, NEW fr \in Seq(T), NEW tc \in T,
           TimecodeToPosition(tc) \in Nat, \A x \in T : TimecodeToPosition(x) \in Nat, Tells(ix, fr)
    PROVE  /\ Added(ix, TimecodeToPosition(tc)) \in Seq(Elements)
           /\ Tells(Added(ix, TimecodeToPosition(tc)), Append(fr, tc))
<1> DEFINE p == TimecodeToPosition(tc)
           n == Len(ix)
           last == ix[n]
<1>1. PICK start : Told(ix, fr, start)
  BY DEF Tells
<1>2. CASE n = 0
  <2>1. Added(ix, p) = Append(ix, NewElement(p))
    <3>1. ix = <<>>
      BY <1>2
    <3>2. QED
      BY <3>1, <1>2 DEF Added
  <2>2. QED
    BY <2>1, <1>1, ElementAppended
<1>3. CASE n # 0
  <2>1. n \in 1 .. Len(ix) /\ n \in Nat
    BY <1>3
  <2>2. /\ last \in Elements /\ last.frozen \in BOOLEAN /\ last.timecodePos \in Nat
        /\ last.duration \in Nat /\ last.duration >= 1
    BY <2>1, ElementOf
  <2>3. CASE Continues(last, p)
    <3> DEFINE e == [frozen |-> last.frozen, timecodePos |-> last.timecodePos, duration |-> last.duration + 1]
    <3>1. e \in Elements /\ e = [last EXCEPT !.duration = @ + 1] /\ e.duration = last.duration + 1
      <4> HIDE DEF last
      <4>1. last = [frozen |-> last.frozen, timecodePos |-> last.timecodePos, duration |-> last.duration]
        BY <2>2 DEF Elements
      <4>2. e \in Elements /\ e.duration = last.duration + 1
        BY <2>2 DEF Elements
      <4>3. e = [last EXCEPT !.duration = @ + 1]
        BY <4>1
      <4>4. QED
        BY <4>2, <4>3
    <3>2. Added(ix, p) = [ix EXCEPT ![n] = e]
      BY <2>3, <1>3, <3>1 DEF Added
    <3>3. /\ \A o \in 0 .. last.duration - 1, t \in Int : Place(last, o, t) => Place(e, o, t)
          /\ Place(e, last.duration, p)
      <4>1. last.frozen => last.duration >= 2
        BY <1>1, <2>1 DEF Told
      <4>2. p = last.timecodePos + last.duration
        BY <2>3 DEF Continues
      <4>3. e.frozen = last.frozen /\ e.timecodePos = last.timecodePos
        OBVIOUS
      <4> HIDE DEF e, last
      <4>4. QED
        BY <4>1, <4>2, <4>3 DEF TimecodePosIn, Place
    <3>4. e \in Elements /\ e.duration = ix[n].duration + 1 /\ n = Len(ix) /\ n # 0
      BY <3>1, <1>3
    <3> HIDE DEF e
    <3>5. [ix EXCEPT ![n] = e] \in Seq(Elements) /\ Tells([ix EXCEPT ![n] = e], Append(fr, tc))
      BY <3>3, <3>4, <1>1, LastGrows
    <3>6. QED
      BY <3>2, <3>5
  <2>4. CASE ~Continues(last, p) /\ Freezes(last, p)
    <3> DEFINE e == [last EXCEPT !.duration = @ + 1, !.frozen = TRUE]
    <3>1. e \in Elements /\ e.duration = last.duration + 1 /\ e.frozen = TRUE /\ e.timecodePos = last.timecodePos
      <4> HIDE DEF last
      <4>1. e.duration = last.duration + 1 /\ e.frozen = TRUE /\ e.timecodePos = last.timecodePos
        BY <2>2 DEF Elements
      <4>2. last.duration + 1 \in Nat \ {0}
        BY <2>2
      <4>3. e \in Elements
        BY <2>2, <4>2 DEF Elements
      <4>4. QED
        BY <4>1, <4>3
    <3>2. Added(ix, p) = [ix EXCEPT ![n] = e]
      BY <2>4, <1>3, <3>1 DEF Added
    <3>3. /\ \A o \in 0 .. last.duration - 1, t \in Int : Place(last, o, t) => Place(e, o, t)
          /\ Place(e, last.duration, p)
      <4>1. p = last.timecodePos /\ (last.frozen \/ last.duration = 1)
        BY <2>4 DEF Freezes
      <4>2. \A o : TimecodePosIn(e, o) = last.timecodePos
        BY <3>1 DEF TimecodePosIn
      <4>3. \A o \in 0 .. last.duration - 1 : TimecodePosIn(last, o) = last.timecodePos
        <5> HIDE DEF last
        <5>1. QED
          BY <4>1, <2>2 DEF TimecodePosIn
      <4>4. e.frozen = TRUE /\ e.timecodePos = last.timecodePos
        BY <3>1
      <4> HIDE DEF e, last
      <4>5. \A o \in 0 .. last.duration - 1, t \in Int : Place(last, o, t) => Place(e, o, t)
        BY <4>2, <4>3, <4>4 DEF Place
      <4>6. QED
        BY <4>1, <4>2, <4>5 DEF Place
    <3>4. e \in Elements /\ e.duration = ix[n].duration + 1 /\ n = Len(ix) /\ n # 0
      BY <3>1, <1>3
    <3> HIDE DEF e
    <3>5. [ix EXCEPT ![n] = e] \in Seq(Elements) /\ Tells([ix EXCEPT ![n] = e], Append(fr, tc))
      BY <3>3, <3>4, <1>1, LastGrows
    <3>6. QED
      BY <3>2, <3>5
  <2>5. CASE ~Continues(last, p) /\ ~Freezes(last, p)
    <3>1. Added(ix, p) = Append(ix, NewElement(p))
      BY <2>5, <1>3 DEF Added
    <3>2. QED
      BY <3>1, <1>1, ElementAppended
  <2>6. QED
    BY <2>3, <2>4, <2>5
<1>4. QED
  BY <1>2, <1>3
-----------------------------------------------------------------------------
LEMMA AtLeast ==
    ASSUME NEW a \in Nat, NEW b \in Nat, b >= 1
    PROVE  a * b \in Nat /\ a * b >= a
<1>1. a * (b - 1) \in Nat /\ a * b = a * (b - 1) + a
  BY SMT
<1>2. QED
  BY <1>1

(* A time code of a recording has a position, drop frames or not.          *)
LEMMA PositionIsNat ==
    ASSUME NEW tc \in Timecodes
    PROVE  TimecodeToPosition(tc) \in Nat
<1> DEFINE h == tc.hour
           m == tc.min
           s == tc.sec
           f == tc.frame
           x == (h * 60 + m) * 60 + s
<1>1. h \in Nat /\ m \in Nat /\ s \in Nat /\ f \in Nat
  BY DEF Timecodes
<1>2. x \in Nat /\ x = 3600 * h + 60 * m + s
  <2> HIDE DEF h, m, s
  <2>1. QED
    BY <1>1
<1>3. x * Base \in Nat /\ x * Base >= x
  <2> HIDE DEF x
  <2>1. QED
    BY <1>2, AtLeast, TimecodeAssumption
<1>4. Dropped(tc) \in Nat /\ Dropped(tc) <= 108 * h + 18 * (m \div 10) + 2 * (m % 10)
  <2> HIDE DEF h, m, s
  <2>1. m \div 10 \in Nat /\ m % 10 \in Nat
    BY <1>1
  <2>2. QED
    BY <1>1, <2>1 DEF Dropped, h, m
<1>5. 18 * (m \div 10) + 2 * (m % 10) <= 60 * m
  <2> HIDE DEF m
  <2>1. QED
    BY <1>1
<1>6. TimecodeToPosition(tc) = x * Base + f - Dropped(tc)
  BY DEF TimecodeToPosition
<1> HIDE DEF h, m, s, f, x
<1>7. 108 * h + 18 * (m \div 10) + 2 * (m % 10) <= x
  BY <1>1, <1>2, <1>5
<1>8. QED
  BY <1>1, <1>2, <1>3, <1>4, <1>6, <1>7

(* Where a searcher is at the start of an element, and in the first.       *)
LEMMA StartsAt ==
    ASSUME NEW ix \in Seq(Elements), ix # <<>>, NEW start, Starts(ix, start),
           NEW s, At(ix, start, s), NEW k \in s.elementNum .. Len(ix)
    PROVE  /\ k \in 1 .. Len(ix) /\ start[k] \in Nat
           /\ PositionAt(ix, s, k) = start[k] + OffsetIn(s, k)
           /\ OffsetIn(s, k) \in Nat /\ OffsetIn(s, k) < ix[k].duration
           /\ k # s.elementNum => OffsetIn(s, k) = 0 /\ s.position < start[k]
<1>1. /\ s.elementNum \in 1 .. Len(ix) /\ s.elementOffset \in Nat /\ s.position = start[s.elementNum] + s.elementOffset
      /\ s.elementOffset < ix[s.elementNum].duration
  BY DEF At, Searchers
<1>2. k \in 1 .. Len(ix) /\ k \in 1 .. Len(ix) + 1 /\ Len(ix) \in Nat
  BY <1>1
<1>3. start[k] \in Nat /\ ix[k].duration \in Nat /\ ix[k].duration >= 1
  BY <1>2, ElementOf DEF Starts
<1>4. PositionAt(ix, s, k) = IF k = s.elementNum THEN s.position ELSE start[k]
  BY PositionAtIs
<1>5. CASE k = s.elementNum
  BY <1>1, <1>2, <1>3, <1>4, <1>5 DEF OffsetIn
<1>6. CASE k # s.elementNum
  <2>1. k \in s.elementNum + 1 .. Len(ix) + 1
    BY <1>1, <1>2, <1>6
  <2>2. start[s.elementNum] + ix[s.elementNum].duration <= start[k]
    BY <1>1, <2>1, StartsGrow
  <2>3. start[s.elementNum] \in Nat /\ ix[s.elementNum].duration \in Nat
    <3>1. s.elementNum \in 1 .. Len(ix) + 1
      BY <1>1, <1>2
    <3>2. QED
      BY <1>1, <3>1, ElementOf DEF Starts
  <2>4. s.position < start[k]
    BY <1>1, <1>3, <2>2, <2>3
  <2>5. OffsetIn(s, k) = 0
    BY <1>6 DEF OffsetIn
  <2>6. QED
    BY <1>2, <1>3, <1>4, <1>6, <2>4, <2>5
<1>7. QED
  BY <1>5, <1>6

(* A searcher that moves to a place in the index is there.                 *)
LEMMA Placed ==
    ASSUME NEW ix \in Seq(Elements), ix # <<>>, NEW start, Starts(ix, start), NEW s, At(ix, start, s),
           NEW k \in 1 .. Len(ix), NEW o \in Nat, o < ix[k].duration,
           NEW u \in Searchers, ~u.atEnd, u.elementNum = k, u.elementOffset = o, u.position = start[k] + o
    PROVE  At(ix, start, u)
BY DEF At
-----------------------------------------------------------------------------
LEMMA FirstIs ==
    ASSUME NEW S, S \subseteq Nat, S # {}
    PROVE  \E n \in S : First(S) = {n} /\ \A m \in S : n <= m
<1>1. PICK n \in S : \A m \in S : n <= m
  BY Least
<1>2. \A k \in S : (\A j \in S : k <= j) => k = n
  BY <1>1
<1>3. First(S) = {n}
  BY <1>1, <1>2 DEF First
<1>4. QED
  BY <1>1, <1>3

LEMMA OnlyOne == ASSUME NEW x, NEW d PROVE Only({x}, d) = x /\ Only({}, d) = d
BY DEF Only

LEMMA NewIsPlaced ==
    ASSUME NEW ix \in Seq(Elements), NEW start, Starts(ix, start)
    PROVE  At(ix, start, NewSearcher(ix)) /\ NewSearcher(ix).position = 0
<1> DEFINE s == NewSearcher(ix)
<1>1. s \in Searchers /\ (s.atEnd <=> ix = <<>>) /\ s.elementNum = 1 /\ s.elementOffset = 0 /\ s.position = 0
  BY DEF NewSearcher, Searchers
<1>2. ASSUME ix # <<>> PROVE 1 \in 1 .. Len(ix) /\ 0 < ix[1].duration /\ start[1] = 0
  <2>1. 1 \in 1 .. Len(ix)
    BY <1>2
  <2>2. QED
    BY <2>1, ElementOf DEF Starts
<1> HIDE DEF s
<1>3. At(ix, start, s)
  BY <1>1, <1>2 DEF At
<1>4. QED
  BY <1>1, <1>3 DEF s

(* move_timecode_index_searcher gets to every position that is not behind, *)
(* and leaves the searcher in its place if it does not.                    *)
LEMMA MoveIs ==
    ASSUME NEW ix \in Seq(Elements), NEW start, Starts(ix, start), NEW s, At(ix, start, s), NEW p \in Nat
    PROVE  /\ At(ix, start, Move(ix, s, p).searcher)
           /\ Move(ix, s, p).ok \in BOOLEAN
           /\ Move(ix, s, p).ok => Move(ix, s, p).searcher.position = p
           /\ s.position <= p /\ p < start[Len(ix) + 1] => Move(ix, s, p).ok
<1> DEFINE In(k) == p < PositionAt(ix, s, k) + ix[k].duration - OffsetIn(s, k)
           Ks == {k \in s.elementNum .. Len(ix) : In(k)}
           To(k) == [s EXCEPT !.elementNum = k,
                              !.elementOffset = OffsetIn(s, k) + p - PositionAt(ix, s, k),
                              !.position = p,
                              !.beforeStart = FALSE]
<1>1. s \in Searchers /\ s.position \in Nat /\ s.atEnd \in BOOLEAN /\ (s.atEnd <=> ix = <<>>)
  BY DEF At, Searchers
<1>2. CASE p = s.position
  BY <1>2, <1>1 DEF Move, Found
<1>3. CASE p # s.position /\ (s.atEnd \/ p < s.position)
  <2>1. Move(ix, s, p) = Failed(s)
    BY <1>3 DEF Move
  <2>2. ASSUME s.atEnd PROVE ~(p < start[Len(ix) + 1])
    BY <2>2, <1>1 DEF Starts
  <2>3. QED
    BY <1>1, <1>3, <2>1, <2>2 DEF Failed
<1>4. CASE p # s.position /\ ~s.atEnd /\ ~(p < s.position)
  <2>1. ix # <<>> /\ s.position < p
    BY <1>1, <1>4
  <2>2. Move(ix, s, p) = Only({Found(To(k)) : k \in First(Ks)}, Failed(s))
    BY <1>4 DEF Move
  <2>3. \A k \in s.elementNum .. Len(ix) : In(k) <=> p < start[k] + ix[k].duration
    <3> SUFFICES ASSUME NEW k \in s.elementNum .. Len(ix) PROVE In(k) <=> p < start[k] + ix[k].duration
      OBVIOUS
    <3>1. PositionAt(ix, s, k) = start[k] + OffsetIn(s, k) /\ start[k] \in Nat /\ OffsetIn(s, k) \in Nat /\ k \in 1 .. Len(ix)
      BY <2>1, StartsAt
    <3>2. ix[k].duration \in Nat
      BY <3>1, ElementOf
    <3>3. QED
      BY <3>1, <3>2
  <2>4. s.elementNum \in 1 .. Len(ix) /\ Len(ix) \in Nat /\ Ks \subseteq Nat
    BY <2>1 DEF At
  <2>5. CASE Ks = {}
    <3>1. First(Ks) = {}
      BY <2>5 DEF First
    <3>2. {Found(To(k)) : k \in First(Ks)} = {}
      BY <3>1
    <3>3. Move(ix, s, p) = Failed(s)
      BY <2>2, <3>2, OnlyOne
    <3>4. Len(ix) \in s.elementNum .. Len(ix) /\ Len(ix) \in 1 .. Len(ix)
      BY <2>4
    <3>5. ~(p < start[Len(ix)] + ix[Len(ix)].duration)
      BY <2>3, <2>5, <3>4
    <3>6. ~(p < start[Len(ix) + 1])
      BY <3>4, <3>5 DEF Starts
    <3>7. QED
      BY <3>3, <3>6 DEF Failed
  <2>6. CASE Ks # {}
    <3>1. PICK k \in Ks : First(Ks) = {k} /\ \A m \in Ks : k <= m
      <4> HIDE DEF Ks
      <4>1. QED
        BY <2>4, <2>6, FirstIs
    <3>2. {Found(To(j)) : j \in First(Ks)} = {Found(To(k))}
      <4> HIDE DEF To, Ks
      <4>1. QED
        BY <3>1
    <3>3. Move(ix, s, p) = Found(To(k))
      <4> HIDE DEF To, Ks
      <4>1. QED
        BY <2>2, <3>2, OnlyOne
    <3>4. /\ k \in s.elementNum .. Len(ix) /\ k \in 1 .. Len(ix) /\ p < start[k] + ix[k].duration
          /\ start[k] \in Nat /\ ix[k].duration \in Nat
          /\ PositionAt(ix, s, k) = start[k] + OffsetIn(s, k) /\ OffsetIn(s, k) \in Nat
      <4>1. k \in s.elementNum .. Len(ix) /\ In(k)
        BY <3>1
      <4>2. k \in 1 .. Len(ix)
        BY <4>1, <2>4
      <4>3. p < start[k] + ix[k].duration
        BY <4>1, <2>3
      <4>4. QED
        BY <4>1, <4>2, <4>3, <2>1, StartsAt, ElementOf
    <3>5. start[k] <= p
      <4>1. CASE k = s.elementNum
        <5>1. s.position = start[k] + s.elementOffset /\ s.elementOffset \in Nat
          BY <2>1, <4>1 DEF At, Searchers
        <5>2. QED
          BY <5>1, <2>1, <3>4
      <4>2. CASE k # s.elementNum
        <5>1. k - 1 \in s.elementNum .. Len(ix) /\ ~(k <= k - 1) /\ k - 1 \in 1 .. Len(ix) /\ (k - 1) + 1 = k
          BY <2>4, <3>4, <4>2
        <5>2. ~In(k - 1)
          BY <3>1, <5>1
        <5>3. ~(p < start[k - 1] + ix[k - 1].duration)
          BY <2>3, <5>1, <5>2
        <5>4. start[k] = start[k - 1] + ix[k - 1].duration
          BY <5>1 DEF Starts
        <5>5. QED
          BY <5>3, <5>4, <3>4
      <4>3. QED
        BY <4>1, <4>2
    <3>6. /\ To(k).elementNum = k /\ To(k).elementOffset = p - start[k] /\ To(k).position = p /\ To(k).atEnd = s.atEnd
      <4>1. OffsetIn(s, k) + p - PositionAt(ix, s, k) = p - start[k]
        BY <3>4
      <4>2. QED
        BY <4>1, <1>1 DEF Searchers
    <3>7. p - start[k] \in Nat /\ p - start[k] < ix[k].duration /\ p = start[k] + (p - start[k])
      BY <3>4, <3>5
    <3>8. To(k) \in Searchers
      <4>1. OffsetIn(s, k) + p - PositionAt(ix, s, k) \in Nat /\ k \in Nat
        BY <3>4, <3>5
      <4>2. QED
        BY <4>1, <1>1 DEF Searchers
    <3> HIDE DEF To
    <3>9. At(ix, start, To(k))
      BY <2>1, <3>4, <3>6, <3>7, <3>8, <1>4, Placed
    <3>10. QED
      BY <3>3, <3>6, <3>9 DEF Found
  <2>7. QED
    BY <2>5, <2>6
<1>5. QED
  BY <1>2, <1>3, <1>4
-----------------------------------------------------------------------------
(* Where find_position finds a time code: in an element that counts up to  *)
(* it, or in one that is frozen at it.                                     *)
Here(ix, s, k) == ix[k].timecodePos + OffsetIn(s, k)
Counted(ix, s, t, k) == IsNext(s, k, t, Here(ix, s, k)) /\ t < ix[k].timecodePos + ix[k].duration
Frozen(ix, t, k) == ix[k].frozen /\ t = ix[k].timecodePos
Hits(ix, s, t) == {k \in s.elementNum .. Len(ix) : Counted(ix, s, t, k) \/ Frozen(ix, t, k)}
OffsetOf(ix, s, t, k) == IF Counted(ix, s, t, k) THEN t - ix[k].timecodePos ELSE OffsetIn(s, k)

(* The search stops at the first of them.                                  *)
Lands(ix, start, s, t, r) ==
    /\ r.ok = TRUE /\ r.searcher.beforeStart = FALSE
    /\ \E k \in Hits(ix, s, t) : /\ \A j \in Hits(ix, s, t) : k <= j
                                 /\ OffsetOf(ix, s, t, k) \in Nat
                                 /\ OffsetOf(ix, s, t, k) < ix[k].duration
                                 /\ r.searcher.position = start[k] + OffsetOf(ix, s, t, k)

LEMMA FindPositionIs ==
    ASSUME NEW ix \in Seq(Elements), ix # <<>>, NEW start, Starts(ix, start), NEW s, At(ix, start, s),
           NEW tc, TimecodeToPosition(tc) \in Nat, NEW t, t = TimecodeToPosition(tc), NEW r, r = FindPosition(ix, s, tc)
    PROVE  \/ Hits(ix, s, t) = {} /\ r = Failed(s)
           \/ At(ix, start, r.searcher) /\ Lands(ix, start, s, t, r)
<1> DEFINE here(k) == ix[k].timecodePos + OffsetIn(s, k)
           C(k) == IsNext(s, k, t, here(k)) /\ t < ix[k].timecodePos + ix[k].duration
           F(k) == ix[k].frozen /\ t = ix[k].timecodePos
           On(k) == IF C(k) THEN t - here(k) ELSE 0
           To(k) == [s EXCEPT !.elementNum = k,
                              !.elementOffset = OffsetIn(s, k) + On(k),
                              !.position = PositionAt(ix, s, k) + On(k),
                              !.beforeStart = FALSE]
           Ks == {k \in s.elementNum .. Len(ix) : C(k) \/ F(k)}
<1>1. /\ s \in Searchers /\ s.position \in Nat /\ ~s.atEnd
      /\ s.elementNum \in 1 .. Len(ix) /\ Len(ix) \in Nat
  BY DEF At, Searchers
<1>2. r = Only({Found(To(k)) : k \in First(Ks)}, Failed(s))
  BY <1>1, Zenon DEF FindPosition
<1>3. Ks = Hits(ix, s, t) /\ Ks \subseteq Nat
  BY <1>1 DEF Hits, Counted, Here, Frozen
<1>4. CASE Ks = {}
  <2>1. First(Ks) = {}
    BY <1>4 DEF First
  <2>2. {Found(To(k)) : k \in First(Ks)} = {}
    BY <2>1
  <2>3. QED
    BY <1>2, <1>3, <1>4, <2>2, OnlyOne
<1>5. CASE Ks # {}
  <2>1. PICK k \in Ks : First(Ks) = {k} /\ \A m \in Ks : k <= m
    <3> HIDE DEF Ks
    <3>1. QED
      BY <1>3, <1>5, FirstIs
  <2>2. r = Found(To(k))
    <3> HIDE DEF To, Ks
    <3>1. {Found(To(j)) : j \in First(Ks)} = {Found(To(k))}
      BY <2>1
    <3>2. QED
      BY <1>2, <3>1, OnlyOne
  <2>3. k \in s.elementNum .. Len(ix) /\ (C(k) \/ F(k))
    OBVIOUS
  <2>4. /\ k \in 1 .. Len(ix) /\ start[k] \in Nat /\ PositionAt(ix, s, k) = start[k] + OffsetIn(s, k)
        /\ OffsetIn(s, k) \in Nat /\ OffsetIn(s, k) < ix[k].duration
        /\ ix[k].timecodePos \in Nat /\ ix[k].duration \in Nat
    <3> HIDE DEF C, F
    <3>1. k \in s.elementNum .. Len(ix) /\ k \in 1 .. Len(ix)
      BY <1>1, <2>3
    <3>2. QED
      BY <3>1, StartsAt, ElementOf
  <2>5. OffsetOf(ix, s, t, k) = OffsetIn(s, k) + On(k)
    <3>1. Counted(ix, s, t, k) <=> C(k)
      BY DEF Counted, Here
    <3>2. On(k) = IF C(k) THEN t - here(k) ELSE 0
      BY Zenon
    <3>3. here(k) = ix[k].timecodePos + OffsetIn(s, k)
      BY Zenon
    <3> HIDE DEF C, here, On
    <3>4. CASE C(k)
      BY <3>1, <3>2, <3>3, <3>4, <2>4 DEF OffsetOf
    <3>5. CASE ~C(k)
      BY <3>1, <3>2, <3>5, <2>4 DEF OffsetOf
    <3>6. QED
      BY <3>4, <3>5
  <2>6. On(k) \in Nat /\ OffsetIn(s, k) + On(k) < ix[k].duration
    <3>1. CASE C(k)
      <4>1. t >= here(k) /\ t < ix[k].timecodePos + ix[k].duration
        BY <3>1, Zenon DEF IsNext
      <4>2. On(k) = t - here(k) /\ here(k) = ix[k].timecodePos + OffsetIn(s, k)
        BY <3>1, Zenon
      <4> DEFINE x == ix[k].timecodePos
                 y == ix[k].duration
                 z == OffsetIn(s, k)
      <4> HIDE DEF On, C, here
      <4>3. /\ x \in Nat /\ y \in Nat /\ z \in Nat
            /\ t >= here(k) /\ t < x + y /\ On(k) = t - here(k) /\ here(k) = x + z
        BY <4>1, <4>2, <2>4
      <4> HIDE DEF x, y, z
      <4>4. On(k) \in Nat /\ z + On(k) < y
        BY <4>3
      <4>5. QED
        BY <4>4 DEF y, z
    <3>2. CASE ~C(k)
      <4>1. On(k) = 0
        BY <3>2, Zenon
      <4> HIDE DEF On, C
      <4>2. QED
        BY <4>1, <2>4
    <3>3. QED
      BY <3>1, <3>2
  <2> HIDE DEF On, C, F, here
  <2>7. /\ To(k).elementNum = k /\ To(k).elementOffset = OffsetIn(s, k) + On(k)
        /\ To(k).position = PositionAt(ix, s, k) + On(k) /\ To(k).atEnd = s.atEnd
        /\ To(k).beforeStart = FALSE
    BY <1>1 DEF Searchers
  <2>8. To(k) \in Searchers
    <3>1. OffsetIn(s, k) + On(k) \in Nat /\ PositionAt(ix, s, k) + On(k) \in Nat /\ k \in Nat
      BY <2>4, <2>6
    <3>2. QED
      BY <3>1, <1>1 DEF Searchers
  <2>9. To(k).position = start[k] + (OffsetIn(s, k) + On(k)) /\ OffsetIn(s, k) + On(k) \in Nat
    BY <2>4, <2>6, <2>7
  <2>10. At(ix, start, To(k))
    <3> HIDE DEF To
    <3>1. ~To(k).atEnd
      BY <1>1, <2>7
    <3>2. QED
      BY <2>4, <2>6, <2>7, <2>8, <2>9, <3>1, Placed
  <2>11. r.ok = TRUE /\ r.searcher = To(k)
    <3> HIDE DEF To
    <3>1. QED
      BY <2>2 DEF Found
  <2> HIDE DEF To, Ks
  <2>12. k \in Hits(ix, s, t) /\ \A j \in Hits(ix, s, t) : k <= j
    BY <1>3, <2>1
  <2>13. /\ OffsetOf(ix, s, t, k) \in Nat /\ OffsetOf(ix, s, t, k) < ix[k].duration
         /\ r.searcher.position = start[k] + OffsetOf(ix, s, t, k)
    BY <2>5, <2>6, <2>9, <2>11
  <2>14. Lands(ix, start, s, t, r)
    BY <2>7, <2>11, <2>12, <2>13 DEF Lands
  <2>15. QED
    BY <2>10, <2>11, <2>14
<1>6. QED
  BY <1>4, <1>5

(* A search leaves the searcher in a place that it says it is in.          *)
LEMMA FindPositionKeeps ==
    ASSUME NEW ix \in Seq(Elements), NEW start, Starts(ix, start), NEW s, At(ix, start, s),
           NEW tc, TimecodeToPosition(tc) \in Nat
    PROVE  At(ix, start, FindPosition(ix, s, tc).searcher)
<1>1. CASE ix = <<>>
  <2>1. s.atEnd
    BY <1>1 DEF At
  <2>2. QED
    BY <2>1 DEF FindPosition, Failed
<1>2. CASE ix # <<>>
  <2> DEFINE r == FindPosition(ix, s, tc)
             t == TimecodeToPosition(tc)
  <2>1. r = Failed(s) \/ At(ix, start, r.searcher)
    <3>1. r = r /\ t = t /\ t \in Nat
      OBVIOUS
    <3> HIDE DEF r, t
    <3>2. QED
      BY <1>2, FindPositionIs DEF r, t
  <2>2. QED
    BY <2>1 DEF Failed
<1>3. QED
  BY <1>1, <1>2

LEMMA FindFrozenKeeps ==
    ASSUME NEW ix \in Seq(Elements), NEW start, Starts(ix, start), NEW s, At(ix, start, s), NEW o \in Nat
    PROVE  At(ix, start, FindFrozen(ix, s, o).searcher)
<1> DEFINE u == [s EXCEPT !.elementOffset = @ + o, !.position = @ + o]
           e == s.elementNum
<1>1. s \in Searchers /\ s.elementOffset \in Nat /\ s.position \in Nat /\ (s.atEnd <=> ix = <<>>)
  BY DEF At, Searchers
<1>2. CASE ~s.atEnd /\ ix[e].frozen /\ s.elementOffset + o < ix[e].duration
  <2>1. ix # <<>> /\ e \in 1 .. Len(ix) /\ s.position = start[e] + s.elementOffset
    BY <1>1, <1>2 DEF At
  <2>2. start[e] \in Nat
    <3>1. e \in 1 .. Len(ix) + 1
      BY <2>1
    <3>2. QED
      BY <3>1 DEF Starts
  <2>3. /\ u.elementNum = e /\ u.elementOffset = s.elementOffset + o /\ u.position = s.position + o /\ u.atEnd = s.atEnd
    BY <1>1 DEF Searchers
  <2>4. u \in Searchers
    <3>1. s.elementOffset + o \in Nat /\ s.position + o \in Nat
      BY <1>1
    <3> DEFINE x == s.elementOffset + o
               y == s.position + o
    <3>2. u = [s EXCEPT !.elementOffset = x, !.position = y] /\ x \in Nat /\ y \in Nat
      BY <3>1
    <3> HIDE DEF x, y, u
    <3>3. QED
      BY <3>2, <1>1 DEF Searchers
  <2>5. FindFrozen(ix, s, o) = Found(u)
    BY <1>2 DEF FindFrozen
  <2> HIDE DEF u, e
  <2>6. s.elementOffset + o \in Nat /\ u.position = start[e] + (s.elementOffset + o)
    BY <1>1, <2>1, <2>2, <2>3
  <2>7. At(ix, start, u)
    BY <1>2, <2>1, <2>3, <2>4, <2>6, Placed
  <2>8. QED
    BY <2>5, <2>7 DEF Found
<1>3. CASE ~(~s.atEnd /\ ix[e].frozen /\ s.elementOffset + o < ix[e].duration)
  BY <1>3 DEF FindFrozen, Failed
<1>4. QED
  BY <1>2, <1>3

LEMMA NextElementKeeps ==
    ASSUME NEW ix \in Seq(Elements), NEW start, Starts(ix, start), NEW s, At(ix, start, s)
    PROVE  At(ix, start, NextElement(ix, s).searcher)
<1> DEFINE k == s.elementNum + 1
           u == [s EXCEPT !.elementNum = @ + 1, !.elementOffset = 0, !.position = PositionAt(ix, s, s.elementNum + 1)]
<1>1. s \in Searchers /\ s.elementNum \in Nat /\ (s.atEnd <=> ix = <<>>)
  BY DEF At, Searchers
<1>2. CASE ~s.atEnd /\ s.elementNum < Len(ix)
  <2>1. ix # <<>> /\ s.elementNum \in 1 .. Len(ix)
    BY <1>1, <1>2 DEF At
  <2>2. k \in s.elementNum .. Len(ix) /\ k # s.elementNum /\ k \in 1 .. Len(ix) /\ k \in Nat
    BY <1>2, <2>1
  <2>3. PositionAt(ix, s, k) = start[k] + 0 /\ start[k] \in Nat /\ 0 < ix[k].duration
    <3> HIDE DEF k
    <3>1. QED
      BY <2>1, <2>2, StartsAt, ElementOf
  <2>4. u.elementNum = k /\ u.elementOffset = 0 /\ u.position = PositionAt(ix, s, k) /\ u.atEnd = s.atEnd
    BY <1>1 DEF Searchers
  <2>5. u \in Searchers
    <3> DEFINE x == PositionAt(ix, s, s.elementNum + 1)
    <3>1. x \in Nat /\ s.elementNum + 1 \in Nat /\ u = [s EXCEPT !.elementNum = @ + 1, !.elementOffset = 0, !.position = x]
      BY <2>2, <2>3
    <3> HIDE DEF x, u
    <3>2. QED
      BY <3>1, <1>1 DEF Searchers
  <2>6. NextElement(ix, s) = Found(u)
    BY <1>2 DEF NextElement
  <2> HIDE DEF u, k
  <2>7. u.position = start[k] + 0
    BY <2>3, <2>4
  <2>8. At(ix, start, u)
    BY <1>2, <2>1, <2>2, <2>3, <2>4, <2>5, <2>7, Placed
  <2>9. QED
    BY <2>6, <2>8 DEF Found
<1>3. CASE ~(~s.atEnd /\ s.elementNum < Len(ix))
  BY <1>3 DEF NextElement, Failed
<1>4. QED
  BY <1>2, <1>3
-----------------------------------------------------------------------------
(* The index tells of all frames that were added, and every searcher is    *)
(* where it says it is, those that a dual search would go back to too.     *)
InPlace(ix, s) == \A start : Starts(ix, start) => At(ix, start, s)

Inv ==
    /\ phase \in {"adding", "idle", "looking"}
    /\ searcher \in [Tracks -> Searchers]
    /\ dual \in [timecode : [Tracks -> Timecodes], position : [Tracks -> Nat], before : [Tracks -> Searchers]]
    /\ \A tr \in Tracks : dual.timecode[tr] \in TimecodesOf(tr) \cup {Invalid}
    /\ \A tr \in Tracks : /\ frames[tr] \in Seq(TimecodesOf(tr))
                          /\ index[tr] \in Seq(Elements)
                          /\ Tells(index[tr], frames[tr])
    /\ phase # "adding" => \A tr \in Tracks : InPlace(index[tr], searcher[tr])
    /\ phase = "looking" => \A tr \in Tracks : InPlace(index[tr], dual.before[tr])

LEMMA InPlaceTyped ==
    ASSUME NEW ix, NEW fr, Tells(ix, fr), NEW s, InPlace(ix, s)
    PROVE  s \in Searchers
BY DEF Tells, Told, InPlace, At

LEMMA TimecodesTyped == Invalid \in Timecodes /\ \A tr \in Tracks : TimecodesOf(tr) \subseteq Timecodes
<1>1. Invalid \in Timecodes
  BY DEF Invalid, Timecodes
<1>2. QED
  BY <1>1, TimecodeAssumption DEF TimecodesOf

LEMMA NothingTold == <<>> \in Seq(Elements) /\ Tells(<<>>, <<>>)
<1> DEFINE start == [k \in 1 .. 1 |-> 0]
<1>1. start \in [1 .. Len(<<>>) + 1 -> Nat] /\ start[1] = 0 /\ start[Len(<<>>) + 1] = Len(<<>>)
  OBVIOUS
<1>2. \A k : k \notin 1 .. Len(<<>>)
  OBVIOUS
<1>3. Told(<<>>, <<>>, start)
  <2> HIDE DEF start
  <2>1. QED
    BY <1>1, <1>2 DEF Told, Starts
<1>4. QED
  BY <1>3 DEF Tells

LEMMA NewTyped == ASSUME NEW ix PROVE NewSearcher(ix) \in Searchers
BY DEF NewSearcher, Searchers

LEMMA NoDualTyped ==
    /\ NoDual \in [timecode : [Tracks -> Timecodes], position : [Tracks -> Nat], before : [Tracks -> Searchers]]
    /\ \A tr \in Tracks : NoDual.timecode[tr] = Invalid
BY NewTyped, TimecodesTyped DEF NoDual

LEMMA InvInit == TimecodeInit => Inv
<1> SUFFICES ASSUME TimecodeInit PROVE Inv
  OBVIOUS
<1>1. searcher \in [Tracks -> Searchers]
  BY NewTyped DEF TimecodeInit
<1>2. \A tr \in Tracks : frames[tr] = <<>> /\ index[tr] = <<>>
  BY DEF TimecodeInit
<1>3. \A T : <<>> \in Seq(T)
  OBVIOUS
<1>4. QED
  BY <1>1, <1>2, <1>3, NoDualTyped, NothingTold DEF TimecodeInit, Inv

LEMMA InvStep == Inv /\ [NextTimecode]_timecodeVars => Inv'
<1> SUFFICES ASSUME Inv, [NextTimecode]_timecodeVars PROVE Inv'
  OBVIOUS
<1>i. /\ phase \in {"adding", "idle", "looking"}
      /\ searcher \in [Tracks -> Searchers]
      /\ dual \in [timecode : [Tracks -> Timecodes], position : [Tracks -> Nat], before : [Tracks -> Searchers]]
      /\ \A tr \in Tracks : dual.timecode[tr] \in TimecodesOf(tr) \cup {Invalid}
      /\ \A tr \in Tracks : /\ frames[tr] \in Seq(TimecodesOf(tr))
                            /\ index[tr] \in Seq(Elements)
                            /\ Tells(index[tr], frames[tr])
      /\ phase # "adding" => \A tr \in Tracks : InPlace(index[tr], searcher[tr])
      /\ phase = "looking" => \A tr \in Tracks : InPlace(index[tr], dual.before[tr])
  BY DEF Inv
<1>t. \A tr \in Tracks : \A tc \in TimecodesOf(tr) \cup {Invalid} : tc \in Timecodes /\ TimecodeToPosition(tc) \in Nat
  BY TimecodesTyped, PositionIsNat
<1>1. ASSUME NEW v \in VITCs, NEW l \in LTCs, AddFrame(v, l) PROVE Inv'
  <2> DEFINE tc == [tr \in Tracks |-> IF tr = "vitc" THEN v ELSE l]
  <2>1. \A tr \in Tracks : tc[tr] \in TimecodesOf(tr)
    BY DEF TimecodesOf
  <2>2. ASSUME NEW tr \in Tracks
        PROVE  /\ frames'[tr] \in Seq(TimecodesOf(tr))
               /\ index'[tr] \in Seq(Elements)
               /\ Tells(index'[tr], frames'[tr])
    <3>1. /\ frames'[tr] = Append(frames[tr], tc[tr])
          /\ index'[tr] = Added(index[tr], TimecodeToPosition(tc[tr]))
      BY <1>1 DEF AddFrame
    <3>2. /\ tc[tr] \in TimecodesOf(tr) /\ TimecodeToPosition(tc[tr]) \in Nat
          /\ \A x \in TimecodesOf(tr) : TimecodeToPosition(x) \in Nat
      BY <2>1, <1>t
    <3>3. /\ frames[tr] \in Seq(TimecodesOf(tr)) /\ index[tr] \in Seq(Elements) /\ Tells(index[tr], frames[tr])
      BY <1>i
    <3> HIDE DEF tc
    <3>4. index'[tr] \in Seq(Elements) /\ Tells(index'[tr], frames'[tr])
      BY <3>1, <3>2, <3>3, IndexGrows
    <3>5. frames'[tr] \in Seq(TimecodesOf(tr))
      BY <3>1, <3>2, <3>3
    <3>6. QED
      BY <3>4, <3>5
  <2>3. UNCHANGED <<searcher, phase, dual>> /\ phase = "adding"
    BY <1>1 DEF AddFrame
  <2> HIDE DEF tc
  <2>4. (\A tr \in Tracks : /\ frames[tr] \in Seq(TimecodesOf(tr))
                            /\ index[tr] \in Seq(Elements)
                            /\ Tells(index[tr], frames[tr]))'
    BY <2>2
  <2>5. QED
    BY <2>3, <2>4, <1>i DEF Inv
<1>2. CASE StartSearch
  <2>1. UNCHANGED <<frames, index, dual>> /\ phase' = "idle" /\ searcher' = [tr \in Tracks |-> NewSearcher(index[tr])]
    BY <1>2 DEF StartSearch
  <2>2. searcher' \in [Tracks -> Searchers]
    BY <2>1, NewTyped
  <2>3. \A tr \in Tracks : InPlace(index[tr], searcher'[tr])
    <3> SUFFICES ASSUME NEW tr \in Tracks, NEW start, Starts(index[tr], start)
                 PROVE  At(index[tr], start, searcher'[tr])
      BY DEF InPlace
    <3>1. index[tr] \in Seq(Elements) /\ searcher'[tr] = NewSearcher(index[tr])
      BY <1>i, <2>1
    <3>2. QED
      BY <3>1, NewIsPlaced
  <2>4. QED
    BY <2>1, <2>2, <2>3, <1>i DEF Inv
<1>3. ASSUME NEW tr \in Tracks, NEW tc \in TimecodesOf(tr), Find(tr, tc) PROVE Inv'
  <2> DEFINE u == FindPosition(index[tr], searcher[tr], tc).searcher
  <2>1. UNCHANGED <<frames, index, phase, dual>> /\ phase = "idle" /\ searcher' = [searcher EXCEPT ![tr] = u]
    BY <1>3 DEF Find
  <2>2. InPlace(index[tr], u)
    <3> SUFFICES ASSUME NEW start, Starts(index[tr], start) PROVE At(index[tr], start, u)
      BY DEF InPlace
    <3>1. index[tr] \in Seq(Elements) /\ At(index[tr], start, searcher[tr]) /\ TimecodeToPosition(tc) \in Nat
      BY <1>i, <1>t, <2>1 DEF InPlace
    <3>2. QED
      BY <3>1, FindPositionKeeps
  <2> HIDE DEF u
  <2>3. u \in Searchers
    BY <2>2, <1>i, InPlaceTyped
  <2>4. searcher' \in [Tracks -> Searchers]
    BY <2>1, <2>3, <1>i
  <2>5. \A w \in Tracks : InPlace(index[w], searcher'[w])
    BY <2>1, <2>2, <1>i
  <2>6. QED
    BY <2>1, <2>4, <2>5, <1>i DEF Inv
<1>4. ASSUME NEW tr \in Tracks, NEW p \in 0 .. MaxFrames, Go(tr, p) PROVE Inv'
  <2> DEFINE u == FindTimecode(index[tr], searcher[tr], p).searcher
  <2>1. UNCHANGED <<frames, index, phase, dual>> /\ phase = "idle" /\ searcher' = [searcher EXCEPT ![tr] = u]
    BY <1>4 DEF Go
  <2>2. InPlace(index[tr], u)
    <3> SUFFICES ASSUME NEW start, Starts(index[tr], start) PROVE At(index[tr], start, u)
      BY DEF InPlace
    <3>p. p \in Nat
      BY TimecodeAssumption
    <3>s. index[tr] \in Seq(Elements) /\ InPlace(index[tr], searcher[tr])
      BY <1>i, <2>1
    <3>1. index[tr] \in Seq(Elements) /\ At(index[tr], start, searcher[tr])
      BY <3>s DEF InPlace
    <3>2. u = Move(index[tr], searcher[tr], p).searcher \/ u = searcher[tr]
      BY DEF FindTimecode
    <3> HIDE DEF u
    <3>3. QED
      BY <3>p, <3>1, <3>2, MoveIs
  <2> HIDE DEF u
  <2>3. u \in Searchers
    BY <2>2, <1>i, InPlaceTyped
  <2>4. searcher' \in [Tracks -> Searchers]
    BY <2>1, <2>3, <1>i
  <2>5. \A w \in Tracks : InPlace(index[w], searcher'[w])
    BY <2>1, <2>2, <1>i
  <2>6. QED
    BY <2>1, <2>4, <2>5, <1>i DEF Inv
<1>5. ASSUME NEW vitc \in VITCs \cup {Invalid}, NEW ltc \in LTCs \cup {Invalid}, FindDual(vitc, ltc) PROVE Inv'
  <2> DEFINE v == FindPosition(index["vitc"], searcher["vitc"], vitc)
             l == FindPosition(index["ltc"], searcher["ltc"], ltc)
             to == [vitc |-> IF vitc # Invalid THEN v
                             ELSE Move(index["vitc"], searcher["vitc"], l.searcher.position),
                    ltc  |-> IF ltc # Invalid THEN l
                             ELSE Move(index["ltc"], searcher["ltc"], v.searcher.position)]
  <2>1. /\ UNCHANGED <<frames, index>> /\ phase = "idle" /\ phase' = "looking"
        /\ searcher' = [tr \in Tracks |-> to[tr].searcher]
        /\ dual' = [timecode |-> [vitc |-> vitc, ltc |-> ltc], before |-> searcher,
                    position |-> [tr \in Tracks |-> to[tr].searcher.position]]
    BY <1>5, Zenon DEF FindDual
  <2>2. /\ vitc \in TimecodesOf("vitc") \cup {Invalid} /\ ltc \in TimecodesOf("ltc") \cup {Invalid}
        /\ "vitc" \in Tracks /\ "ltc" \in Tracks /\ Tracks = {"vitc", "ltc"}
    BY DEF TimecodesOf, Tracks
  <2>3. InPlace(index["vitc"], v.searcher) /\ InPlace(index["ltc"], l.searcher)
    <3>1. ASSUME NEW start, Starts(index["vitc"], start) PROVE At(index["vitc"], start, v.searcher)
      <4>1. /\ index["vitc"] \in Seq(Elements) /\ At(index["vitc"], start, searcher["vitc"])
            /\ TimecodeToPosition(vitc) \in Nat
        BY <1>i, <1>t, <2>1, <2>2, <3>1 DEF InPlace
      <4>2. QED
        BY <4>1, <3>1, FindPositionKeeps
    <3>2. ASSUME NEW start, Starts(index["ltc"], start) PROVE At(index["ltc"], start, l.searcher)
      <4>1. /\ index["ltc"] \in Seq(Elements) /\ At(index["ltc"], start, searcher["ltc"])
            /\ TimecodeToPosition(ltc) \in Nat
        BY <1>i, <1>t, <2>1, <2>2, <3>2 DEF InPlace
      <4>2. QED
        BY <4>1, <3>2, FindPositionKeeps
    <3>3. QED
      BY <3>1, <3>2 DEF InPlace
  <2>4. v.searcher.position \in Nat /\ l.searcher.position \in Nat
    <3>1. v.searcher \in Searchers /\ l.searcher \in Searchers
      <4> HIDE DEF v, l
      <4>1. QED
        BY <2>2, <2>3, <1>i, InPlaceTyped
    <3> HIDE DEF v, l
    <3>2. QED
      BY <3>1 DEF Searchers
  <2> HIDE DEF v, l
  <2>5. ASSUME NEW tr \in Tracks PROVE InPlace(index[tr], to[tr].searcher)
    <3>1. ASSUME NEW p \in Nat, NEW start, Starts(index[tr], start)
          PROVE  At(index[tr], start, Move(index[tr], searcher[tr], p).searcher)
      <4>1. index[tr] \in Seq(Elements) /\ At(index[tr], start, searcher[tr])
        BY <1>i, <2>1, <3>1 DEF InPlace
      <4>2. QED
        BY <4>1, <3>1, MoveIs
    <3>2. \A p \in Nat : InPlace(index[tr], Move(index[tr], searcher[tr], p).searcher)
      BY <3>1 DEF InPlace
    <3>3. CASE tr = "vitc"
      <4>1. to[tr] = v \/ to[tr] = Move(index[tr], searcher[tr], l.searcher.position)
        BY <3>3
      <4> HIDE DEF to
      <4>2. QED
        BY <2>3, <2>4, <3>2, <3>3, <4>1
    <3>4. CASE tr = "ltc"
      <4>1. to[tr] = l \/ to[tr] = Move(index[tr], searcher[tr], v.searcher.position)
        BY <3>4
      <4> HIDE DEF to
      <4>2. QED
        BY <2>3, <2>4, <3>2, <3>4, <4>1
    <3>5. QED
      BY <3>3, <3>4, <2>2
  <2> HIDE DEF to
  <2>6. \A tr \in Tracks : to[tr].searcher \in Searchers /\ to[tr].searcher.position \in Nat
    <3>1. \A tr \in Tracks : to[tr].searcher \in Searchers
      BY <2>5, <1>i, InPlaceTyped
    <3>2. QED
      BY <3>1 DEF Searchers
  <2>7. searcher' \in [Tracks -> Searchers] /\ \A tr \in Tracks : InPlace(index[tr], searcher'[tr])
    BY <2>1, <2>5, <2>6
  <2>8. /\ dual' \in [timecode : [Tracks -> Timecodes], position : [Tracks -> Nat], before : [Tracks -> Searchers]]
        /\ dual'.timecode["vitc"] = vitc /\ dual'.timecode["ltc"] = ltc /\ dual'.before = searcher
    <3>1. [vitc |-> vitc, ltc |-> ltc] \in [Tracks -> Timecodes]
      BY <1>t, <2>2
    <3>2. [tr \in Tracks |-> to[tr].searcher.position] \in [Tracks -> Nat]
      BY <2>6
    <3>3. QED
      BY <2>1, <3>1, <3>2, <1>i
  <2>9. \A tr \in Tracks : dual'.timecode[tr] \in TimecodesOf(tr) \cup {Invalid}
    BY <2>2, <2>8
  <2>10. \A tr \in Tracks : InPlace(index[tr], dual'.before[tr])
    BY <2>1, <2>8, <1>i
  <2>11. QED
    BY <2>1, <2>7, <2>8, <2>9, <2>10, <1>i DEF Inv
<1>6. CASE DualFound
  <2>1. UNCHANGED <<frames, index, searcher>> /\ phase = "looking" /\ phase' = "idle" /\ dual' = NoDual
    BY <1>6 DEF DualFound
  <2>2. QED
    BY <2>1, <1>i, NoDualTyped DEF Inv
<1>7. CASE LookFurther
  <2> DEFINE b == Behind
             ix == index[b]
             s == searcher[b]
             there  == dual.position[Other(b)]
             frozen == FindFrozen(ix, s, there - dual.position[b])
             next   == FindPosition(ix, s, dual.timecode[b])
             moved  == IF FoundAgain(next) THEN NextElement(ix, next.searcher) ELSE next
  <2>1. /\ UNCHANGED <<frames, index>> /\ phase = "looking" /\ dual.position["vitc"] # dual.position["ltc"]
        /\ \/ frozen.ok /\ CatchUp(frozen.searcher, there)
           \/ next.ok /\ moved.ok /\ CatchUp(moved.searcher, next.searcher.position)
           \/ GiveUp
    BY <1>7, Zenon DEF LookFurther
  <2>2. b \in Tracks /\ Other(b) \in Tracks /\ there \in Nat /\ there - dual.position[b] \in Nat
    <3>1. dual.position["vitc"] \in Nat /\ dual.position["ltc"] \in Nat
      BY <1>i DEF Tracks
    <3>2. Other("vitc") = "ltc" /\ Other("ltc") = "vitc"
      BY DEF Other, Tracks
    <3>3. CASE dual.position["vitc"] < dual.position["ltc"]
      <4>1. b = "vitc"
        BY <3>3 DEF Behind
      <4>2. QED
        BY <4>1, <3>1, <3>2, <3>3 DEF Tracks
    <3>4. CASE ~(dual.position["vitc"] < dual.position["ltc"])
      <4>1. b = "ltc"
        BY <3>4 DEF Behind
      <4>2. QED
        BY <4>1, <3>1, <3>2, <3>4, <2>1 DEF Tracks
    <3>5. QED
      BY <3>3, <3>4
  <2>3. /\ ix \in Seq(Elements) /\ InPlace(ix, s) /\ Tells(ix, frames[b])
        /\ TimecodeToPosition(dual.timecode[b]) \in Nat
    BY <2>1, <2>2, <1>i, <1>t
  <2>4. InPlace(ix, frozen.searcher)
    <3> HIDE DEF ix, s, there, b
    <3>1. QED
      BY <2>2, <2>3, FindFrozenKeeps DEF InPlace
  <2>5. InPlace(ix, next.searcher)
    <3> HIDE DEF ix, s, there, b
    <3>1. QED
      BY <2>3, FindPositionKeeps DEF InPlace
  <2>6. InPlace(ix, moved.searcher)
    <3> HIDE DEF ix, s, there, b, next
    <3>1. InPlace(ix, NextElement(ix, next.searcher).searcher)
      BY <2>3, <2>5, NextElementKeeps DEF InPlace
    <3>2. QED
      BY <2>5, <3>1
  <2> HIDE DEF frozen, next, moved
  <2>7. /\ frozen.searcher \in Searchers /\ moved.searcher \in Searchers /\ next.searcher.position \in Nat
    <3> HIDE DEF ix, s, there, b
    <3>1. frozen.searcher \in Searchers /\ moved.searcher \in Searchers /\ next.searcher \in Searchers
      BY <2>3, <2>4, <2>5, <2>6, InPlaceTyped
    <3>2. QED
      BY <3>1 DEF Searchers
  <2>8. ASSUME NEW u \in Searchers, NEW p \in Nat, InPlace(ix, u), CatchUp(u, p)
        PROVE  Inv'
    <3>1. searcher' = [searcher EXCEPT ![b] = u] /\ dual' = [dual EXCEPT !.position[b] = p] /\ UNCHANGED phase
      BY <2>8 DEF CatchUp
    <3> HIDE DEF b
    <3>2. searcher' \in [Tracks -> Searchers] /\ \A w \in Tracks : InPlace(index[w], searcher'[w])
      BY <3>1, <2>1, <2>2, <2>8, <1>i
    <3>3. /\ dual' \in [timecode : [Tracks -> Timecodes], position : [Tracks -> Nat], before : [Tracks -> Searchers]]
          /\ dual'.timecode = dual.timecode /\ dual'.before = dual.before
      BY <3>1, <2>2, <2>8, <1>i
    <3>4. QED
      BY <3>1, <3>2, <3>3, <2>1, <1>i DEF Inv
  <2>9. CASE GiveUp
    <3>1. searcher' = dual.before /\ phase' = "idle" /\ dual' = NoDual
      BY <2>9 DEF GiveUp, Restored
    <3>2. dual.before \in [Tracks -> Searchers]
      BY <1>i
    <3>3. QED
      BY <3>1, <3>2, <2>1, <1>i, NoDualTyped DEF Inv
  <2>10. QED
    BY <2>1, <2>2, <2>4, <2>6, <2>7, <2>8, <2>9
<1>8. CASE UNCHANGED timecodeVars
  BY <1>8, <1>i DEF timecodeVars, Inv
<1>9. ASSUME NextTimecode PROVE Inv'
  <2>1. Alone \subseteq Tracks
    BY TimecodeAssumption
  <2>2. QED
    BY <1>1, <1>2, <1>3, <1>4, <1>5, <1>6, <1>7, <1>9, <2>1 DEF NextTimecode, TimecodeCall, SearchStep
<1>10. QED
  BY <1>8, <1>9
-----------------------------------------------------------------------------
LEMMA Invariance == TimecodeSpec => []Inv
<1>1. TimecodeInit => Inv
  BY InvInit
<1>2. Inv /\ [NextTimecode]_timecodeVars => Inv'
  BY InvStep
<1>3. QED
  BY <1>1, <1>2, PTL DEF TimecodeSpec

(* Every element counts at least one frame, and searchers, time codes and  *)
(* positions are what the code's types say.                                *)
THEOREM TypeCorrect == TimecodeSpec => []TimecodesOK
<1>1. Inv => TimecodesOK
  <2> SUFFICES ASSUME Inv PROVE TimecodesOK
    OBVIOUS
  <2>1. \A tr \in Tracks : searcher[tr] \in Searchers /\ dual.position[tr] \in Nat
    BY DEF Inv
  <2>2. QED
    BY <2>1 DEF Inv, TimecodesOK, Searchers, Elements
<1>2. QED
  BY <1>1, Invariance, PTL

LEMMA AgreesIn ==
    ASSUME NEW ix \in Seq(Elements), ix # <<>>, NEW start, Starts(ix, start), NEW s, At(ix, start, s)
    PROVE  /\ s.elementNum \in DOMAIN ix
           /\ s.elementOffset < ix[s.elementNum].duration
           /\ s.position = PositionAt(ix, NewSearcher(ix), s.elementNum) + s.elementOffset
<1> DEFINE u == NewSearcher(ix)
           k == s.elementNum
<1>1. At(ix, start, u) /\ u.elementNum = 1 /\ u.elementOffset = 0
  <2>1. At(ix, start, NewSearcher(ix))
    BY NewIsPlaced
  <2>2. QED
    BY <2>1 DEF NewSearcher
<1>2. k \in 1 .. Len(ix) /\ s.elementOffset < ix[k].duration /\ s.position = start[k] + s.elementOffset
  BY DEF At
<1> HIDE DEF u, k
<1>3. k \in u.elementNum .. Len(ix)
  BY <1>1, <1>2
<1>4. PositionAt(ix, u, k) = start[k] + OffsetIn(u, k) /\ start[k] \in Nat
  BY <1>1, <1>3, StartsAt
<1>5. OffsetIn(u, k) = 0
  BY <1>1 DEF OffsetIn
<1>6. PositionAt(ix, u, k) = start[k]
  BY <1>4, <1>5
<1>7. QED
  BY <1>2, <1>6 DEF u, k

(* The position of a searcher is the sum of the elements before its own,   *)
(* and its offset, after any searches, also failed ones and dual ones that *)
(* were taken back.                                                        *)
THEOREM SearchersAgree == TimecodeSpec => []SearcherAgrees
<1>1. Inv => SearcherAgrees
  <2> SUFFICES ASSUME Inv, phase = "idle", NEW tr \in Tracks, index[tr] # <<>>
               PROVE  /\ searcher[tr].elementNum \in DOMAIN index[tr]
                      /\ searcher[tr].elementOffset < index[tr][searcher[tr].elementNum].duration
                      /\ searcher[tr].position =
                            PositionAt(index[tr], NewSearcher(index[tr]), searcher[tr].elementNum) + searcher[tr].elementOffset
    BY DEF SearcherAgrees
  <2>1. index[tr] \in Seq(Elements) /\ Tells(index[tr], frames[tr]) /\ InPlace(index[tr], searcher[tr])
    BY DEF Inv
  <2>2. PICK start : Starts(index[tr], start)
    BY <2>1 DEF Tells, Told
  <2>3. At(index[tr], start, searcher[tr])
    BY <2>1, <2>2 DEF InPlace
  <2>4. QED
    BY <2>1, <2>2, <2>3, AgreesIn
<1>2. QED
  BY <1>1, Invariance, PTL

-----------------------------------------------------------------------------
LEMMA DivMod ==
    ASSUME NEW d \in Nat, d >= 1, NEW q \in Nat, NEW r \in Nat, r < d
    PROVE  (q * d + r) \div d = q /\ (q * d + r) % d = r
<1> DEFINE x == q * d + r
           q2 == x \div d
           r2 == x % d
<1>1. x \in Nat
  BY SMT
<1>2. q2 \in Nat /\ r2 \in Nat /\ r2 < d /\ x = d * q2 + r2
  <2> HIDE DEF x
  <2>1. QED
    BY <1>1, SMT
<1>3. x = d * q + r
  BY SMT
<1> HIDE DEF x, q2, r2
<1>4. ~(q2 < q)
  <2> SUFFICES ASSUME q2 < q PROVE FALSE
    OBVIOUS
  <2>1. q - q2 - 1 \in Nat /\ d * q = d * q2 + d + d * (q - q2 - 1) /\ d * (q - q2 - 1) \in Nat
    BY <1>2, SMT
  <2>2. QED
    BY <1>2, <1>3, <2>1, SMT
<1>5. ~(q < q2)
  <2> SUFFICES ASSUME q < q2 PROVE FALSE
    OBVIOUS
  <2>1. q2 - q - 1 \in Nat /\ d * q2 = d * q + d + d * (q2 - q - 1) /\ d * (q2 - q - 1) \in Nat
    BY <1>2, SMT
  <2>2. QED
    BY <1>2, <1>3, <2>1, SMT
<1>6. q = q2
  BY <1>2, <1>4, <1>5
<1>7. d * q = d * q2
  BY <1>6
<1>8. r = r2
  <2>1. d * q \in Nat /\ d * q2 \in Nat
    BY <1>2, SMT
  <2>2. QED
    BY <1>2, <1>3, <1>7, <2>1
<1>9. QED
  BY <1>6, <1>8 DEF x, q2, r2

(* Hours, minutes, seconds and frames are found again in the position of a *)
(* time code that drops no frames.                                         *)
LEMMA TimecodeFoundAgain ==
    ASSUME NEW tc \in Timecodes, tc.min < 60, tc.sec < 60, tc.frame < Base, ~tc.dropFrame
    PROVE  PositionToTimecode(TimecodeToPosition(tc)) = tc
<1> DEFINE h == tc.hour
           m == tc.min
           s == tc.sec
           f == tc.frame
           B == Base
           p == TimecodeToPosition(tc)
<1>1. h \in Nat /\ m \in Nat /\ s \in Nat /\ f \in Nat /\ B \in Nat /\ B >= 1 /\ tc.dropFrame = FALSE
  BY TimecodeAssumption DEF Timecodes
<1>2. tc = [hour |-> h, min |-> m, sec |-> s, frame |-> f, dropFrame |-> FALSE]
  <2>1. tc = [hour |-> tc.hour, min |-> tc.min, sec |-> tc.sec, frame |-> tc.frame, dropFrame |-> tc.dropFrame]
    BY DEF Timecodes
  <2>2. QED
    BY <2>1, <1>1
<1>3. m < 60 /\ s < 60 /\ f < B
  OBVIOUS
<1>4. p = ((h * 60 + m) * 60 + s) * B + f
  <2>1. p = ((h * 60 + m) * 60 + s) * B + f - 0
    BY DEF TimecodeToPosition, Dropped
  <2> HIDE DEF h, m, s, f, B, p
  <2>2. f - 0 = f
    BY <1>1
  <2>3. QED
    BY <2>1, <2>2
<1>5. /\ PositionToTimecode(p).hour = p \div (60 * 60 * B)
      /\ PositionToTimecode(p) = [hour |-> p \div (60 * 60 * B), min |-> (p % (60 * 60 * B)) \div (60 * B),
                                  sec |-> (p % (60 * B)) \div B, frame |-> p % B, dropFrame |-> FALSE]
  BY DEF PositionToTimecode
<1> HIDE DEF h, m, s, f, B, p
<1> DEFINE M == 60 * B
           H == 60 * 60 * B
           low == s * B + f
           mid == m * M + low
<1>6. M \in Nat /\ M >= 1 /\ H \in Nat /\ H >= 1 /\ H = 60 * M
  BY <1>1
<1>7. low \in Nat /\ low < M
  <2>1. s * B \in Nat /\ (59 - s) * B \in Nat /\ s * B + (59 - s) * B = 59 * B
    BY <1>1, <1>3, SMT
  <2>2. QED
    BY <2>1, <1>1, <1>3
<1>8. mid \in Nat /\ mid < H
  <2> HIDE DEF M, H, low
  <2>1. m * M \in Nat /\ (59 - m) * M \in Nat /\ m * M + (59 - m) * M = 59 * M
    BY <1>1, <1>3, <1>6, SMT
  <2>2. QED
    BY <2>1, <1>6, <1>7
<1>9. p = h * H + mid
  BY <1>1, <1>4, SMT
<1>10. p = (h * 60 + m) * M + low /\ h * 60 + m \in Nat
  BY <1>1, <1>4, SMT
<1>11. p = ((h * 60 + m) * 60 + s) * B + f /\ (h * 60 + m) * 60 + s \in Nat
  BY <1>1, <1>4, SMT
<1>12. low \div B = s
  BY <1>1, <1>3, DivMod
<1> DEFINE hm == h * 60 + m
           hms == (h * 60 + m) * 60 + s
<1> HIDE DEF M, H, low, hm, hms
<1>13. mid \div M = m
  BY <1>1, <1>6, <1>7, DivMod
<1> HIDE DEF mid
<1>14. p \div H = h /\ p % H = mid
  BY <1>1, <1>6, <1>8, <1>9, DivMod
<1>15. p % M = low
  <2>1. hm \in Nat /\ p = hm * M + low
    BY <1>10 DEF hm
  <2>2. QED
    BY <2>1, <1>6, <1>7, DivMod
<1>16. p % B = f
  <2>1. hms \in Nat /\ p = hms * B + f
    BY <1>11 DEF hms
  <2>2. QED
    BY <2>1, <1>1, <1>3, DivMod
<1>17. p \div (60 * 60 * B) = h /\ (p % (60 * 60 * B)) \div (60 * B) = m /\ (p % (60 * B)) \div B = s
  BY <1>12, <1>13, <1>14, <1>15 DEF H, M
<1>18. QED
  BY <1>2, <1>5, <1>16, <1>17 DEF p
-----------------------------------------------------------------------------
(* Sums of times and positions.                                            *)
LEMMA Sums ==
    ASSUME NEW S \in Nat, NEW T \in Nat, NEW D \in Nat, NEW p \in Nat, NEW t \in Nat, t = T + (p - S)
    PROVE  /\ p < S + D => t < T + D
           /\ S <= p => t >= T
           /\ \A n \in Nat : p >= S + n => t >= T + n
           /\ \A n \in Nat : p > S + n => t > T + n
           /\ \A o \in Nat : o = t - T => S + o = p
OBVIOUS
LEMMA SumsBack ==
    ASSUME NEW S \in Nat, NEW T \in Nat, NEW t \in Nat, NEW o \in Nat, o = t - T, NEW n \in Nat
    PROVE  /\ t >= T + n => S + o >= S + n
           /\ t > T + n => S + o > S + n
OBVIOUS
(* Which frame each place in the index tells of.                           *)
LEMMA TellsFrame ==
    ASSUME NEW ix \in Seq(Elements), NEW fr, NEW start, Told(ix, fr, start), Len(fr) \in Nat,
           TellsRight(ix, fr, start),
           NEW k \in 1 .. Len(ix), NEW o \in Nat, o < ix[k].duration, NEW p, p = start[k] + o
    PROVE  p \in 0 .. Len(fr) - 1 /\ TimecodeToPosition(fr[p + 1]) = TimecodePosIn(ix[k], o)
<1>1. ix[k].duration \in Nat /\ Starts(ix, start) /\ start[Len(ix) + 1] = Len(fr)
  BY ElementOf DEF Told
<1>2. o \in 0 .. ix[k].duration - 1
  BY <1>1
<1>3. start[k] \in Nat /\ start[k] + o + 1 \in 1 .. Len(fr)
  BY <1>1, <1>2, FrameIn
<1>4. TimecodeToPosition(fr[start[k] + o + 1]) = TimecodePosIn(ix[k], o)
  BY <1>2 DEF TellsRight
<1>5. start[k] + o + 1 = p + 1 /\ p \in 0 .. Len(fr) - 1
  BY <1>3
<1>6. QED
  BY <1>4, <1>5

LEMMA FindTimecodeIs ==
    ASSUME NEW ix \in Seq(Elements), NEW fr, NEW start, Told(ix, fr, start), Len(fr) \in Nat,
           NEW p \in 0 .. Len(fr) - 1, NEW r, r = FindTimecode(ix, NewSearcher(ix), p)
    PROVE  \E k \in 1 .. Len(ix) : \E o \in 0 .. ix[k].duration - 1 :
              /\ r.ok /\ r.searcher.elementNum = k /\ r.searcher.elementOffset = o /\ p = start[k] + o
              /\ r.timecode = PositionToTimecode(TimecodePosIn(ix[k], o))
<1> DEFINE s == NewSearcher(ix)
           moved == Move(ix, s, p)
           at == moved.searcher
<1>1. Starts(ix, start) /\ start[Len(ix) + 1] = Len(fr) /\ p \in Nat /\ p < start[Len(ix) + 1]
  BY DEF Told
<1>2. At(ix, start, s) /\ s.position <= p
  BY <1>1, NewIsPlaced
<1>3. At(ix, start, at) /\ moved.ok /\ at.position = p
  <2> HIDE DEF s
  <2>1. QED
    BY <1>1, <1>2, MoveIs
<1>4. ix # <<>>
  BY <1>1 DEF Starts
<1>5. r = [ok |-> TRUE, searcher |-> at,
           timecode |-> PositionToTimecode(TimecodePosIn(ix[at.elementNum], at.elementOffset))]
  BY <1>3, Zenon DEF FindTimecode
<1> HIDE DEF at
<1>6. /\ at.elementNum \in 1 .. Len(ix) /\ at.elementOffset \in Nat
      /\ at.elementOffset < ix[at.elementNum].duration /\ p = start[at.elementNum] + at.elementOffset
  BY <1>3, <1>4 DEF At, Searchers
<1>7. at.elementOffset \in 0 .. ix[at.elementNum].duration - 1
  BY <1>6, ElementOf
<1>8. QED
  BY <1>5, <1>6, <1>7

(* A frame that an element does not tell of right resumes the time code    *)
(* that the element is frozen at.                                          *)
LEMMA Resuming ==
    ASSUME Inv, NEW tr \in Tracks, NEW start, Told(index[tr], frames[tr], start),
           NEW k \in 1 .. Len(index[tr]), NEW o \in 0 .. index[tr][k].duration - 1, o >= 2,
           index[tr][k].frozen, Time(tr, start[k] + o) = index[tr][k].timecodePos + o
    PROVE  /\ start[k] + o \in Positions(tr) /\ start[k] \in 0 .. start[k] + o
           /\ Resumes(tr, start[k], start[k] + o) /\ Time(tr, start[k]) = index[tr][k].timecodePos
<1> DEFINE ix == index[tr]
           fr == frames[tr]
           S == start[k]
           t == ix[k].timecodePos
           d == ix[k].duration
           P == S + o
<1>1. fr \in Seq(TimecodesOf(tr)) /\ ix \in Seq(Elements) /\ Starts(ix, start) /\ start[Len(ix) + 1] = Len(fr)
  BY DEF Inv, Told
<1>2. Len(fr) \in Nat /\ k \in 1 .. Len(ix) /\ d \in Nat /\ o \in 0 .. d - 1 /\ t \in Nat
  BY <1>1, ElementOf
<1>3. ASSUME NEW i \in 0 .. d - 1
      PROVE  S \in Nat /\ S + i + 1 \in 1 .. Len(fr) /\ Place(ix[k], i, Time(tr, S + i))
  <2>1. S \in Nat /\ S + i + 1 \in 1 .. Len(fr)
    BY <1>1, <1>2, FrameIn
  <2>2. Place(ix[k], i, TimecodeToPosition(fr[S + i + 1]))
    BY <1>2 DEF Told
  <2>3. QED
    BY <2>1, <2>2 DEF Time, FrameAt
<1>4. S \in Nat /\ S + o + 1 \in 1 .. Len(fr) /\ 0 \in 0 .. d - 1 /\ 1 \in 0 .. d - 1
  BY <1>2, <1>3
<1>5. \A i \in 0 .. d - 1 : Time(tr, S + i) = t \/ (i >= 2 /\ Time(tr, S + i) = t + i)
  BY <1>3 DEF Place, TimecodePosIn
<1> HIDE DEF S, t, d, ix, fr
<1>6. Time(tr, S) = t /\ Time(tr, S + 1) = t
  <2>1. S + 0 = S
    BY <1>4
  <2>2. Time(tr, S + 0) = t /\ Time(tr, S + 1) = t
    BY <1>4, <1>5
  <2>3. QED
    BY <2>1, <2>2
<1>7. ASSUME NEW r \in S + 1 .. P - 1 PROVE Time(tr, r) \in {Time(tr, S), Time(tr, S) + (r - S)}
  <2>1. r - S \in 0 .. d - 1 /\ S + (r - S) = r
    BY <1>2, <1>4
  <2>2. QED
    BY <1>5, <1>6, <2>1
<1>8. Time(tr, P) = Time(tr, S) + (P - S) /\ S + 1 < P
  <2>1. P - S = o /\ S + 1 < P
    BY <1>2, <1>4
  <2>2. Time(tr, P) = t + o
    BY DEF S, t, ix
  <2>3. QED
    BY <1>6, <2>1, <2>2
<1>9. P \in Positions(tr) /\ S \in 0 .. P
  BY <1>2, <1>4 DEF Positions, fr
<1> HIDE DEF P
<1>10. Resumes(tr, S, P)
  BY <1>6, <1>7, <1>8 DEF Resumes
<1>11. QED
  BY <1>6, <1>9, <1>10 DEF S, t, ix, P

(* So that where none is resumed the index tells right of all.             *)
LEMMA RightUnlessResumed ==
    ASSUME Inv, NEW tr \in Tracks, NEW start, Told(index[tr], frames[tr], start), ~Resumed(tr)
    PROVE  TellsRight(index[tr], frames[tr], start)
<1> SUFFICES ASSUME NEW k \in 1 .. Len(index[tr]), NEW o \in 0 .. index[tr][k].duration - 1
             PROVE  TimecodeToPosition(frames[tr][start[k] + o + 1]) = TimecodePosIn(index[tr][k], o)
  BY DEF TellsRight
<1>1. Place(index[tr][k], o, Time(tr, start[k] + o))
  BY DEF Told, Time, FrameAt
<1>2. ASSUME index[tr][k].frozen, o >= 2, Time(tr, start[k] + o) = index[tr][k].timecodePos + o PROVE FALSE
  BY <1>2, Resuming DEF Resumed
<1>3. QED
  BY <1>1, <1>2 DEF Place, Time, FrameAt

(* The index tells of every frame the time code that it came with, in      *)
(* hours, minutes, seconds and frames if it has no drop frames, provided   *)
(* that time codes are proper; but for the frames at which a frozen time   *)
(* code is resumed, of which it tells the frozen one.                      *)
THEOREM IndexIsRight ==
    ASSUME ProperTimecodes
    PROVE  TimecodeSpec => []IndexTellsFrames
<1>1. Inv => IndexTellsFrames
  <2> SUFFICES ASSUME Inv, NEW tr \in Tracks, NEW p \in Positions(tr),
                      NEW r, r = FindTimecode(index[tr], NewSearcher(index[tr]), p),
                      NEW told, told = TimecodePosIn(index[tr][r.searcher.elementNum], r.searcher.elementOffset)
               PROVE  /\ r.ok
                      /\ \/ told = Time(tr, p) /\ (~FrameAt(tr, p).dropFrame => r.timecode = FrameAt(tr, p))
                         \/ \E q \in 0 .. p : Resumes(tr, q, p) /\ told = Time(tr, q)
    BY DEF IndexTellsFrames
  <2> DEFINE ix == index[tr]
             fr == frames[tr]
             tc == fr[p + 1]
  <2>1. fr \in Seq(TimecodesOf(tr)) /\ ix \in Seq(Elements) /\ Tells(ix, fr)
    BY DEF Inv
  <2>2. PICK start : Told(ix, fr, start)
    BY <2>1 DEF Tells
  <2>3. Len(fr) \in Nat /\ p \in 0 .. Len(fr) - 1
    BY <2>1 DEF Positions
  <2>4. FrameAt(tr, p) = tc /\ Time(tr, p) = TimecodeToPosition(tc)
    BY DEF FrameAt, Time
  <2>5. tc \in TimecodesOf(tr)
    <3> HIDE DEF fr
    <3>1. p + 1 \in 1 .. Len(fr)
      BY <2>3
    <3>2. QED
      BY <2>1, <3>1
  <2>6. tc \in Timecodes /\ tc.min < 60 /\ tc.sec < 60 /\ tc.frame < Base
    BY <2>5, TimecodesTyped DEF ProperTimecodes, TimecodesOf
  <2> HIDE DEF ix, fr, tc
  <2>7. PICK k \in 1 .. Len(ix) : \E o \in 0 .. ix[k].duration - 1 :
              /\ r.ok /\ r.searcher.elementNum = k /\ r.searcher.elementOffset = o /\ p = start[k] + o
              /\ r.timecode = PositionToTimecode(TimecodePosIn(ix[k], o))
    <3>1. r = FindTimecode(ix, NewSearcher(ix), p)
      BY DEF ix
    <3>2. QED
      BY <3>1, <2>1, <2>2, <2>3, FindTimecodeIs
  <2>8. PICK o \in 0 .. ix[k].duration - 1 :
              /\ r.ok /\ r.searcher.elementNum = k /\ r.searcher.elementOffset = o /\ p = start[k] + o
              /\ r.timecode = PositionToTimecode(TimecodePosIn(ix[k], o))
    BY <2>7
  <2>9. told = TimecodePosIn(ix[k], o)
    BY <2>8 DEF ix
  <2>10. Place(ix[k], o, Time(tr, p))
    BY <2>2, <2>8 DEF Told, Time, FrameAt, fr
  <2>11. CASE Time(tr, p) = TimecodePosIn(ix[k], o)
    <3>1. ~tc.dropFrame => r.timecode = tc
      BY <2>4, <2>6, <2>8, <2>11, TimecodeFoundAgain
    <3>2. QED
      BY <2>4, <2>8, <2>9, <2>11, <3>1
  <2>12. CASE ix[k].frozen /\ o >= 2 /\ Time(tr, p) = ix[k].timecodePos + o
    <3>1. /\ start[k] \in 0 .. p /\ Resumes(tr, start[k], p) /\ Time(tr, start[k]) = ix[k].timecodePos
      BY <2>2, <2>8, <2>12, Resuming DEF ix, fr
    <3>2. told = Time(tr, start[k])
      BY <2>9, <2>12, <3>1 DEF TimecodePosIn
    <3>3. QED
      BY <2>8, <3>1, <3>2
  <2>13. QED
    BY <2>10, <2>11, <2>12 DEF Place
<1>2. QED
  BY <1>1, Invariance, PTL

-----------------------------------------------------------------------------
(* Every frame ahead with the time code is in an element that the search   *)
(* stops at.                                                               *)
LEMMA AheadIsHit ==
    ASSUME NEW ix \in Seq(Elements), ix # <<>>, NEW fr, NEW start, Told(ix, fr, start), Len(fr) \in Nat,
           TellsRight(ix, fr, start), NEW s, At(ix, start, s),
           NEW p \in 0 .. Len(fr) - 1, NEW t, t = TimecodeToPosition(fr[p + 1]),
           p > s.position \/ (p = s.position /\ (s.beforeStart \/ ix[s.elementNum].frozen))
    PROVE  \E k \in Hits(ix, s, t) :
              /\ start[k] \in Nat /\ start[k] <= p /\ p < start[k] + ix[k].duration
              /\ t = TimecodePosIn(ix[k], p - start[k])
<1>1. /\ Starts(ix, start) /\ p \in Nat /\ p < start[Len(ix) + 1]
  BY DEF Told
<1>2. PICK k \in 1 .. Len(ix) : start[k] <= p /\ p < start[k] + ix[k].duration
  BY <1>1, ElementAt
<1> DEFINE e == s.elementNum
<1>3. /\ e \in 1 .. Len(ix) /\ s.elementOffset \in Nat /\ s.elementOffset < ix[e].duration
      /\ s.position = start[e] + s.elementOffset /\ Len(ix) \in Nat /\ s.beforeStart \in BOOLEAN
  BY DEF At, Searchers
<1>4. /\ start[k] \in Nat /\ ix[k].duration \in Nat /\ ix[k].timecodePos \in Nat /\ ix[k].frozen \in BOOLEAN
      /\ start[e] \in Nat
  <2>1. k \in 1 .. Len(ix) + 1 /\ e \in 1 .. Len(ix) + 1
    BY <1>3
  <2>2. QED
    BY <1>1, <2>1, ElementOf DEF Starts
<1> HIDE DEF e
<1>5. k \in e .. Len(ix)
  <2> SUFFICES ASSUME k < e PROVE FALSE
    BY <1>3
  <2>1. e \in k + 1 .. Len(ix) + 1
    BY <1>3
  <2>2. start[k] + ix[k].duration <= start[e]
    BY <1>1, <2>1, StartsGrow
  <2> DEFINE x == start[k] + ix[k].duration
             y == start[e]
  <2>3. x \in Nat /\ y \in Nat /\ x <= y /\ p < x
    BY <1>2, <1>4, <2>2
  <2>4. y <= s.position /\ s.position \in Nat
    BY <1>3, <1>4 DEF e
  <2>5. s.position <= p
    BY <1>1, <2>4
  <2> HIDE DEF x, y
  <2>6. QED
    BY <1>1, <2>3, <2>4, <2>5
<1>6. t = TimecodePosIn(ix[k], p - start[k])
  <2>1. p - start[k] \in Nat /\ p - start[k] < ix[k].duration /\ p = start[k] + (p - start[k])
    <3> DEFINE S == start[k]
               D == ix[k].duration
    <3>1. S \in Nat /\ D \in Nat /\ p \in Nat /\ S <= p /\ p < S + D
      BY <1>1, <1>2, <1>4
    <3> HIDE DEF S, D
    <3>2. p - S \in Nat /\ p - S < D /\ p = S + (p - S)
      BY <3>1
    <3>3. QED
      BY <3>2 DEF S, D
  <2>2. QED
    BY <2>1, TellsFrame
<1>7. CASE ix[k].frozen
  <2>1. Frozen(ix, t, k)
    BY <1>6, <1>7 DEF Frozen, TimecodePosIn
  <2>2. QED
    BY <1>2, <1>4, <1>5, <1>6, <2>1 DEF Hits, e
<1>8. CASE ~ix[k].frozen
  <2>1. t = ix[k].timecodePos + (p - start[k])
    BY <1>6, <1>8 DEF TimecodePosIn
  <2> DEFINE S == start[k]
             T == ix[k].timecodePos
             D == ix[k].duration
             n == s.elementOffset
  <2>s. S \in Nat /\ T \in Nat /\ D \in Nat /\ p \in Nat /\ t \in Nat /\ t = T + (p - S) /\ S <= p /\ p < S + D /\ n \in Nat
    <3>1. S \in Nat /\ T \in Nat /\ D \in Nat /\ p \in Nat /\ n \in Nat
      BY <1>1, <1>3, <1>4
    <3>2. t = T + (p - S) /\ S <= p /\ p < S + D
      BY <2>1, <1>2, Zenon
    <3> HIDE DEF S, T, D, n
    <3>3. p - S \in Nat
      BY <3>1, <3>2
    <3>4. T + (p - S) \in Nat
      BY <3>1, <3>3
    <3>5. t \in Nat
      BY <3>2, <3>4, Zenon
    <3>6. QED
      BY <3>1, <3>2, <3>5
  <2>t. t >= T /\ t < T + D /\ (p >= S + n => t >= T + n) /\ (p > S + n => t > T + n)
    <3> HIDE DEF S, T, D, n
    <3>1. QED
      BY <2>s, Sums
  <2>2. Counted(ix, s, t, k)
    <3>1. CASE k = e
      <4>1. Here(ix, s, k) = ix[k].timecodePos + s.elementOffset
        BY <3>1 DEF Here, OffsetIn, e
      <4>2. p >= s.position /\ (s.beforeStart \/ p > s.position)
        <5>1. ~ix[e].frozen
          BY <1>8, <3>1
        <5>2. p > s.position \/ (p = s.position /\ s.beforeStart)
          BY <5>1 DEF e
        <5>3. s.position \in Nat
          BY <1>3, <1>4
        <5>4. QED
          BY <5>2, <5>3, <1>1
      <4>3. s.position = S + n
        BY <3>1, <1>3
      <4>4. t >= Here(ix, s, k) /\ (s.beforeStart \/ t > Here(ix, s, k)) /\ t < ix[k].timecodePos + ix[k].duration
        BY <2>t, <4>1, <4>2, <4>3
      <4>5. QED
        BY <4>4 DEF Counted, IsNext
    <3>2. CASE k # e
      <4>1. Here(ix, s, k) = ix[k].timecodePos + 0 /\ k > s.elementNum
        BY <3>2, <1>3, <1>5 DEF Here, OffsetIn, e
      <4>2. t >= Here(ix, s, k) /\ t < ix[k].timecodePos + ix[k].duration
        BY <2>t, <2>s, <4>1
      <4>3. QED
        BY <4>1, <4>2 DEF Counted, IsNext
    <3>3. QED
      BY <3>1, <3>2
  <2>3. QED
    BY <1>2, <1>4, <1>5, <1>6, <2>2 DEF Hits, e
<1>9. QED
  BY <1>7, <1>8

(* Where the search stops there is a frame with the time code, ahead.      *)
LEMMA HitIsAhead ==
    ASSUME NEW ix \in Seq(Elements), ix # <<>>, NEW fr, NEW start, Told(ix, fr, start), Len(fr) \in Nat,
           TellsRight(ix, fr, start), NEW s, At(ix, start, s),
           NEW t \in Nat, ~FrozenBefore(ix, t), NEW k \in Hits(ix, s, t),
           OffsetOf(ix, s, t, k) \in Nat, OffsetOf(ix, s, t, k) < ix[k].duration,
           NEW q, q = start[k] + OffsetOf(ix, s, t, k)
    PROVE  /\ k \in 1 .. Len(ix) /\ start[k] \in Nat /\ q \in Nat /\ q < start[k] + ix[k].duration
           /\ q \in 0 .. Len(fr) - 1 /\ TimecodeToPosition(fr[q + 1]) = t
           /\ q > s.position \/ (q = s.position /\ (s.beforeStart \/ ix[s.elementNum].frozen))
           /\ \A p \in Nat : /\ start[k] <= p /\ s.position <= p /\ t = TimecodePosIn(ix[k], p - start[k])
                             => q <= p
<1> DEFINE e == s.elementNum
           o == OffsetOf(ix, s, t, k)
<1>1. /\ e \in 1 .. Len(ix) /\ s.elementOffset \in Nat /\ s.position \in Nat
      /\ s.position = start[e] + s.elementOffset /\ Len(ix) \in Nat /\ s.beforeStart \in BOOLEAN
      /\ Starts(ix, start)
  BY DEF At, Searchers, Told
<1>2. k \in e .. Len(ix) /\ k \in 1 .. Len(ix) /\ (Counted(ix, s, t, k) \/ Frozen(ix, t, k))
  BY <1>1 DEF Hits
<1>3. /\ start[k] \in Nat /\ OffsetIn(s, k) \in Nat
      /\ k # e => OffsetIn(s, k) = 0 /\ s.position < start[k]
  BY <1>1, <1>2, StartsAt
<1>4. /\ ix[k].duration \in Nat /\ ix[k].timecodePos \in Nat /\ ix[k].frozen \in BOOLEAN
  BY <1>2, ElementOf
<1>5. q = start[k] + o /\ o \in Nat /\ o < ix[k].duration
  OBVIOUS
<1>6. q \in Nat /\ q < start[k] + ix[k].duration
  <2> DEFINE x == start[k]
             y == ix[k].duration
  <2>1. x \in Nat /\ y \in Nat /\ q = x + o /\ o \in Nat /\ o < y
    BY <1>3, <1>4, <1>5
  <2> HIDE DEF x, y, o
  <2>2. q \in Nat /\ q < x + y
    BY <2>1
  <2>3. QED
    BY <2>2 DEF x, y
<1>7. /\ TimecodePosIn(ix[k], o) = t
      /\ q > s.position \/ (q = s.position /\ (s.beforeStart \/ ix[e].frozen))
      /\ \A p \in Nat : /\ start[k] <= p /\ s.position <= p /\ t = TimecodePosIn(ix[k], p - start[k])
                        => q <= p
  <2>1. CASE Counted(ix, s, t, k)
    <3>1. /\ o = t - ix[k].timecodePos /\ t >= ix[k].timecodePos + OffsetIn(s, k)
          /\ k > e \/ s.beforeStart \/ t > ix[k].timecodePos + OffsetIn(s, k)
          /\ t < ix[k].timecodePos + ix[k].duration
      BY <2>1 DEF OffsetOf, Counted, IsNext, Here
    <3> HIDE DEF o
    <3>2. ix[k].frozen => t = ix[k].timecodePos
      <4>1. ~(ix[k].frozen /\ ix[k].timecodePos < t /\ t < ix[k].timecodePos + ix[k].duration)
        BY <1>2 DEF FrozenBefore
      <4>2. QED
        BY <4>1, <3>1, <1>3, <1>4
    <3>3. TimecodePosIn(ix[k], o) = t
      <4>1. ix[k].timecodePos + o = t
        BY <3>1, <1>4
      <4>2. QED
        BY <3>2, <4>1 DEF TimecodePosIn
    <3>4. q > s.position \/ (q = s.position /\ s.beforeStart)
      <4>1. CASE k = e
        <5>1. OffsetIn(s, k) = s.elementOffset
          BY <4>1 DEF OffsetIn, e
        <5>2. q >= s.position /\ (t > ix[k].timecodePos + OffsetIn(s, k) => q > s.position)
          <6> DEFINE S == start[k]
                     T == ix[k].timecodePos
                     n == OffsetIn(s, k)
          <6>1. S \in Nat /\ T \in Nat /\ n \in Nat /\ o = t - T /\ t >= T + n /\ q = S + o /\ s.position = S + n
            BY <5>1, <3>1, <4>1, <1>1, <1>3, <1>4, <1>5
          <6> HIDE DEF S, T
          <6>2. S + o >= S + n /\ (t > T + n => S + o > S + n)
            <7> HIDE DEF n
            <7>1. QED
              BY <6>1, <1>5, SumsBack
          <6>3. QED
            BY <6>1, <6>2 DEF T
        <5>3. s.beforeStart \/ q > s.position
          BY <5>2, <3>1, <4>1, <1>1
        <5>4. QED
          BY <5>2, <5>3, <1>1, <1>6
      <4>2. CASE k # e
        <5>1. s.position < start[k]
          BY <4>2, <1>3
        <5>2. QED
          BY <5>1, <1>1, <1>3, <1>5
      <4>3. QED
        BY <4>1, <4>2
    <3>5. ASSUME NEW p \in Nat, start[k] <= p, t = TimecodePosIn(ix[k], p - start[k])
          PROVE  q <= p
      <4>1. CASE ix[k].frozen
        <5>1. o = 0
          BY <4>1, <3>1, <3>2, <1>4
        <5>2. QED
          BY <5>1, <3>5, <1>3, <1>5
      <4>2. CASE ~ix[k].frozen
        <5>1. t = ix[k].timecodePos + (p - start[k])
          BY <4>2, <3>5 DEF TimecodePosIn
        <5> DEFINE S == start[k]
                   T == ix[k].timecodePos
        <5>2. S \in Nat /\ T \in Nat /\ t = T + (p - S) /\ o = t - T /\ q = S + o
          BY <5>1, <3>1, <1>3, <1>4, <1>5
        <5> HIDE DEF S, T
        <5>3. QED
          BY <5>2, <1>5, <3>5, Sums
      <4>3. QED
        BY <4>1, <4>2
    <3>6. QED
      BY <3>3, <3>4, <3>5
  <2>2. CASE ~Counted(ix, s, t, k)
    <3>1. o = OffsetIn(s, k) /\ ix[k].frozen /\ t = ix[k].timecodePos
      BY <2>2, <1>2 DEF OffsetOf, Frozen
    <3>2. TimecodePosIn(ix[k], o) = t
      BY <3>1 DEF TimecodePosIn
    <3> HIDE DEF o
    <3>3. CASE k = e
      <4>1. OffsetIn(s, k) = s.elementOffset
        BY <3>3 DEF OffsetIn, e
      <4>2. q = s.position
        BY <3>1, <3>3, <4>1, <1>1, <1>5
      <4>3. QED
        BY <3>1, <3>2, <3>3, <4>2
    <3>4. CASE k # e
      <4>1. q = start[k] /\ s.position < q
        BY <3>1, <3>4, <1>3, <1>5
      <4>2. QED
        BY <3>2, <4>1, <1>1, <1>6
    <3>5. QED
      BY <3>3, <3>4
  <2>3. QED
    BY <2>1, <2>2
<1>8. q \in 0 .. Len(fr) - 1 /\ TimecodeToPosition(fr[q + 1]) = t
  <2>1. q \in 0 .. Len(fr) - 1 /\ TimecodeToPosition(fr[q + 1]) = TimecodePosIn(ix[k], o)
    <3> HIDE DEF o
    <3>1. QED
      BY <1>2, <1>5, TellsFrame
  <2>2. QED
    BY <2>1, <1>7
<1>9. QED
  BY <1>2, <1>3, <1>6, <1>7, <1>8

(* What a search returns, of the frames with the time code ahead.          *)
AheadIn(ix, fr, s, tc) ==
    {p \in 0 .. Len(fr) - 1 : /\ fr[p + 1] = tc
                              /\ p > s.position \/ (p = s.position /\ (s.beforeStart \/ ix[s.elementNum].frozen))}

Nearest(r, S) ==
    /\ r.ok /\ r.searcher.beforeStart = FALSE
    /\ r.searcher.position \in S
    /\ \A p \in S : r.searcher.position <= p

LEMMA NextIn ==
    ASSUME NEW ix \in Seq(Elements), ix # <<>>, NEW T, NEW fr \in Seq(T), NEW start, Told(ix, fr, start),
           TellsRight(ix, fr, start), NEW s, At(ix, start, s),
           NEW tc \in T, TimecodeToPosition(tc) \in Nat, ~FrozenBefore(ix, TimecodeToPosition(tc)),
           \A a, b \in T : TimecodeToPosition(a) = TimecodeToPosition(b) => a = b,
           NEW r, r = FindPosition(ix, s, tc)
    PROVE  IF AheadIn(ix, fr, s, tc) = {} THEN ~r.ok ELSE Nearest(r, AheadIn(ix, fr, s, tc))
<1> DEFINE t == TimecodeToPosition(tc)
           A == AheadIn(ix, fr, s, tc)
           K == Hits(ix, s, t)
<1>1. Starts(ix, start) /\ Len(fr) \in Nat /\ t \in Nat /\ ~FrozenBefore(ix, t)
  BY DEF Told
<1>2. (Hits(ix, s, t) = {} /\ r = Failed(s)) \/ Lands(ix, start, s, t, r)
  <2>1. t = TimecodeToPosition(tc) /\ TimecodeToPosition(tc) \in Nat
    OBVIOUS
  <2> HIDE DEF t
  <2>2. QED
    BY <1>1, <2>1, FindPositionIs
<1>3. ASSUME NEW p \in A
      PROVE  /\ p \in Nat /\ s.position <= p
             /\ \E k \in K : /\ start[k] \in Nat /\ start[k] <= p /\ p < start[k] + ix[k].duration
                             /\ t = TimecodePosIn(ix[k], p - start[k])
  <2>1. /\ p \in 0 .. Len(fr) - 1 /\ t = TimecodeToPosition(fr[p + 1])
        /\ p > s.position \/ (p = s.position /\ (s.beforeStart \/ ix[s.elementNum].frozen))
    BY DEF AheadIn
  <2> HIDE DEF t, A
  <2>2. \E k \in K : /\ start[k] \in Nat /\ start[k] <= p /\ p < start[k] + ix[k].duration
                     /\ t = TimecodePosIn(ix[k], p - start[k])
    BY <1>1, <2>1, AheadIsHit
  <2>3. s.position \in Nat
    BY DEF At, Searchers
  <2>4. p \in Nat /\ s.position <= p
    BY <1>1, <2>1, <2>3
  <2>5. QED
    BY <2>2, <2>4
<1>4. CASE K = {} /\ r = Failed(s)
  <2>1. A = {}
    BY <1>3, <1>4
  <2>2. r.ok = FALSE
    BY <1>4 DEF Failed
  <2>3. QED
    BY <2>1, <2>2
<1>5. ASSUME NEW k \in K, \A j \in K : k <= j, r.ok = TRUE,
             OffsetOf(ix, s, t, k) \in Nat, OffsetOf(ix, s, t, k) < ix[k].duration,
             NEW q, q = r.searcher.position, q = start[k] + OffsetOf(ix, s, t, k)
      PROVE  q \in A /\ \A p \in A : q <= p
  <2> HIDE DEF t, A
  <2>1. /\ k \in 1 .. Len(ix) /\ start[k] \in Nat /\ q \in Nat /\ q < start[k] + ix[k].duration
        /\ q \in 0 .. Len(fr) - 1 /\ TimecodeToPosition(fr[q + 1]) = t
        /\ q > s.position \/ (q = s.position /\ (s.beforeStart \/ ix[s.elementNum].frozen))
        /\ \A p \in Nat : /\ start[k] <= p /\ s.position <= p /\ t = TimecodePosIn(ix[k], p - start[k])
                          => q <= p
    <3>1. k \in Hits(ix, s, t) /\ t \in Nat /\ ~FrozenBefore(ix, t)
      BY <1>1
    <3>2. Told(ix, fr, start) /\ Len(fr) \in Nat /\ At(ix, start, s)
      BY <1>1
    <3> HIDE DEF K
    <3>3. QED
      BY <1>5, <3>1, <3>2, HitIsAhead, SMTT(20)
  <2>2. fr[q + 1] = tc
    <3>1. q + 1 \in 1 .. Len(fr)
      BY <2>1, <1>1
    <3>2. fr[q + 1] \in T
      BY <3>1
    <3>3. QED
      BY <2>1, <3>2 DEF t
  <2>3. q \in A
    BY <2>1, <2>2 DEF A, AheadIn
  <2>4. ASSUME NEW p \in A PROVE q <= p
    <3>1. p \in Nat /\ s.position <= p
      BY <1>3, <2>4
    <3>2. PICK j \in K : /\ start[j] \in Nat /\ start[j] <= p /\ p < start[j] + ix[j].duration
                         /\ t = TimecodePosIn(ix[j], p - start[j])
      BY <1>3, <2>4
    <3>3. k <= j /\ j \in 1 .. Len(ix)
      <4>1. s.elementNum \in 1 .. Len(ix)
        BY DEF At
      <4>2. QED
        BY <1>5, <3>2, <4>1 DEF K, Hits
    <3>4. CASE j = k
      BY <2>1, <3>1, <3>2, <3>4
    <3>5. CASE j # k
      <4>1. j \in k + 1 .. Len(ix) + 1
        BY <2>1, <3>3, <3>5
      <4>2. start[k] + ix[k].duration <= start[j]
        BY <1>1, <2>1, <4>1, StartsGrow
      <4>3. start[k] + ix[k].duration \in Nat
        BY <2>1, ElementOf
      <4> DEFINE x == start[k] + ix[k].duration
                 y == start[j]
      <4>4. q < x /\ x <= y /\ y <= p /\ x \in Nat /\ y \in Nat
        BY <2>1, <3>2, <4>2, <4>3, Zenon
      <4> HIDE DEF x, y
      <4>5. QED
        BY <2>1, <3>1, <4>4
    <3>6. QED
      BY <3>4, <3>5
  <2>5. QED
    BY <2>3, <2>4
<1>6. QED
  <2>1. CASE Lands(ix, start, s, t, r)
    <3> HIDE DEF t
    <3>0. PICK k \in K : /\ \A j \in K : k <= j
                         /\ OffsetOf(ix, s, t, k) \in Nat
                         /\ OffsetOf(ix, s, t, k) < ix[k].duration
                         /\ r.searcher.position = start[k] + OffsetOf(ix, s, t, k)
                         /\ r.ok = TRUE /\ r.searcher.beforeStart = FALSE
      BY <2>1 DEF Lands
    <3>1. r.searcher.position \in A /\ \A p \in A : r.searcher.position <= p
      BY <3>0, <1>5
    <3>2. QED
      BY <3>0, <3>1 DEF Nearest
  <2>2. QED
    BY <1>2, <1>4, <2>1

(* A search finds the next frame with the time code, and one whenever      *)
(* there is one, in a track where no frozen time code is resumed: provided *)
(* that no two time codes of a track are at one position, and that none    *)
(* that a frozen one would have reached is looked for.                     *)
THEOREM NextIsFound ==
    ASSUME TimecodesApart, "search_in_frozen" \notin Clients
    PROVE  TimecodeSpec => []FindsNext
<1>1. Inv => FindsNext
  <2> SUFFICES ASSUME Inv, phase = "idle", NEW tr \in Tracks, NEW tc \in TimecodesOf(tr), Searchable(index[tr], tc),
                      ~Resumed(tr), NEW r, r = FindPosition(index[tr], searcher[tr], tc)
               PROVE  IF index[tr] = <<>> \/ Ahead(tr, tc) = {} THEN ~r.ok
                      ELSE /\ r.ok
                           /\ r.searcher.position \in Ahead(tr, tc)
                           /\ \A p \in Ahead(tr, tc) : r.searcher.position <= p
    BY DEF FindsNext
  <2> DEFINE ix == index[tr]
             fr == frames[tr]
             s == searcher[tr]
  <2>1. /\ fr \in Seq(TimecodesOf(tr)) /\ ix \in Seq(Elements) /\ Tells(ix, fr) /\ InPlace(ix, s)
    BY DEF Inv
  <2>2. PICK start : Told(ix, fr, start)
    BY <2>1 DEF Tells
  <2>3. At(ix, start, s) /\ TellsRight(ix, fr, start)
    BY <2>1, <2>2, RightUnlessResumed DEF InPlace, Told
  <2>4. Ahead(tr, tc) = AheadIn(ix, fr, s, tc)
    BY Zenon DEF Ahead, AheadIn, Positions, FrameAt
  <2>5. TimecodeToPosition(tc) \in Nat /\ ~FrozenBefore(ix, TimecodeToPosition(tc))
    BY TimecodesTyped, PositionIsNat DEF Searchable
  <2>6. \A a, b \in TimecodesOf(tr) : TimecodeToPosition(a) = TimecodeToPosition(b) => a = b
    BY DEF TimecodesApart
  <2>7. r = FindPosition(ix, s, tc)
    OBVIOUS
  <2> HIDE DEF ix, fr, s
  <2>8. CASE ix = <<>>
    <3>1. r = Failed(s)
      BY <2>3, <2>7, <2>8 DEF At, FindPosition
    <3>2. QED
      BY <2>8, <3>1 DEF Failed, ix
  <2>9. CASE ix # <<>>
    <3>1. IF AheadIn(ix, fr, s, tc) = {} THEN ~r.ok ELSE Nearest(r, AheadIn(ix, fr, s, tc))
      BY <2>1, <2>2, <2>3, <2>5, <2>6, <2>7, <2>9, NextIn
    <3>2. QED
      BY <2>4, <2>9, <3>1 DEF ix, Nearest
  <2>10. QED
    BY <2>8, <2>9
<1>2. QED
  BY <1>1, Invariance, PTL
-----------------------------------------------------------------------------
(* The dual search.  No element repeats the time code that the one before  *)
(* it is frozen at; where no two frozen elements follow each other, a      *)
(* track that is behind stands at a frame with its time code, or has       *)
(* stepped out of the frozen element which that frame is in.               *)
Parted(ix) == \A k \in 1 .. Len(ix) - 1 : ix[k].frozen => ix[k + 1].timecodePos # ix[k].timecodePos
NoPairs(ix) == \A k \in 2 .. Len(ix) : ~(ix[k - 1].frozen /\ ix[k].frozen)

Stepped(ix, s, t, pos, there) ==
    /\ pos < s.position /\ s.position <= there
    /\ s.elementOffset = 0 /\ s.elementNum >= 2
    /\ ix[s.elementNum - 1].frozen /\ ix[s.elementNum - 1].timecodePos = t
Looks(ix, fr, s, tc, pos, there) ==
    /\ fr[pos + 1] = tc /\ ~s.beforeStart /\ ~FrozenBefore(ix, TimecodeToPosition(tc)) /\ NoPairs(ix)
    /\ s.position = pos \/ Stepped(ix, s, TimecodeToPosition(tc), pos, there)

LEMMA AddedParted ==
    ASSUME NEW ix \in Seq(Elements), NEW p \in Nat, Parted(ix), NEW jx, jx = Added(ix, p)
    PROVE  Parted(jx)
<1> DEFINE n == Len(ix)
<1>1. n \in Nat
  OBVIOUS
<1>2. CASE n = 0
  <2>1. jx = <<NewElement(p)>>
    BY <1>2 DEF Added
  <2>2. Len(jx) = 1
    BY <2>1
  <2>3. QED
    BY <2>2 DEF Parted
<1>3. CASE n # 0
  <2>1. n \in 1 .. n /\ ix[n] \in Elements
    BY <1>1, <1>3
  <2>2. ASSUME NEW e, e.timecodePos = ix[n].timecodePos, jx = [ix EXCEPT ![n] = e]
        PROVE  Parted(jx)
    <3>1. /\ Len(jx) = n /\ jx[n].timecodePos = ix[n].timecodePos
          /\ \A k \in 1 .. n : k # n => jx[k] = ix[k]
      BY <2>1, <2>2
    <3>2. ASSUME NEW k \in 1 .. n - 1, jx[k].frozen PROVE jx[k + 1].timecodePos # jx[k].timecodePos
      <4>1. k \in 1 .. n /\ k # n /\ k + 1 \in 1 .. n
        BY <1>1
      <4>2. jx[k] = ix[k] /\ jx[k + 1].timecodePos = ix[k + 1].timecodePos
        BY <3>1, <4>1
      <4>3. QED
        BY <3>2, <4>2 DEF Parted
    <3>3. QED
      BY <3>1, <3>2 DEF Parted
  <2>3. CASE Continues(ix[n], p)
    <3> DEFINE e == [ix[n] EXCEPT !.duration = @ + 1]
    <3>1. e.timecodePos = ix[n].timecodePos
      BY <2>1 DEF Elements
    <3>2. jx = [ix EXCEPT ![n] = e]
      BY <1>3, <2>3 DEF Added
    <3> HIDE DEF e
    <3>3. QED
      BY <2>2, <3>1, <3>2
  <2>4. CASE ~Continues(ix[n], p) /\ Freezes(ix[n], p)
    <3> DEFINE e == [ix[n] EXCEPT !.duration = @ + 1, !.frozen = TRUE]
    <3>1. e.timecodePos = ix[n].timecodePos
      BY <2>1 DEF Elements
    <3>2. jx = [ix EXCEPT ![n] = e]
      BY <1>3, <2>1, <2>4 DEF Added
    <3> HIDE DEF e
    <3>3. QED
      BY <2>2, <3>1, <3>2
  <2>5. CASE ~Continues(ix[n], p) /\ ~Freezes(ix[n], p)
    <3>1. jx = Append(ix, NewElement(p)) /\ NewElement(p).timecodePos = p
      BY <1>3, <2>5 DEF Added, NewElement
    <3>2. /\ Len(jx) = n + 1 /\ jx[n + 1].timecodePos = p
          /\ \A k \in 1 .. n : jx[k] = ix[k]
      BY <3>1
    <3>3. ix[n].frozen => p # ix[n].timecodePos
      BY <2>5 DEF Freezes
    <3>4. ASSUME NEW k \in 1 .. n, jx[k].frozen PROVE jx[k + 1].timecodePos # jx[k].timecodePos
      <4>1. CASE k = n
        BY <3>2, <3>3, <3>4, <4>1
      <4>2. CASE k # n
        <5>1. k \in 1 .. n - 1 /\ k + 1 \in 1 .. n
          BY <1>1, <4>2
        <5>2. QED
          BY <3>2, <3>4, <5>1 DEF Parted
      <4>3. QED
        BY <4>1, <4>2
    <3>5. (n + 1) - 1 = n
      BY <1>1
    <3>6. QED
      BY <3>2, <3>4, <3>5 DEF Parted
  <2>6. QED
    BY <2>3, <2>4, <2>5
<1>4. QED
  BY <1>2, <1>3

(* Two searchers at a position are in one element.                         *)
LEMMA OnePlace ==
    ASSUME NEW ix \in Seq(Elements), ix # <<>>, NEW start, Starts(ix, start),
           NEW s, At(ix, start, s), NEW u, At(ix, start, u), s.position = u.position
    PROVE  s.elementNum = u.elementNum
<1> DEFINE d == s.elementNum
           e == u.elementNum
<1>1. /\ d \in 1 .. Len(ix) /\ e \in 1 .. Len(ix) /\ Len(ix) \in Nat
      /\ s.elementOffset \in Nat /\ u.elementOffset \in Nat
      /\ s.elementOffset < ix[d].duration /\ u.elementOffset < ix[e].duration
      /\ start[d] + s.elementOffset = start[e] + u.elementOffset
  BY DEF At, Searchers
<1>2. start[d] \in Nat /\ start[e] \in Nat /\ ix[d].duration \in Nat /\ ix[e].duration \in Nat
  <2>1. d \in 1 .. Len(ix) + 1 /\ e \in 1 .. Len(ix) + 1
    BY <1>1
  <2>2. QED
    BY <1>1, <2>1, ElementOf DEF Starts
<1>3. ~(start[d] + ix[d].duration <= start[e]) /\ ~(start[e] + ix[e].duration <= start[d])
  <2> DEFINE a == start[d]
             b == start[e]
             da == ix[d].duration
             db == ix[e].duration
             oa == s.elementOffset
             ob == u.elementOffset
  <2>1. /\ a \in Nat /\ b \in Nat /\ da \in Nat /\ db \in Nat /\ oa \in Nat /\ ob \in Nat
        /\ oa < da /\ ob < db /\ a + oa = b + ob
    BY <1>1, <1>2
  <2> HIDE DEF a, b, da, db, oa, ob
  <2>2. ~(a + da <= b) /\ ~(b + db <= a)
    BY <2>1
  <2>3. QED
    BY <2>2 DEF a, b, da, db
<1> HIDE DEF d, e
<1>4. ~(d < e)
  <2> SUFFICES ASSUME d < e PROVE FALSE
    OBVIOUS
  <2>1. e \in d + 1 .. Len(ix) + 1
    BY <1>1
  <2>2. start[d] + ix[d].duration <= start[e]
    BY <1>1, <2>1, StartsGrow
  <2>3. QED
    BY <1>3, <2>2
<1>5. ~(e < d)
  <2> SUFFICES ASSUME e < d PROVE FALSE
    OBVIOUS
  <2>1. d \in e + 1 .. Len(ix) + 1
    BY <1>1
  <2>2. start[e] + ix[e].duration <= start[d]
    BY <1>1, <2>1, StartsGrow
  <2>3. QED
    BY <1>3, <2>2
<1>6. QED
  BY <1>1, <1>4, <1>5 DEF d, e

(* What a track that is behind can find: where it stands it has its time   *)
(* code, and where it has stepped to it has another.                       *)
LEMMA Standing ==
    ASSUME NEW ix \in Seq(Elements), ix # <<>>, NEW T, NEW fr \in Seq(T), NEW start, Told(ix, fr, start),
           TellsRight(ix, fr, start), NEW s, At(ix, start, s)
    PROVE  /\ s.position \in 0 .. Len(fr) - 1
           /\ TimecodeToPosition(fr[s.position + 1]) = TimecodePosIn(ix[s.elementNum], s.elementOffset)
<1>1. /\ s.elementNum \in 1 .. Len(ix) /\ s.elementOffset \in Nat /\ s.elementOffset < ix[s.elementNum].duration
      /\ s.position = start[s.elementNum] + s.elementOffset
  BY DEF At, Searchers
<1>2. Len(fr) \in Nat
  OBVIOUS
<1>3. QED
  BY <1>1, <1>2, TellsFrame

LEMMA AheadOfLook ==
    ASSUME NEW ix \in Seq(Elements), ix # <<>>, NEW T, NEW fr \in Seq(T), NEW start, Told(ix, fr, start),
           TellsRight(ix, fr, start), NEW s, At(ix, start, s), Parted(ix),
           NEW tc \in T, NEW pos \in Nat, NEW there \in Nat, pos < there,
           Looks(ix, fr, s, tc, pos, there),
           NEW p \in 0 .. Len(fr) - 1, there <= p, fr[p + 1] = tc
    PROVE  p \in AheadIn(ix, fr, s, tc)
<1>1. Len(fr) \in Nat /\ p \in Nat /\ s.position \in Nat /\ s.elementNum \in 1 .. Len(ix)
  BY DEF At, Searchers
<1>2. p > s.position
  <2>1. CASE s.position = pos
    BY <1>1, <2>1
  <2>2. CASE Stepped(ix, s, TimecodeToPosition(tc), pos, there)
    <3> DEFINE k == s.elementNum - 1
    <3>1. /\ s.position <= there /\ s.elementOffset = 0 /\ s.elementNum >= 2
          /\ ix[k].frozen /\ ix[k].timecodePos = TimecodeToPosition(tc)
      BY <2>2 DEF Stepped
    <3>2. k \in 1 .. Len(ix) - 1 /\ k + 1 = s.elementNum
      <4> DEFINE e == s.elementNum
      <4>1. e \in 1 .. Len(ix) /\ Len(ix) \in Nat /\ e >= 2
        BY <1>1, <3>1
      <4> HIDE DEF e
      <4>2. e - 1 \in 1 .. Len(ix) - 1 /\ (e - 1) + 1 = e
        BY <4>1
      <4>3. QED
        BY <4>2 DEF e
    <3> HIDE DEF k
    <3>3. ix[s.elementNum].timecodePos # TimecodeToPosition(tc)
      BY <3>1, <3>2 DEF Parted
    <3>4. ix[s.elementNum].timecodePos \in Nat
      BY <1>1, ElementOf
    <3>5. TimecodeToPosition(fr[s.position + 1]) = ix[s.elementNum].timecodePos
      <4>1. TimecodeToPosition(fr[s.position + 1]) = TimecodePosIn(ix[s.elementNum], 0)
        BY <3>1, Standing
      <4>2. QED
        BY <3>4, <4>1 DEF TimecodePosIn
    <3>6. p # s.position
      BY <3>3, <3>5
    <3>7. QED
      BY <1>1, <3>1, <3>6
  <2>3. QED
    BY <2>1, <2>2 DEF Looks
<1>3. QED
  BY <1>2 DEF AheadIn

(* It catches up within a frozen element.                                  *)
LEMMA FrozenCatchesUp ==
    ASSUME NEW ix \in Seq(Elements), ix # <<>>, NEW T, NEW fr \in Seq(T), NEW start, Told(ix, fr, start),
           TellsRight(ix, fr, start), NEW s, At(ix, start, s),
           \A a, b \in T : TimecodeToPosition(a) = TimecodeToPosition(b) => a = b,
           NEW tc \in T, NEW pos \in Nat, NEW there \in Nat, pos < there,
           Looks(ix, fr, s, tc, pos, there),
           NEW r, r = FindFrozen(ix, s, there - pos), r.ok
    PROVE  there \in 0 .. Len(fr) - 1 /\ r.searcher.position = there /\ Looks(ix, fr, r.searcher, tc, there, there)
<1> DEFINE e == s.elementNum
           o == there - pos
           u == [s EXCEPT !.elementOffset = @ + o, !.position = @ + o]
<1>1. /\ s \in Searchers /\ e \in 1 .. Len(ix) /\ s.position \in Nat /\ s.elementOffset \in Nat
      /\ s.position = start[e] + s.elementOffset
  BY DEF At, Searchers
<1>2. o \in Nat /\ Len(fr) \in Nat
  OBVIOUS
<1>3. ix[e].frozen /\ s.elementOffset + o < ix[e].duration /\ r = Found(u)
  BY DEF FindFrozen, Failed
<1>4. ~Stepped(ix, s, TimecodeToPosition(tc), pos, there)
  <2> SUFFICES ASSUME Stepped(ix, s, TimecodeToPosition(tc), pos, there) PROVE FALSE
    OBVIOUS
  <2>1. e \in 2 .. Len(ix) /\ ix[e - 1].frozen
    BY <1>1 DEF Stepped
  <2>2. QED
    BY <1>3, <2>1 DEF Looks, NoPairs
<1>5. s.position = pos /\ fr[pos + 1] = tc /\ ~s.beforeStart /\ ~FrozenBefore(ix, TimecodeToPosition(tc)) /\ NoPairs(ix)
  BY <1>4 DEF Looks
<1>6. r.searcher = u /\ u.position = s.position + o /\ u.beforeStart = s.beforeStart
  BY <1>1, <1>3 DEF Found, Searchers
<1> HIDE DEF u
<1>7. u.position = there
  BY <1>1, <1>5, <1>6
<1>8. start[e] \in Nat
  <2>1. e \in 1 .. Len(ix) + 1
    BY <1>1
  <2>2. QED
    BY <2>1 DEF Told, Starts
<1>9. s.elementOffset + o \in Nat /\ there = start[e] + (s.elementOffset + o)
  <2> DEFINE x == start[e]
             y == s.elementOffset
  <2>1. x \in Nat /\ y \in Nat /\ pos = x + y
    BY <1>1, <1>5, <1>8
  <2> HIDE DEF x, y
  <2>2. y + o \in Nat /\ there = x + (y + o)
    BY <2>1
  <2>3. QED
    BY <2>2 DEF x, y
<1>10. there \in 0 .. Len(fr) - 1 /\ TimecodeToPosition(fr[there + 1]) = TimecodePosIn(ix[e], s.elementOffset + o)
  <2> DEFINE y == s.elementOffset + o
  <2>1. y \in Nat /\ y < ix[e].duration /\ there = start[e] + y
    BY <1>3, <1>9
  <2>k. e \in 1 .. Len(ix) /\ Len(fr) \in Nat
    BY <1>1
  <2> HIDE DEF y, e, o
  <2>2. there \in 0 .. Len(fr) - 1 /\ TimecodeToPosition(fr[there + 1]) = TimecodePosIn(ix[e], y)
    BY <2>1, <2>k, TellsFrame
  <2>3. QED
    BY <2>2 DEF y
<1>11. pos \in 0 .. Len(fr) - 1 /\ TimecodeToPosition(fr[pos + 1]) = TimecodePosIn(ix[e], s.elementOffset)
  BY <1>5, Standing
<1>12. TimecodeToPosition(fr[there + 1]) = TimecodeToPosition(tc)
  BY <1>3, <1>5, <1>10, <1>11 DEF TimecodePosIn
<1>13. fr[there + 1] = tc
  <2>1. there + 1 \in 1 .. Len(fr)
    BY <1>2, <1>10
  <2>2. fr[there + 1] \in T
    BY <2>1
  <2>3. QED
    BY <1>12, <2>2
<1>14. QED
  BY <1>5, <1>6, <1>7, <1>10, <1>13 DEF Looks

(* Where the frozen element that a track stands in ends, if it does not    *)
(* reach as far as the other track.                                        *)
LEMMA FrozenEnds ==
    ASSUME NEW ix \in Seq(Elements), ix # <<>>, NEW start, Starts(ix, start), NEW s, At(ix, start, s),
           NEW there \in Nat, s.position < there, ix[s.elementNum].frozen,
           ~FindFrozen(ix, s, there - s.position).ok
    PROVE  start[s.elementNum] + ix[s.elementNum].duration <= there
<1> DEFINE e == s.elementNum
           a == start[e]
           b == ix[e].duration
           c == s.elementOffset
           o == there - s.position
<1>1. ~s.atEnd /\ e \in 1 .. Len(ix) /\ c \in Nat /\ s.position = a + c
  BY DEF At, Searchers
<1>2. a \in Nat /\ b \in Nat
  <2>1. e \in 1 .. Len(ix) + 1
    BY <1>1
  <2>2. QED
    BY <1>1, <2>1, ElementOf DEF Starts
<1>3. ~(c + o < b)
  BY <1>1 DEF FindFrozen, Found
<1> HIDE DEF a, b, c
<1>4. a + b <= there
  BY <1>1, <1>2, <1>3
<1>5. QED
  BY <1>4 DEF a, b

LEMMA OneMore == \A n \in Nat : \A e \in 1 .. n : e < n => e + 1 \in 1 .. n /\ e + 1 \in e .. n /\ e + 1 # e
OBVIOUS

(* It catches up with a search; where that finds the same frame, the track *)
(* steps to the next element.  A search fails if no frame from the other   *)
(* track's on has the time code.                                           *)
CaughtUp(ix, fr, tc, there, next, moved) ==
    IF next.ok /\ moved.ok
    THEN /\ next.searcher.position \in 0 .. Len(fr) - 1
         /\ Looks(ix, fr, moved.searcher, tc, next.searcher.position, there)
         /\ \A p \in 0 .. Len(fr) - 1 : there <= p /\ fr[p + 1] = tc => next.searcher.position <= p
    ELSE \A p \in 0 .. Len(fr) - 1 : ~(there <= p /\ fr[p + 1] = tc)

LEMMA SearchCatchesUp ==
    ASSUME NEW ix \in Seq(Elements), ix # <<>>, NEW T, NEW fr \in Seq(T), NEW start, Told(ix, fr, start),
           TellsRight(ix, fr, start), NEW s, At(ix, start, s), Parted(ix),
           \A a, b \in T : TimecodeToPosition(a) = TimecodeToPosition(b) => a = b,
           NEW tc \in T, TimecodeToPosition(tc) \in Nat,
           NEW pos \in Nat, NEW there \in Nat, pos < there, Looks(ix, fr, s, tc, pos, there),
           ~FindFrozen(ix, s, there - pos).ok,
           NEW next, next = FindPosition(ix, s, tc),
           NEW moved, moved = IF next.searcher.position = pos THEN NextElement(ix, next.searcher) ELSE next
    PROVE  CaughtUp(ix, fr, tc, there, next, moved)
<1> DEFINE A == AheadIn(ix, fr, s, tc)
           u == next.searcher
           q == u.position
           t == TimecodeToPosition(tc)
<1>1. /\ Starts(ix, start) /\ start[Len(ix) + 1] = Len(fr) /\ Len(fr) \in Nat
      /\ s.position \in Nat /\ s.elementNum \in 1 .. Len(ix) /\ s.elementOffset \in Nat
  BY DEF Told, At, Searchers
<1>2. ~s.beforeStart /\ ~FrozenBefore(ix, t) /\ NoPairs(ix) /\ fr[pos + 1] = tc
  BY DEF Looks
<1>3. \A p \in 0 .. Len(fr) - 1 : there <= p /\ fr[p + 1] = tc => p \in A
  BY AheadOfLook
<1>4. IF A = {} THEN ~next.ok ELSE Nearest(next, A)
  BY <1>2, NextIn
<1>5. At(ix, start, u)
  BY <1>1, FindPositionKeeps
<1>6. CASE A = {}
  BY <1>3, <1>4, <1>6 DEF CaughtUp
<1>7. CASE A # {}
  <2>1. /\ next.ok /\ u.beforeStart = FALSE /\ q \in A /\ \A p \in A : q <= p
    BY <1>4, <1>7 DEF Nearest
  <2>2. /\ q \in 0 .. Len(fr) - 1 /\ fr[q + 1] = tc
        /\ q > s.position \/ (q = s.position /\ ix[s.elementNum].frozen)
    BY <2>1, <1>2 DEF AheadIn
  <2>3. \A p \in 0 .. Len(fr) - 1 : there <= p /\ fr[p + 1] = tc => q <= p
    BY <2>1, <1>3
  <2>4. CASE q # pos
    <3>1. moved = next
      BY <2>4
    <3>2. Looks(ix, fr, u, tc, q, there)
      BY <2>1, <2>2, <1>2 DEF Looks
    <3>3. QED
      BY <3>1, <3>2, <2>1, <2>2, <2>3 DEF CaughtUp
  <2>5. CASE q = pos
    <3> DEFINE e == u.elementNum
               w == [u EXCEPT !.elementNum = @ + 1, !.elementOffset = 0, !.position = PositionAt(ix, u, e + 1)]
    <3>1. moved = NextElement(ix, u)
      BY <2>5
    <3>2. s.position = pos
      <4>1. ~Stepped(ix, s, t, pos, there)
        BY <2>2, <2>5, <1>1 DEF Stepped
      <4>2. QED
        BY <4>1 DEF Looks
    <3>3. ix[s.elementNum].frozen /\ q = s.position
      BY <2>2, <2>5, <3>2, <1>1
    <3>4. e = s.elementNum
      BY <3>3, <1>1, <1>5, OnePlace
    <3>5. start[e] + ix[e].duration <= there
      BY <3>2, <3>3, <3>4, <1>1, FrozenEnds
    <3>6. ix[e].timecodePos = t
      <4>1. TimecodeToPosition(fr[s.position + 1]) = TimecodePosIn(ix[s.elementNum], s.elementOffset)
        BY Standing
      <4>2. QED
        BY <4>1, <3>2, <3>3, <3>4, <1>2 DEF TimecodePosIn
    <3>7. /\ u \in Searchers /\ ~u.atEnd /\ e \in 1 .. Len(ix) /\ Len(ix) \in Nat
          /\ q = start[e] + u.elementOffset /\ u.elementOffset \in Nat /\ u.elementOffset < ix[e].duration
      BY <1>5 DEF At, Searchers
    <3>8. start[e] \in Nat /\ ix[e].duration \in Nat /\ start[e + 1] = start[e] + ix[e].duration
      <4>1. e \in 1 .. Len(ix) + 1
        BY <3>7
      <4>2. QED
        BY <3>7, <4>1, <1>1, ElementOf DEF Starts
    <3> HIDE DEF e
    <3>9. CASE e < Len(ix)
      <4>1. moved = Found(w)
        BY <3>1, <3>7, <3>9 DEF NextElement, e
      <4>2. e + 1 \in 1 .. Len(ix) /\ e + 1 \in e .. Len(ix) /\ e + 1 # e
        <5> DEFINE n == Len(ix)
        <5>1. e \in 1 .. n /\ n \in Nat /\ e < n
          BY <3>7, <3>9, Zenon
        <5> HIDE DEF n
        <5>2. e + 1 \in 1 .. n /\ e + 1 \in e .. n /\ e + 1 # e
          BY <5>1, OneMore, Zenon
        <5>3. QED
          BY <5>2, Zenon DEF n
      <4>3. PositionAt(ix, u, e + 1) = start[e + 1]
        <5>1. PositionAt(ix, u, e + 1) = start[e + 1] + OffsetIn(u, e + 1) /\ start[e + 1] \in Nat
          <6> DEFINE k == e + 1
          <6>1. k \in u.elementNum .. Len(ix) /\ Starts(ix, start) /\ At(ix, start, u)
            BY <4>2, <1>1, <1>5, Zenon DEF e
          <6> HIDE DEF k
          <6>2. PositionAt(ix, u, k) = start[k] + OffsetIn(u, k) /\ start[k] \in Nat
            BY <6>1, StartsAt
          <6>3. QED
            BY <6>2, Zenon DEF k
        <5>2. OffsetIn(u, e + 1) = 0
          BY <4>2, Zenon DEF OffsetIn, e
        <5> DEFINE y == start[e + 1]
        <5>3. PositionAt(ix, u, e + 1) = y + 0 /\ y \in Nat
          BY <5>1, <5>2, Zenon
        <5> HIDE DEF y
        <5>4. PositionAt(ix, u, e + 1) = y
          BY <5>3
        <5>5. QED
          BY <5>4 DEF y
      <4>4. /\ w.elementNum = e + 1 /\ w.elementOffset = 0 /\ w.position = PositionAt(ix, u, e + 1)
            /\ w.beforeStart = u.beforeStart
        BY <3>7 DEF Searchers, e
      <4> HIDE DEF w
      <4>5. Stepped(ix, w, t, q, there)
        <5>1. w.position = start[e] + ix[e].duration
          BY <4>3, <4>4, <3>8
        <5>2. q < w.position /\ w.position <= there
          <6> DEFINE a == start[e]
                     b == ix[e].duration
                     c == u.elementOffset
          <6>1. a \in Nat /\ b \in Nat /\ c \in Nat /\ q = a + c /\ c < b /\ w.position = a + b /\ a + b <= there
            BY <5>1, <3>5, <3>7, <3>8
          <6> HIDE DEF a, b, c
          <6>2. QED
            BY <6>1
        <5>3. w.elementNum >= 2 /\ w.elementNum - 1 = e
          BY <4>4, <3>7
        <5>4. ix[w.elementNum - 1].frozen /\ ix[w.elementNum - 1].timecodePos = t
          BY <5>3, <3>3, <3>4, <3>6
        <5>5. QED
          BY <5>2, <5>3, <5>4, <4>4 DEF Stepped
      <4>6. ~w.beforeStart
        BY <4>4, <2>1
      <4>7. Looks(ix, fr, w, tc, q, there)
        BY <4>5, <4>6, <2>2, <1>2 DEF Looks
      <4>8. moved.ok /\ moved.searcher = w
        BY <4>1 DEF Found
      <4>9. QED
        BY <4>7, <4>8, <2>1, <2>2, <2>3 DEF CaughtUp
    <3>10. CASE ~(e < Len(ix))
      <4>1. e = Len(ix)
        BY <3>7, <3>10
      <4>2. Len(fr) <= there
        BY <4>1, <3>5, <3>8, <1>1
      <4>3. ~moved.ok
        BY <3>1, <3>10 DEF NextElement, Failed, e
      <4>4. \A p \in 0 .. Len(fr) - 1 : ~(there <= p)
        BY <4>2, <1>1
      <4>5. QED
        BY <4>3, <4>4 DEF CaughtUp
    <3>11. QED
      BY <3>9, <3>10
  <2>6. QED
    BY <2>4, <2>5
<1>8. QED
  BY <1>6, <1>7
-----------------------------------------------------------------------------
(* A dual search is on its way: no frame with both time codes that is      *)
(* ahead of where it started has been passed.                              *)
Stands(ix, fr, s, tc, pos, there) ==
    /\ pos \in 0 .. Len(fr) - 1
    /\ tc # Invalid => Looks(ix, fr, s, tc, pos, there)
    /\ s.position = pos \/ pos < there
Matching(p) == \A tr \in Tracks : p > dual.before[tr].position /\ FrameAt(tr, p) = dual.timecode[tr]
Looking ==
    /\ \A tr \in Tracks : Stands(index[tr], frames[tr], searcher[tr], dual.timecode[tr],
                                 dual.position[tr], dual.position[Other(tr)])
    /\ (\A tr \in Tracks : Wanted(tr, dual)) \/ dual.position["vitc"] = dual.position["ltc"]
    /\ \A p \in Positions("vitc") : Matching(p) => \A tr \in Tracks : dual.position[tr] <= p

DualInv ==
    /\ Len(frames["vitc"]) = Len(frames["ltc"])
    /\ \A tr \in Tracks : Parted(index[tr])
    /\ phase = "looking" /\ Steady(dual) => Looking

NoHazards == /\ TimecodesApart
             /\ "search_in_frozen" \notin Clients /\ "dual_in_frozen" \notin Clients

LEMMA Pair == "vitc" \in Tracks /\ "ltc" \in Tracks /\ Tracks = {"vitc", "ltc"} /\ Other("vitc") = "ltc" /\ Other("ltc") = "vitc"
BY DEF Other, Tracks

LEMMA LookFurtherIs ==
    ASSUME LookFurther
    PROVE  \E next, moved :
       LET ix     == index[Behind]
           there  == dual.position[Other(Behind)]
           frozen == FindFrozen(ix, searcher[Behind], there - dual.position[Behind])
       IN  /\ next = FindPosition(ix, searcher[Behind], dual.timecode[Behind])
           /\ moved = IF next.searcher.position = dual.position[Behind] THEN NextElement(ix, next.searcher) ELSE next
           /\ \/ frozen.ok /\ CatchUp(frozen.searcher, there)
              \/ ~frozen.ok /\ next.ok /\ moved.ok /\ CatchUp(moved.searcher, next.searcher.position)
              \/ ~frozen.ok /\ ~(next.ok /\ moved.ok) /\ GiveUp
<1> DEFINE ix     == index[Behind]
           there  == dual.position[Other(Behind)]
           frozen == FindFrozen(ix, searcher[Behind], there - dual.position[Behind])
           next   == FindPosition(ix, searcher[Behind], dual.timecode[Behind])
           moved  == IF FoundAgain(next) THEN NextElement(ix, next.searcher) ELSE next
<1>1. IF frozen.ok THEN CatchUp(frozen.searcher, there)
      ELSE IF next.ok /\ moved.ok THEN CatchUp(moved.searcher, next.searcher.position)
      ELSE GiveUp
  BY Zenon DEF LookFurther
<1>2. moved = IF next.searcher.position = dual.position[Behind] THEN NextElement(ix, next.searcher) ELSE next
  BY Zenon DEF FoundAgain
<1> HIDE DEF moved, next, frozen
<1>3. \/ frozen.ok /\ CatchUp(frozen.searcher, there)
      \/ ~frozen.ok /\ next.ok /\ moved.ok /\ CatchUp(moved.searcher, next.searcher.position)
      \/ ~frozen.ok /\ ~(next.ok /\ moved.ok) /\ GiveUp
  BY <1>1, Zenon
<1>4. next = FindPosition(ix, searcher[Behind], dual.timecode[Behind])
  BY DEF next
<1>5. WITNESS next, moved
<1>6. QED
  BY <1>2, <1>3, <1>4, Zenon DEF frozen

(* The track that is behind moves up, no further than the next frame with  *)
(* both time codes.                                                        *)
LEMMA MovesUp ==
    ASSUME Inv, DualInv, phase = "looking", Steady(dual), NEW b \in Tracks, dual.position[b] < dual.position[Other(b)],
           NEW u, u.position \in Nat, NEW q \in 0 .. Len(frames[b]) - 1,
           Looks(index[b], frames[b], u, dual.timecode[b], q, dual.position[Other(b)]) \/
           (u.position = q /\ Looks(index[b], frames[b], u, dual.timecode[b], q, q)),
           \A p \in 0 .. Len(frames[b]) - 1 :
              dual.position[Other(b)] <= p /\ FrameAt(b, p) = dual.timecode[b] => q <= p,
           UNCHANGED <<frames, index>>,
           searcher' = [searcher EXCEPT ![b] = u], dual' = [dual EXCEPT !.position[b] = q]
    PROVE  Looking'
<1> DEFINE o == Other(b)
           there == dual.position[o]
           pos == dual.position[b]
<1>1. /\ o \in Tracks /\ o # b /\ Other(o) = b /\ Tracks = {b, o} /\ there \in Nat /\ pos \in Nat
      /\ Len(frames[b]) \in Nat /\ q \in Nat
  <2>1. o \in Tracks /\ o # b /\ Other(o) = b /\ Tracks = {b, o}
    BY Pair
  <2>2. there \in Nat /\ pos \in Nat /\ frames[b] \in Seq(TimecodesOf(b))
    <3> HIDE DEF o
    <3>1. QED
      BY <2>1 DEF Inv
  <2>3. QED
    BY <2>1, <2>2
<1>2. /\ dual'.timecode = dual.timecode /\ dual'.before = dual.before
      /\ dual'.position[b] = q /\ dual'.position[o] = there
      /\ searcher'[b] = u /\ searcher'[o] = searcher[o]
      /\ frames' = frames /\ index' = index
  <2> HIDE DEF o
  <2>1. QED
    BY <1>1 DEF Inv
<1>3. /\ \A tr \in Tracks : Stands(index[tr], frames[tr], searcher[tr], dual.timecode[tr],
                                   dual.position[tr], dual.position[Other(tr)])
      /\ (\A tr \in Tracks : Wanted(tr, dual)) \/ dual.position["vitc"] = dual.position["ltc"]
      /\ \A p \in Positions("vitc") : Matching(p) => \A tr \in Tracks : dual.position[tr] <= p
  BY DEF DualInv, Looking
<1>4. dual.position["vitc"] # dual.position["ltc"]
  <2>1. pos # there
    BY <1>1
  <2>2. QED
    BY <2>1, Pair
<1>5. \A tr \in Tracks : Wanted(tr, dual)
  BY <1>3, <1>4
<1> HIDE DEF o, there, pos
<1>6. Looks(index[o], frames[o], searcher[o], dual.timecode[o], there, pos) /\ there \in 0 .. Len(frames[o]) - 1
  BY <1>1, <1>3, <1>5 DEF Stands, Wanted, there, pos
<1>7. searcher[o].position = there
  <2>1. searcher[o].position = there \/ there < pos
    BY <1>1, <1>3 DEF Stands, there, pos
  <2>2. QED
    BY <1>1, <2>1 DEF there, pos, o
<1>8. Stands(index[o], frames[o], searcher[o], dual.timecode[o], there, q)
  BY <1>6, <1>7 DEF Stands, Looks
<1>9. Stands(index[b], frames[b], u, dual.timecode[b], q, there)
  <2>1. CASE u.position = q /\ Looks(index[b], frames[b], u, dual.timecode[b], q, q)
    BY <2>1 DEF Stands, Looks
  <2>2. CASE Looks(index[b], frames[b], u, dual.timecode[b], q, there)
    <3>1. u.position = q \/ q < there
      <4>1. CASE Stepped(index[b], u, TimecodeToPosition(dual.timecode[b]), q, there)
        <5>1. q < u.position /\ u.position <= there
          BY <4>1 DEF Stepped
        <5>2. QED
          BY <5>1, <1>1
      <4>2. QED
        BY <2>2, <4>1 DEF Looks
    <3>2. QED
      BY <2>2, <3>1 DEF Stands
  <2>3. QED
    BY <2>1, <2>2 DEF there, o
<1>10. ASSUME NEW p \in Positions("vitc"), Matching(p) PROVE q <= p /\ there <= p
  <2>1. there <= p /\ FrameAt(b, p) = dual.timecode[b]
    BY <1>1, <1>3, <1>10 DEF Matching, there
  <2>2. p \in 0 .. Len(frames[b]) - 1
    BY Pair DEF DualInv, Positions
  <2>3. QED
    BY <2>1, <2>2 DEF there, o
<1>11. \A tr \in Tracks : Stands(index'[tr], frames'[tr], searcher'[tr], dual'.timecode[tr],
                                 dual'.position[tr], dual'.position[Other(tr)])
  BY <1>1, <1>2, <1>8, <1>9 DEF o
<1>12. \A tr \in Tracks : Wanted(tr, dual')
  BY <1>2, <1>5 DEF Wanted
<1>13. \A p \in Positions("vitc")' : Matching(p)' => \A tr \in Tracks : dual'.position[tr] <= p
  <2> SUFFICES ASSUME NEW p \in Positions("vitc")', Matching(p)', NEW tr \in Tracks PROVE dual'.position[tr] <= p
    OBVIOUS
  <2>1. p \in Positions("vitc") /\ Matching(p)
    BY <1>2 DEF Positions, Matching, FrameAt
  <2>2. QED
    BY <2>1, <1>1, <1>2, <1>10
<1>14. QED
  BY <1>11, <1>12, <1>13 DEF Looking

LEMMA LookingStep ==
    ASSUME NoHazards, Inv, DualInv, phase = "looking", Steady(dual), LookFurther
    PROVE  /\ phase' = "looking" => Looking'
           /\ phase' = "idle" => DualReturns
<1> DEFINE b == Behind
           o == Other(b)
           ix == index[b]
           fr == frames[b]
           s == searcher[b]
           tc == dual.timecode[b]
           pos == dual.position[b]
           there == dual.position[o]
           frozen == FindFrozen(ix, s, there - pos)
<1>1. /\ Looking /\ dual.position["vitc"] # dual.position["ltc"] /\ UNCHANGED <<frames, index>>
      /\ dual.position["vitc"] \in Nat /\ dual.position["ltc"] \in Nat
  BY Pair DEF DualInv, LookFurther, Inv
<1>2. b \in Tracks /\ o \in Tracks /\ pos \in Nat /\ there \in Nat /\ pos < there
  <2>1. CASE dual.position["vitc"] < dual.position["ltc"]
    <3>1. b = "vitc"
      BY <2>1 DEF Behind
    <3>2. QED
      BY <3>1, <1>1, <2>1, Pair
  <2>2. CASE ~(dual.position["vitc"] < dual.position["ltc"])
    <3>1. b = "ltc"
      BY <2>2 DEF Behind
    <3>2. QED
      BY <3>1, <1>1, <2>2, Pair
  <2>3. QED
    BY <2>1, <2>2
<1>3. PICK next, moved :
         /\ next = FindPosition(ix, s, tc)
         /\ moved = IF next.searcher.position = pos THEN NextElement(ix, next.searcher) ELSE next
         /\ \/ frozen.ok /\ CatchUp(frozen.searcher, there)
            \/ ~frozen.ok /\ next.ok /\ moved.ok /\ CatchUp(moved.searcher, next.searcher.position)
            \/ ~frozen.ok /\ ~(next.ok /\ moved.ok) /\ GiveUp
  BY LookFurtherIs
<1>4. \A u, q : CatchUp(u, q) => /\ searcher' = [searcher EXCEPT ![b] = u]
                                /\ dual' = [dual EXCEPT !.position[b] = q] /\ phase' = phase
  BY DEF CatchUp
<1> HIDE DEF b
<1>5. /\ ix \in Seq(Elements) /\ fr \in Seq(TimecodesOf(b)) /\ Tells(ix, fr) /\ InPlace(ix, s)
      /\ Parted(ix) /\ tc \in TimecodesOf(b) \cup {Invalid}
  BY <1>2 DEF Inv, DualInv
<1>6. PICK start : Told(ix, fr, start)
  BY <1>5 DEF Tells
<1>7. Starts(ix, start) /\ At(ix, start, s)
  BY <1>5, <1>6 DEF InPlace, Told
<1>8. Stands(ix, fr, s, tc, pos, there) /\ tc # Invalid
  <2>1. Stands(ix, fr, s, tc, pos, there)
    BY <1>1, <1>2 DEF Looking
  <2>2. Wanted(b, dual)
    BY <1>1, <1>2 DEF Looking
  <2>3. QED
    BY <2>1, <2>2 DEF Wanted
<1>9. pos \in 0 .. Len(fr) - 1 /\ Looks(ix, fr, s, tc, pos, there) /\ tc \in TimecodesOf(b)
  BY <1>5, <1>8 DEF Stands
<1>10. /\ \A x, y \in TimecodesOf(b) : TimecodeToPosition(x) = TimecodeToPosition(y) => x = y
       /\ TimecodeToPosition(tc) \in Nat /\ TellsRight(ix, fr, start)
  <2>1. ~Resumed(b)
    BY <1>2, <1>8 DEF Steady, Wanted
  <2>2. TellsRight(ix, fr, start)
    BY <1>2, <1>6, <2>1, RightUnlessResumed
  <2>3. QED
    BY <1>2, <1>9, <2>2, TimecodesTyped, PositionIsNat DEF NoHazards, TimecodesApart
<1>11. ix # <<>>
  <2>1. Len(fr) # 0
    BY <1>5, <1>9
  <2>2. start[Len(ix) + 1] = Len(fr) /\ start[1] = 0
    BY <1>6 DEF Told, Starts
  <2>3. QED
    BY <2>1, <2>2
<1>12. Positions("vitc") = 0 .. Len(fr) - 1
  BY <1>2, Pair DEF DualInv, Positions
<1> HIDE DEF ix, fr, s, tc, pos, there
<1>13. CASE frozen.ok /\ CatchUp(frozen.searcher, there)
  <2>1. there \in 0 .. Len(fr) - 1 /\ frozen.searcher.position = there /\ Looks(ix, fr, frozen.searcher, tc, there, there)
    BY <1>2, <1>5, <1>6, <1>7, <1>9, <1>10, <1>11, <1>13, FrozenCatchesUp
  <2> DEFINE u == frozen.searcher
  <2>2. u.position \in Nat /\ u.position = there
    BY <1>2, <2>1
  <2>3. searcher' = [searcher EXCEPT ![b] = u] /\ dual' = [dual EXCEPT !.position[b] = there] /\ phase' = "looking"
    BY <1>4, <1>13
  <2> HIDE DEF u
  <2>4. Looks(ix, fr, u, tc, there, there)
    BY <2>1 DEF u
  <2>5. Looking'
    BY <1>1, <1>2, <2>1, <2>2, <2>3, <2>4, MovesUp DEF ix, fr, tc, pos, there
  <2>6. QED
    BY <2>3, <2>5
<1>14. CASE ~frozen.ok
  <2> DEFINE q == next.searcher.position
             u == moved.searcher
  <2>1. CaughtUp(ix, fr, tc, there, next, moved)
    BY <1>2, <1>3, <1>5, <1>6, <1>7, <1>9, <1>10, <1>11, <1>14, SearchCatchesUp
  <2>2. At(ix, start, u)
    <3>1. At(ix, start, next.searcher)
      BY <1>3, <1>5, <1>7, <1>10, FindPositionKeeps
    <3>2. At(ix, start, NextElement(ix, next.searcher).searcher)
      BY <3>1, <1>5, <1>7, NextElementKeeps
    <3>3. QED
      BY <3>1, <3>2, <1>3
  <2>3. u.position \in Nat
    BY <2>2 DEF At, Searchers
  <2>4. CASE next.ok /\ moved.ok /\ CatchUp(u, q)
    <3>1. /\ q \in 0 .. Len(fr) - 1 /\ Looks(ix, fr, u, tc, q, there)
          /\ \A p \in 0 .. Len(fr) - 1 : there <= p /\ fr[p + 1] = tc => q <= p
      BY <2>1, <2>4 DEF CaughtUp
    <3>2. searcher' = [searcher EXCEPT ![b] = u] /\ dual' = [dual EXCEPT !.position[b] = q] /\ phase' = "looking"
      BY <1>4, <2>4
    <3> HIDE DEF u, q
    <3>3. Looking'
      BY <1>1, <1>2, <2>3, <3>1, <3>2, MovesUp DEF ix, fr, tc, pos, there, FrameAt
    <3>4. QED
      BY <3>2, <3>3
  <2>5. CASE ~(next.ok /\ moved.ok) /\ GiveUp
    <3>1. \A p \in 0 .. Len(fr) - 1 : ~(there <= p /\ fr[p + 1] = tc)
      BY <2>1, <2>5 DEF CaughtUp
    <3>2. searcher' = dual.before /\ phase' = "idle"
      BY <2>5 DEF GiveUp, Restored
    <3>3. ASSUME NEW p \in Positions("vitc"), Matching(p) PROVE FALSE
      <4>1. there <= p
        BY <1>1, <1>2, <3>3 DEF Looking, there
      <4>2. fr[p + 1] = tc
        BY <1>2, <3>3 DEF Matching, FrameAt, fr, tc
      <4>3. QED
        BY <4>1, <4>2, <3>1, <1>12
    <3>4. ASSUME NEW p \in Positions("vitc")
          PROVE  \E tr \in Tracks : p <= dual.before[tr].position \/ FrameAt(tr, p) # dual.timecode[tr]
      <4>1. p \in Nat /\ \A tr \in Tracks : dual.before[tr].position \in Nat
        BY <1>12 DEF Inv, Searchers
      <4>2. ~Matching(p)
        BY <3>3
      <4>3. PICK tr \in Tracks : ~(p > dual.before[tr].position /\ FrameAt(tr, p) = dual.timecode[tr])
        BY <4>2 DEF Matching
      <4>4. QED
        BY <4>1, <4>3
    <3>5. QED
      BY <3>2, <3>4 DEF DualReturns
  <2>6. QED
    BY <1>3, <1>14, <2>4, <2>5
<1>15. QED
  BY <1>3, <1>13, <1>14

(* A dual search starts at the first frames ahead with the time codes.     *)
LEMMA LookingStart ==
    ASSUME NoHazards, Inv, DualInv,
           NEW vitc \in VITCs \cup {Invalid}, NEW ltc \in LTCs \cup {Invalid}, FindDual(vitc, ltc), Steady(dual)'
    PROVE  Looking'
<1> DEFINE tc == [vitc |-> vitc, ltc |-> ltc]
           found == [tr \in Tracks |-> FindPosition(index[tr], searcher[tr], tc[tr])]
           to == [tr \in Tracks |-> IF tc[tr] # Invalid THEN found[tr]
                                    ELSE Move(index[tr], searcher[tr], found[Other(tr)].searcher.position)]
<1>1. /\ UNCHANGED <<frames, index>> /\ phase = "idle" /\ (vitc # Invalid \/ ltc # Invalid)
      /\ \A tr \in Tracks : DualSearchable(tr, tc[tr]) /\ to[tr].ok
      /\ searcher' = [tr \in Tracks |-> to[tr].searcher]
      /\ dual' = [timecode |-> tc, before |-> searcher, position |-> [tr \in Tracks |-> to[tr].searcher.position]]
  <2>1. /\ found["vitc"] = FindPosition(index["vitc"], searcher["vitc"], vitc)
        /\ found["ltc"] = FindPosition(index["ltc"], searcher["ltc"], ltc)
    BY Pair
  <2>2. to = [vitc |-> IF vitc # Invalid THEN found["vitc"]
                       ELSE Move(index["vitc"], searcher["vitc"], found["ltc"].searcher.position),
              ltc  |-> IF ltc # Invalid THEN found["ltc"]
                       ELSE Move(index["ltc"], searcher["ltc"], found["vitc"].searcher.position)]
    BY Pair
  <2> DEFINE to2 == [vitc |-> IF vitc # Invalid THEN FindPosition(index["vitc"], searcher["vitc"], vitc)
                       ELSE Move(index["vitc"], searcher["vitc"], FindPosition(index["ltc"], searcher["ltc"], ltc).searcher.position),
              ltc  |-> IF ltc # Invalid THEN FindPosition(index["ltc"], searcher["ltc"], ltc)
                       ELSE Move(index["ltc"], searcher["ltc"], FindPosition(index["vitc"], searcher["vitc"], vitc).searcher.position)]
  <2>3. to = to2
    <3> HIDE DEF to, found
    <3>1. QED
      BY <2>1, <2>2
  <2>4. /\ UNCHANGED <<frames, index>> /\ phase = "idle" /\ (vitc # Invalid \/ ltc # Invalid)
        /\ DualSearchable("vitc", vitc) /\ DualSearchable("ltc", ltc) /\ to2["vitc"].ok /\ to2["ltc"].ok
        /\ searcher' = [tr \in Tracks |-> to2[tr].searcher]
        /\ dual' = [timecode |-> tc, before |-> searcher,
                    position |-> [tr \in Tracks |-> to2[tr].searcher.position]]
    BY Zenon DEF FindDual
  <2>5. tc["vitc"] = vitc /\ tc["ltc"] = ltc
    OBVIOUS
  <2> HIDE DEF to, to2, tc
  <2>6. QED
    BY <2>3, <2>4, <2>5, Pair
<1>2. \A tr \in Tracks : tc[tr] \in TimecodesOf(tr) \cup {Invalid}
  BY Pair DEF TimecodesOf
<1>3. tc["vitc"] # Invalid \/ tc["ltc"] # Invalid
  BY <1>1
<1>4. \A tr \in Tracks : /\ found[tr] = FindPosition(index[tr], searcher[tr], tc[tr])
                         /\ to[tr] = IF tc[tr] # Invalid THEN found[tr]
                                     ELSE Move(index[tr], searcher[tr], found[Other(tr)].searcher.position)
  OBVIOUS
<1> HIDE DEF tc, found, to
<1>5. ASSUME NEW tr \in Tracks, tc[tr] # Invalid
      PROVE  /\ Nearest(to[tr], AheadIn(index[tr], frames[tr], searcher[tr], tc[tr]))
             /\ ~FrozenBefore(index[tr], TimecodeToPosition(tc[tr])) /\ NoPairs(index[tr])
  <2>1. /\ index[tr] \in Seq(Elements) /\ frames[tr] \in Seq(TimecodesOf(tr)) /\ Tells(index[tr], frames[tr])
        /\ InPlace(index[tr], searcher[tr])
    BY <1>1 DEF Inv
  <2>2. PICK start : Told(index[tr], frames[tr], start)
    BY <2>1 DEF Tells
  <2>3. At(index[tr], start, searcher[tr])
    BY <2>1, <2>2 DEF InPlace, Told
  <2>4. tc[tr] \in TimecodesOf(tr) /\ TimecodeToPosition(tc[tr]) \in Nat
    BY <1>2, <1>5, TimecodesTyped, PositionIsNat
  <2>5. ~FrozenBefore(index[tr], TimecodeToPosition(tc[tr])) /\ NoPairs(index[tr])
    BY <1>1, <1>5 DEF DualSearchable, Searchable, NoHazards, NoPairs
  <2>6. to[tr] = FindPosition(index[tr], searcher[tr], tc[tr]) /\ to[tr].ok
    BY <1>1, <1>4, <1>5
  <2>7. index[tr] # <<>>
    <3> SUFFICES ASSUME index[tr] = <<>> PROVE FALSE
      OBVIOUS
    <3>1. searcher[tr].atEnd
      BY <2>3 DEF At
    <3>2. QED
      BY <3>1, <2>6 DEF FindPosition, Failed
  <2>8. \A x, y \in TimecodesOf(tr) : TimecodeToPosition(x) = TimecodeToPosition(y) => x = y
    BY DEF NoHazards, TimecodesApart
  <2> DEFINE A == AheadIn(index[tr], frames[tr], searcher[tr], tc[tr])
  <2>r. TellsRight(index[tr], frames[tr], start)
    <3>1. ~Resumed(tr)
      BY <1>1, <1>5 DEF Steady, Wanted, Resumed, Resumes, Positions, Time, FrameAt
    <3>2. QED
      BY <2>2, <3>1, RightUnlessResumed
  <2>9. IF A = {} THEN ~to[tr].ok ELSE Nearest(to[tr], A)
    BY <2>1, <2>2, <2>3, <2>4, <2>5, <2>6, <2>7, <2>8, <2>r, NextIn
  <2>10. QED
    BY <2>5, <2>6, <2>9
<1>6. ASSUME NEW tr \in Tracks, tc[tr] = Invalid
      PROVE  to[tr].searcher.position = to[Other(tr)].searcher.position
  <2>1. Other(tr) \in Tracks /\ tc[Other(tr)] # Invalid
    BY <1>3, <1>6, Pair
  <2>2. to[Other(tr)] = found[Other(tr)] /\ to[tr] = Move(index[tr], searcher[tr], found[Other(tr)].searcher.position)
    BY <1>4, <1>6, <2>1
  <2>3. Nearest(to[Other(tr)], AheadIn(index[Other(tr)], frames[Other(tr)], searcher[Other(tr)], tc[Other(tr)]))
    BY <1>5, <2>1
  <2>4. /\ index[tr] \in Seq(Elements) /\ Tells(index[tr], frames[tr]) /\ InPlace(index[tr], searcher[tr])
        /\ frames[Other(tr)] \in Seq(TimecodesOf(Other(tr)))
    BY <1>1, <2>1 DEF Inv
  <2>5. PICK start : Starts(index[tr], start) /\ At(index[tr], start, searcher[tr])
    BY <2>4 DEF Tells, Told, InPlace
  <2>6. found[Other(tr)].searcher.position \in Nat
    BY <2>2, <2>3, <2>4 DEF Nearest, AheadIn
  <2>7. to[tr].ok
    BY <1>1
  <2>8. to[tr].searcher.position = found[Other(tr)].searcher.position
    BY <2>2, <2>4, <2>5, <2>6, <2>7, MoveIs
  <2>9. QED
    BY <2>2, <2>8
<1> DEFINE pos == [tr \in Tracks |-> to[tr].searcher.position]
<1>7. \A tr \in Tracks : /\ searcher'[tr] = to[tr].searcher /\ dual'.position[tr] = to[tr].searcher.position
                         /\ dual'.timecode[tr] = tc[tr] /\ dual'.before[tr] = searcher[tr]
                         /\ index'[tr] = index[tr] /\ frames'[tr] = frames[tr]
  BY <1>1
<1>8. ASSUME NEW tr \in Tracks
      PROVE  /\ to[tr].searcher.position \in 0 .. Len(frames[tr]) - 1
             /\ tc[tr] # Invalid => Looks(index[tr], frames[tr], to[tr].searcher, tc[tr],
                                          to[tr].searcher.position, to[Other(tr)].searcher.position)
  <2>1. ASSUME NEW w \in Tracks, tc[w] # Invalid
        PROVE  /\ to[w].searcher.position \in 0 .. Len(frames[w]) - 1
               /\ frames[w][to[w].searcher.position + 1] = tc[w] /\ ~to[w].searcher.beforeStart
    BY <1>5, <2>1 DEF Nearest, AheadIn
  <2>2. CASE tc[tr] # Invalid
    BY <1>5, <2>1, <2>2 DEF Looks
  <2>3. CASE tc[tr] = Invalid
    <3>1. Other(tr) \in Tracks /\ tc[Other(tr)] # Invalid /\ Len(frames[tr]) = Len(frames[Other(tr)])
      BY <1>3, <2>3, Pair DEF DualInv
    <3>2. QED
      BY <1>6, <2>1, <2>3, <3>1
  <2>4. QED
    BY <2>2, <2>3
<1>9. \A tr \in Tracks : Stands(index'[tr], frames'[tr], searcher'[tr], dual'.timecode[tr],
                                dual'.position[tr], dual'.position[Other(tr)])
  BY <1>7, <1>8, Pair DEF Stands
<1>10. (\A tr \in Tracks : Wanted(tr, dual')) \/ dual'.position["vitc"] = dual'.position["ltc"]
  <2>1. CASE \A tr \in Tracks : tc[tr] # Invalid
    BY <1>7, <2>1 DEF Wanted
  <2>2. CASE \E tr \in Tracks : tc[tr] = Invalid
    BY <1>6, <1>7, <2>2, Pair
  <2>3. QED
    BY <2>1, <2>2
<1>11. ASSUME NEW p \in Positions("vitc"), \A tr \in Tracks : p > searcher[tr].position /\ FrameAt(tr, p) = tc[tr],
              NEW tr \in Tracks
       PROVE  to[tr].searcher.position <= p
  <2>1. ASSUME NEW w \in Tracks, tc[w] # Invalid PROVE to[w].searcher.position <= p
    <3>1. p \in 0 .. Len(frames[w]) - 1
      BY Pair DEF DualInv, Positions
    <3>2. p \in AheadIn(index[w], frames[w], searcher[w], tc[w])
      BY <1>11, <3>1 DEF AheadIn, FrameAt
    <3>3. QED
      BY <1>5, <2>1, <3>2 DEF Nearest
  <2>2. CASE tc[tr] = Invalid
    <3>1. Other(tr) \in Tracks /\ tc[Other(tr)] # Invalid
      BY <1>3, <2>2, Pair
    <3>2. QED
      BY <1>6, <2>1, <2>2, <3>1
  <2>3. QED
    BY <2>1, <2>2
<1>12. \A p \in Positions("vitc")' : Matching(p)' => \A tr \in Tracks : dual'.position[tr] <= p
  <2> SUFFICES ASSUME NEW p \in Positions("vitc")', Matching(p)', NEW tr \in Tracks PROVE dual'.position[tr] <= p
    OBVIOUS
  <2>1. p \in Positions("vitc")
    BY <1>1 DEF Positions
  <2>2. \A w \in Tracks : p > searcher[w].position /\ FrameAt(w, p) = tc[w]
    BY <1>7 DEF Matching, FrameAt
  <2>3. QED
    BY <2>1, <2>2, <1>7, <1>11
<1>13. QED
  BY <1>9, <1>10, <1>12 DEF Looking

LEMMA DualInit == TimecodeInit => DualInv
<1> SUFFICES ASSUME TimecodeInit PROVE DualInv
  OBVIOUS
<1>1. \A tr \in Tracks : frames[tr] = <<>> /\ index[tr] = <<>>
  BY DEF TimecodeInit
<1>2. Parted(<<>>)
  BY DEF Parted
<1>3. QED
  BY <1>1, <1>2, Pair DEF TimecodeInit, DualInv

LEMMA DualStep ==
    ASSUME NoHazards, Inv, DualInv, [NextTimecode]_timecodeVars
    PROVE  DualInv' /\ (phase = "looking" /\ phase' = "idle" /\ Steady(dual) => DualReturns)
<1>1. ASSUME NEW v \in VITCs, NEW l \in LTCs, AddFrame(v, l) PROVE DualInv' /\ phase # "looking"
  <2> DEFINE tc == [tr \in Tracks |-> IF tr = "vitc" THEN v ELSE l]
  <2>1. ASSUME NEW tr \in Tracks
        PROVE  /\ frames'[tr] = Append(frames[tr], tc[tr])
               /\ index'[tr] = Added(index[tr], TimecodeToPosition(tc[tr]))
    BY <1>1 DEF AddFrame
  <2>2. \A tr \in Tracks : tc[tr] \in TimecodesOf(tr)
    BY DEF TimecodesOf
  <2>3. phase = "adding" /\ phase' = "adding"
    BY <1>1 DEF AddFrame
  <2> HIDE DEF tc
  <2>4. ASSUME NEW tr \in Tracks PROVE Parted(index'[tr])
    <3>1. index[tr] \in Seq(Elements) /\ Parted(index[tr]) /\ TimecodeToPosition(tc[tr]) \in Nat
      BY <2>2, TimecodesTyped, PositionIsNat DEF Inv, DualInv
    <3>2. QED
      BY <2>1, <3>1, AddedParted
  <2>5. ASSUME NEW tr \in Tracks PROVE Len(frames'[tr]) = Len(frames[tr]) + 1
    <3>1. frames[tr] \in Seq(TimecodesOf(tr))
      BY DEF Inv
    <3>2. QED
      BY <2>1, <2>2, <3>1
  <2>6. Len(frames'["vitc"]) = Len(frames'["ltc"])
    BY <2>5, Pair DEF DualInv
  <2>7. QED
    BY <2>3, <2>4, <2>6 DEF DualInv
<1>2. CASE StartSearch
  BY <1>2 DEF StartSearch, DualInv
<1>3. ASSUME NEW tr \in Tracks, NEW tc \in TimecodesOf(tr), Find(tr, tc) PROVE DualInv' /\ phase # "looking"
  BY <1>3 DEF Find, DualInv
<1>4. ASSUME NEW tr \in Tracks, NEW p \in 0 .. MaxFrames, Go(tr, p) PROVE DualInv' /\ phase # "looking"
  BY <1>4 DEF Go, DualInv
<1>5. ASSUME NEW vitc \in VITCs \cup {Invalid}, NEW ltc \in LTCs \cup {Invalid}, FindDual(vitc, ltc)
      PROVE  DualInv' /\ phase # "looking"
  <2>1. UNCHANGED <<frames, index>> /\ phase = "idle"
    BY <1>5 DEF FindDual
  <2>2. Steady(dual)' => Looking'
    BY <1>5, LookingStart
  <2>3. QED
    BY <2>1, <2>2 DEF DualInv
<1>6. CASE DualFound
  <2>1. /\ UNCHANGED <<frames, index, searcher>> /\ phase = "looking" /\ phase' = "idle"
        /\ dual.position["vitc"] = dual.position["ltc"]
    BY <1>6 DEF DualFound
  <2>2. DualInv'
    BY <2>1 DEF DualInv
  <2> SUFFICES ASSUME Steady(dual) PROVE DualReturns
    BY <2>2
  <2>3. /\ \A tr \in Tracks : Stands(index[tr], frames[tr], searcher[tr], dual.timecode[tr],
                                     dual.position[tr], dual.position[Other(tr)])
    BY <2>1 DEF DualInv, Looking
  <2> DEFINE p == dual.position["vitc"]
  <2>4. p \in Positions("vitc")
    BY <2>3, Pair DEF Stands, Positions
  <2>5. ASSUME NEW tr \in Tracks
        PROVE  searcher'[tr].position = p /\ (Wanted(tr, dual) => FrameAt(tr, p) = dual.timecode[tr])
    <3>1. dual.position[tr] = p /\ dual.position[Other(tr)] = p /\ p \in Nat
      BY <2>1, Pair DEF Inv
    <3> HIDE DEF p
    <3>2. Stands(index[tr], frames[tr], searcher[tr], dual.timecode[tr], p, p)
      BY <2>3, <3>1
    <3>3. searcher[tr].position = p
      BY <3>1, <3>2 DEF Stands
    <3>4. Wanted(tr, dual) => FrameAt(tr, p) = dual.timecode[tr]
      BY <3>2 DEF Stands, Looks, Wanted, FrameAt
    <3>5. QED
      BY <2>1, <3>3, <3>4
  <2> HIDE DEF p
  <2>6. QED
    BY <2>4, <2>5 DEF DualReturns
<1>7. CASE LookFurther
  <2>1. phase = "looking" /\ UNCHANGED <<frames, index>>
    BY <1>7 DEF LookFurther
  <2>2. Steady(dual) => (phase' = "looking" => Looking') /\ (phase' = "idle" => DualReturns)
    BY <1>7, <2>1, LookingStep
  <2>3. phase' = "looking" /\ Steady(dual)' => Steady(dual)
    <3> SUFFICES ASSUME phase' = "looking", Steady(dual)' PROVE Steady(dual)
      OBVIOUS
    <3>1. dual'.timecode = dual.timecode
      BY <1>7, LookFurtherIs DEF CatchUp, GiveUp, Inv
    <3>2. QED
      BY <2>1, <3>1 DEF Steady, Wanted, Resumed, Resumes, Positions, Time, FrameAt
  <2>4. QED
    BY <2>1, <2>2, <2>3 DEF DualInv
<1>8. CASE UNCHANGED timecodeVars
  BY <1>8 DEF timecodeVars, DualInv, Looking, Matching, FrameAt, Positions, Wanted, Steady, Resumed, Resumes, Time
<1>9. ASSUME NextTimecode PROVE DualInv' /\ (phase = "looking" /\ phase' = "idle" /\ Steady(dual) => DualReturns)
  <2>1. Alone \subseteq Tracks
    BY TimecodeAssumption
  <2>2. CASE StartSearch
    <3>1. phase # "looking"
      BY <2>2 DEF StartSearch
    <3>2. QED
      BY <1>2, <2>2, <3>1
  <2>3. QED
    BY <1>1, <1>3, <1>4, <1>5, <1>6, <1>7, <1>9, <2>1, <2>2 DEF NextTimecode, TimecodeCall, SearchStep
<1>10. QED
  BY <1>8, <1>9 DEF timecodeVars

(* A dual search that succeeds leaves both searchers at one frame that has *)
(* the time codes; one that fails leaves them where they were, and fails   *)
(* only if there is no such frame ahead of both, where no frozen time code *)
(* is resumed in a track that is searched: provided that no two time codes *)
(* of a track are at one position, that none that a frozen one would have  *)
(* reached is looked for, and that no two frozen elements follow each      *)
(* other in a track that is searched.                                      *)
THEOREM DualSearchIsRight ==
    ASSUME TimecodesApart, "search_in_frozen" \notin Clients, "dual_in_frozen" \notin Clients
    PROVE  TimecodeSpec => DualMatches
<1>1. NoHazards
  BY DEF NoHazards
<1>2. TimecodeInit => DualInv
  BY DualInit
<1>3. Inv /\ DualInv /\ [NextTimecode]_timecodeVars => DualInv'
  BY <1>1, DualStep
<1>4. Inv /\ DualInv /\ [NextTimecode]_timecodeVars => [phase = "looking" /\ phase' = "idle" /\ Steady(dual) => DualReturns]_timecodeVars
  BY <1>1, DualStep
<1>5. QED
  BY <1>2, <1>3, <1>4, Invariance, PTL DEF TimecodeSpec, DualMatches
=============================================================================
