---------------------------- MODULE IndexProofs ----------------------------
(***************************************************************************)
(* Proofs that a reader delivers the frames it says it does, of files of   *)
(* any size, while they are written, whatever was skipped and looked for;  *)
(* and that an index table segment is read back as it was made, or not at  *)
(* all, whatever is in it and however long the lengths may be.             *)
(***************************************************************************)
EXTENDS FileIndex, IndexTable, FiniteSetTheorems, WellFoundedInduction, TLAPS

-----------------------------------------------------------------------------
(* Every set of naturals has a least one.                                  *)
LEMMA Least == \A S : S \subseteq Nat /\ S # {} => \E n \in S : \A m \in S : n <= m
<1> SUFFICES ASSUME NEW S, S \subseteq Nat, S # {}
             PROVE  \E n \in S : \A m \in S : n <= m
  OBVIOUS
<1>1. IsWellFoundedOn(OpToRel(<, Nat), Nat)
  BY NatLessThanWellFounded, Zenon
<1>2. PICK n \in S : \A m \in S : ~(<<m, n>> \in OpToRel(<, Nat))
  BY <1>1, WFMin, Zenon
<1>3. \A m \in S : ~(m < n)
  BY <1>2, Zenon DEF OpToRel
<1>4. QED
  BY <1>3

(* Quotient and remainder are what they should be.                         *)
LEMMA Quotient ==
    ASSUME NEW x \in Nat, NEW d \in Nat \ {0}
    PROVE  /\ x \div d \in Nat /\ x % d \in 0 .. d - 1
           /\ x = d * (x \div d) + (x % d)
OBVIOUS

(* What divides evenly is its quotient times the divisor.                  *)
LEMMA WholeQuotient ==
    ASSUME NEW x \in Nat, NEW d \in Nat \ {0}, x % d = 0
    PROVE  x \div d \in Nat /\ x = (x \div d) * d
<1> DEFINE q == x \div d
           r == x % d
<1>1. q \in Nat /\ r = 0 /\ x = d * q + r
  BY Quotient
<1> HIDE DEF q, r
<1>2. d * q = q * d /\ d * q \in Nat
  BY <1>1
<1>3. x = q * d
  BY <1>1, <1>2
<1>4. QED
  BY <1>1, <1>3 DEF q

(* A quotient and a remainder are determined.                              *)
LEMMA DivMod ==
    ASSUME NEW d \in Nat, d >= 1, NEW q \in Nat, NEW r \in Nat, r < d
    PROVE  (q * d + r) \div d = q /\ (q * d + r) % d = r
<1> DEFINE x == q * d + r
           q2 == x \div d
           r2 == x % d
<1>1. x \in Nat
  BY SMT
<1>2. q2 \in Nat /\ r2 \in Nat /\ r2 < d /\ x = d * q2 + r2
  <2> HIDE DEF x
  <2>1. QED
    BY <1>1, SMT
<1>3. x = d * q + r
  BY SMT
<1> HIDE DEF x, q2, r2
<1>4. ~(q2 < q)
  <2> SUFFICES ASSUME q2 < q PROVE FALSE
    OBVIOUS
  <2>1. q - q2 - 1 \in Nat /\ d * q = d * q2 + d + d * (q - q2 - 1) /\ d * (q - q2 - 1) \in Nat
    BY <1>2, SMT
  <2>2. QED
    BY <1>2, <1>3, <2>1, SMT
<1>5. ~(q < q2)
  <2> SUFFICES ASSUME q < q2 PROVE FALSE
    OBVIOUS
  <2>1. q2 - q - 1 \in Nat /\ d * q2 = d * q + d + d * (q2 - q - 1) /\ d * (q2 - q - 1) \in Nat
    BY <1>2, SMT
  <2>2. QED
    BY <1>2, <1>3, <2>1, SMT
<1>6. q = q2
  BY <1>2, <1>4, <1>5
<1>7. d * q = d * q2
  BY <1>6
<1>8. r = r2
  <2>1. d * q \in Nat /\ d * q2 \in Nat
    BY <1>2, SMT
  <2>2. QED
    BY <1>2, <1>3, <1>7, <2>1
<1>9. QED
  BY <1>6, <1>8 DEF x, q2, r2

-----------------------------------------------------------------------------
(* Elements follow each other in a frame.                                  *)
ElementCount == Len(Elements)
StartsTo(n, g) == /\ g \in [1 .. n + 1 -> Nat]
                  /\ g[1] = 0
                  /\ \A e \in 1 .. n : g[e + 1] = g[e] + 1 + Elements[e].len

(* A frame has elements, with lengths.                                     *)
LEMMA ElementsAre ==
    /\ ElementCount \in Nat /\ ElementCount >= 1 /\ DOMAIN Elements = 1 .. ElementCount
    /\ \A e \in 1 .. ElementCount : Elements[e].len \in Nat
<1>1. Elements \in Seq([key : STRING, len : Nat]) /\ Elements # <<>>
  BY IndexAssumption, Zenon
<1>2. ElementCount \in Nat /\ DOMAIN Elements = 1 .. ElementCount /\ ElementCount # 0
  BY <1>1 DEF ElementCount
<1>3. ASSUME NEW e \in 1 .. ElementCount PROVE Elements[e].len \in Nat
  <2> DEFINE T == [key : STRING, len : Nat]
  <2>1. Elements \in Seq(T)
    BY <1>1
  <2>2. e \in 1 .. Len(Elements)
    BY DEF ElementCount
  <2> HIDE DEF T
  <2>3. Elements[e] \in T
    BY <2>1, <2>2
  <2>4. QED
    BY <2>3 DEF T
<1>4. QED
  BY <1>2, <1>3

(* The places of the first m elements exist: the induction that the        *)
(* recursive ElementStart stands for.                                      *)
LEMMA StartsExist == ASSUME NEW m \in 0 .. ElementCount PROVE \E g : StartsTo(m, g)
<1> DEFINE Bad == {n \in Nat : n <= ElementCount /\ ~\E g : StartsTo(n, g)}
<1>1. Bad = {}
  <2> SUFFICES ASSUME Bad # {} PROVE FALSE
    OBVIOUS
  <2>1. PICK n \in Bad : \A k \in Bad : n <= k
    BY Least
  <2>2. n # 0
    <3>1. StartsTo(0, [e \in 1 .. 1 |-> 0])
      BY DEF StartsTo
    <3>2. QED
      BY <3>1, <2>1
  <2>3. n - 1 \in Nat /\ n - 1 \notin Bad /\ n \in Nat /\ n <= ElementCount
    BY <2>1, <2>2
  <2>4. PICK g : StartsTo(n - 1, g)
    BY <2>3, ElementsAre
  <2> DEFINE h == [e \in 1 .. n + 1 |-> IF e = n + 1 THEN g[n] + 1 + Elements[n].len ELSE g[e]]
  <2>5. g \in [1 .. n -> Nat] /\ g[1] = 0 /\ \A e \in 1 .. n - 1 : g[e + 1] = g[e] + 1 + Elements[e].len
    BY <2>3, <2>4 DEF StartsTo
  <2>6. n \in 1 .. n /\ n \in 1 .. ElementCount
    BY <2>3, <2>2, ElementsAre
  <2>7. g[n] \in Nat /\ Elements[n].len \in Nat
    BY <2>5, <2>6, ElementsAre
  <2>8. h \in [1 .. n + 1 -> Nat] /\ h[1] = 0
    BY <2>3, <2>5, <2>6, <2>7
  <2>9. ASSUME NEW e \in 1 .. n PROVE h[e + 1] = h[e] + 1 + Elements[e].len
    BY <2>3, <2>5, <2>6
  <2>10. StartsTo(n, h)
    BY <2>8, <2>9 DEF StartsTo
  <2>11. QED
    BY <2>1, <2>10
<1>2. m \in Nat /\ m <= ElementCount
  BY ElementsAre
<1>3. QED
  BY <1>1, <1>2

(* Every element starts where the one before it ends.                      *)
LEMMA ElementStartIs == StartsTo(ElementCount, ElementStart)
<1>1. PICK g : StartsTo(ElementCount, g)
  BY StartsExist, ElementsAre
<1> DEFINE Is(s) == s = [e \in 1 .. ElementCount + 1 |-> IF e = 1 THEN 0 ELSE s[e - 1] + 1 + Elements[e - 1].len]
<1>2. Is(g)
  <2>1. ASSUME NEW e \in 1 .. ElementCount + 1, e # 1 PROVE g[e] = g[e - 1] + 1 + Elements[e - 1].len
    <3>1. e - 1 \in 1 .. ElementCount /\ e = (e - 1) + 1
      BY <2>1, ElementsAre
    <3>2. QED
      BY <3>1, <1>1 DEF StartsTo
  <2>2. QED
    BY <1>1, <2>1 DEF StartsTo
<1>3. ElementStart = CHOOSE s : Is(s)
  BY Zenon DEF ElementStart, ElementCount
<1> HIDE DEF Is
<1>4. Is(ElementStart)
  BY <1>2, <1>3
<1>5. ElementStart = [e \in 1 .. ElementCount + 1 |-> IF e = 1 THEN 0 ELSE ElementStart[e - 1] + 1 + Elements[e - 1].len]
  BY <1>4, Zenon DEF Is
<1> DEFINE Bad == {n \in Nat : n \in 1 .. ElementCount + 1 /\ ElementStart[n] # g[n]}
<1>6. Bad = {}
  <2> SUFFICES ASSUME Bad # {} PROVE FALSE
    OBVIOUS
  <2>1. PICK n \in Bad : \A k \in Bad : n <= k
    BY Least
  <2>2. n # 1
    BY <1>1, <1>5, <2>1 DEF StartsTo
  <2>3. n - 1 \in Nat /\ n - 1 \in 1 .. ElementCount /\ n - 1 \notin Bad /\ n = (n - 1) + 1 /\ n \in 1 .. ElementCount + 1
    BY <2>1, <2>2, ElementsAre
  <2>4. ElementStart[n - 1] = g[n - 1]
    BY <2>3, ElementsAre
  <2>5. ElementStart[n] = ElementStart[n - 1] + 1 + Elements[n - 1].len
    BY <1>5, <2>2, <2>3
  <2>6. g[n] = g[n - 1] + 1 + Elements[n - 1].len
    BY <1>1, <2>3 DEF StartsTo
  <2>7. QED
    BY <2>1, <2>4, <2>5, <2>6
<1>7. ASSUME NEW e \in 1 .. ElementCount + 1 PROVE ElementStart[e] = g[e]
  BY <1>6, ElementsAre
<1>8. ElementStart = g
  <2>1. DOMAIN ElementStart = 1 .. ElementCount + 1 /\ ElementStart = [e \in 1 .. ElementCount + 1 |-> ElementStart[e]]
    BY <1>5
  <2>2. g = [e \in 1 .. ElementCount + 1 |-> g[e]]
    BY <1>1 DEF StartsTo
  <2>3. QED
    BY <2>1, <2>2, <1>7
<1>9. QED
  BY <1>1, <1>8
(* No element reaches into a later one.                                    *)
LEMMA ElementsGrow ==
    ASSUME NEW e \in 1 .. ElementCount, NEW d \in e + 1 .. ElementCount + 1
    PROVE  ElementStart[e] + 1 + Elements[e].len <= ElementStart[d]
<1> DEFINE Bad == {n \in Nat : n \in e + 1 .. ElementCount + 1 /\ ~(ElementStart[e] + 1 + Elements[e].len <= ElementStart[n])}
<1>1. \A n \in 1 .. ElementCount + 1 : ElementStart[n] \in Nat
  BY ElementStartIs DEF StartsTo
<1>2. ElementStart[e + 1] = ElementStart[e] + 1 + Elements[e].len /\ e \in Nat /\ e <= ElementCount
  BY ElementStartIs, ElementsAre DEF StartsTo
<1>3. Bad = {}
  <2> SUFFICES ASSUME Bad # {} PROVE FALSE
    OBVIOUS
  <2>1. PICK n \in Bad : \A k \in Bad : n <= k
    BY Least
  <2>2. n # e + 1
    BY <1>1, <1>2, <2>1, ElementsAre
  <2>3. n - 1 \in Nat /\ n - 1 \in 1 .. ElementCount /\ n - 1 \in e + 1 .. ElementCount + 1 /\ n - 1 \notin Bad /\ n = (n - 1) + 1
    BY <2>1, <2>2, <1>2, ElementsAre
  <2>4. ElementStart[e] + 1 + Elements[e].len <= ElementStart[n - 1]
    BY <2>3
  <2>5. ElementStart[n] = ElementStart[n - 1] + 1 + Elements[n - 1].len /\ Elements[n - 1].len \in Nat
    BY <2>3, ElementStartIs, ElementsAre DEF StartsTo
  <2>6. ElementStart[n - 1] \in Nat /\ ElementStart[e] \in Nat /\ Elements[e].len \in Nat
    BY <2>3, <1>1, <1>2, ElementsAre
  <2>7. ~(ElementStart[e] + 1 + Elements[e].len <= ElementStart[n])
    BY <2>1
  <2> HIDE DEF Bad
  <2>8. QED
    BY <2>4, <2>5, <2>6, <2>7
<1>4. d \in Nat /\ d \in e + 1 .. ElementCount + 1
  BY <1>2, ElementsAre
<1>5. QED
  BY <1>3, <1>4

(* Where the elements of a frame are: the first at its start, all of them  *)
(* within it, no two at one place.                                         *)
LEMMA ElementPlaces ==
    /\ FrameLen \in Nat /\ FrameLen >= 1 /\ FrameLen = ElementStart[ElementCount + 1]
    /\ ElementStart[1] = 0 /\ 1 \in 1 .. ElementCount
    /\ \A e \in 1 .. ElementCount :
          /\ ElementStart[e] \in Nat /\ Elements[e].len \in Nat
          /\ ElementStart[e] + 1 + Elements[e].len <= FrameLen
          /\ ElementStart[e + 1] = ElementStart[e] + 1 + Elements[e].len
          /\ ElementAt(ElementStart[e]) = {e}
    /\ \A o : ElementAt(o) \subseteq 1 .. ElementCount
<1>1. FrameLen = ElementStart[ElementCount + 1]
  BY DEF FrameLen, ElementCount
<1>2. 1 \in 1 .. ElementCount /\ ElementCount + 1 \in 1 .. ElementCount + 1
  BY ElementsAre
<1>3. FrameLen \in Nat /\ ElementStart[1] = 0
  BY <1>1, <1>2, ElementStartIs DEF StartsTo
<1>4. ASSUME NEW e \in 1 .. ElementCount
      PROVE  /\ ElementStart[e] \in Nat /\ Elements[e].len \in Nat
             /\ ElementStart[e] + 1 + Elements[e].len <= FrameLen
             /\ ElementStart[e + 1] = ElementStart[e] + 1 + Elements[e].len
  <2>1. ElementCount + 1 \in e + 1 .. ElementCount + 1 /\ e \in 1 .. ElementCount + 1
    BY ElementsAre
  <2>2. ElementStart[e] + 1 + Elements[e].len <= FrameLen
    BY <2>1, <1>1, ElementsGrow
  <2>3. QED
    BY <2>1, <2>2, ElementsAre, ElementStartIs DEF StartsTo
<1>5. FrameLen >= 1
  BY <1>2, <1>3, <1>4
<1>6. ASSUME NEW e \in 1 .. ElementCount PROVE ElementAt(ElementStart[e]) = {e}
  <2>1. ASSUME NEW d \in 1 .. ElementCount, NEW c \in 1 .. ElementCount, c < d PROVE ElementStart[c] # ElementStart[d]
    <3>1. d \in c + 1 .. ElementCount + 1
      BY <2>1, ElementsAre
    <3>2. ElementStart[c] + 1 + Elements[c].len <= ElementStart[d]
      BY <3>1, ElementsGrow
    <3>3. QED
      BY <3>2, <1>4
  <2>2. ASSUME NEW d \in 1 .. ElementCount, d # e PROVE ElementStart[d] # ElementStart[e]
    <3>1. d < e \/ e < d
      BY <2>2, ElementsAre
    <3>2. QED
      BY <3>1, <2>1
  <2>3. QED
    BY <2>2, ElementsAre DEF ElementAt
<1>7. \A o : ElementAt(o) \subseteq 1 .. ElementCount
  BY ElementsAre DEF ElementAt
<1>8. QED
  BY <1>1, <1>2, <1>3, <1>4, <1>5, <1>6, <1>7

-----------------------------------------------------------------------------
(* Files, and the frames up to a place in them.                            *)
Count(f) == Len(f.parts)
Until(f, p) == Cardinality({q \in Frames(f.cells) : q <= p})
Before(f, k) == Until(f, f.parts[k].at)
NumOf(f, k) == (EndOf(f, k) - StartOf(f, k)) \div FrameLen
Place(f, k, n) == StartOf(f, k) + (n - Before(f, k)) * FrameLen

(* What the parts of a file are.                                           *)
LEMMA FileIs ==
    ASSUME NEW f \in Files
    PROVE  /\ Len(f.cells) \in Nat /\ DOMAIN f.cells = 1 .. Len(f.cells)
           /\ \A p \in 1 .. Len(f.cells) : f.cells[p] \in Cells
           /\ Count(f) \in Nat /\ Count(f) >= 1 /\ DOMAIN f.parts = 1 .. Count(f)
           /\ \A k \in 1 .. Count(f) : /\ f.parts[k] \in Partitions /\ f.parts[k].at \in Nat
                                       /\ StartOf(f, k) \in Nat /\ f.parts[k].at + 2 <= StartOf(f, k)
                                       /\ EndOf(f, k) \in Nat
<1>1. f.cells \in Seq(Cells) /\ f.parts \in Seq(Partitions) /\ f.parts # <<>>
  BY IndexAssumption, Zenon
<1>2. /\ Len(f.cells) \in Nat /\ DOMAIN f.cells = 1 .. Len(f.cells)
      /\ Count(f) \in Nat /\ Count(f) # 0 /\ DOMAIN f.parts = 1 .. Count(f)
  BY <1>1 DEF Count
<1>3. ASSUME NEW p \in 1 .. Len(f.cells) PROVE f.cells[p] \in Cells
  BY <1>1
<1>4. ASSUME NEW k \in 1 .. Count(f) PROVE f.parts[k] \in Partitions
  BY <1>1 DEF Count
<1>5. ASSUME NEW k \in 1 .. Count(f)
      PROVE  /\ f.parts[k].at \in Nat /\ f.parts[k].headerByteCount \in Nat /\ f.parts[k].indexByteCount \in Nat
             /\ f.parts[k].hasFill \in BOOLEAN
  BY <1>4 DEF Partitions
<1>6. ASSUME NEW k \in 1 .. Count(f)
      PROVE  /\ StartOf(f, k) \in Nat /\ f.parts[k].at + 2 <= StartOf(f, k)
             /\ EndOf(f, k) \in Nat
  <2>1. k = Count(f) \/ k + 1 \in 1 .. Count(f)
    BY <1>2
  <2>2. EndOf(f, k) \in Nat
    BY <2>1, <1>2, <1>5 DEF EndOf, Count
  <2>3. QED
    BY <2>2, <1>5 DEF StartOf, PackLen, FillLen
<1>7. QED
  BY <1>2, <1>3, <1>4, <1>5, <1>6

(* Partitions do not reach into later ones.                                *)
LEMMA PartsFollow ==
    ASSUME FilesProper, NEW f \in Files, NEW k \in 1 .. Count(f), NEW j \in 1 .. k - 1
    PROVE  EndOf(f, j) <= f.parts[k].at
<1> DEFINE Bad == {n \in Nat : n \in j + 1 .. Count(f) /\ ~(EndOf(f, j) <= f.parts[n].at)}
<1>1. \A n \in 1 .. Count(f) : /\ f.parts[n].at \in Nat /\ StartOf(f, n) \in Nat /\ EndOf(f, n) \in Nat
                               /\ f.parts[n].at + 2 <= StartOf(f, n) /\ StartOf(f, n) <= EndOf(f, n)
  BY FileIs, Zenon DEF FilesProper, ProperFile
<1>2. \A n \in 1 .. Count(f) - 1 : EndOf(f, n) = f.parts[n + 1].at
  BY FileIs DEF EndOf, Count
<1>3. Count(f) \in Nat /\ j \in Nat /\ j < k /\ k <= Count(f) /\ j >= 1 /\ k \in Nat
  BY FileIs
<1>4. Bad = {}
  <2> SUFFICES ASSUME Bad # {} PROVE FALSE
    OBVIOUS
  <2>1. PICK n \in Bad : \A m \in Bad : n <= m
    BY Least
  <2>2. n # j + 1
    <3>1. EndOf(f, j) = f.parts[j + 1].at /\ EndOf(f, j) \in Nat
      BY <1>1, <1>2, <1>3
    <3>2. QED
      BY <2>1, <3>1
  <2>3. n - 1 \in Nat /\ n - 1 \in j + 1 .. Count(f) /\ n - 1 \in 1 .. Count(f) - 1 /\ n - 1 \notin Bad /\ n = (n - 1) + 1
        /\ n \in 1 .. Count(f) /\ n - 1 \in 1 .. Count(f)
    BY <2>1, <2>2, <1>3
  <2>4. EndOf(f, j) <= f.parts[n - 1].at
    BY <2>3
  <2>5. EndOf(f, n - 1) = f.parts[n].at
    BY <2>3, <1>2
  <2>6. ~(EndOf(f, j) <= f.parts[n].at)
    BY <2>1
  <2>7. EndOf(f, j) \in Nat /\ f.parts[n - 1].at + 2 <= EndOf(f, n - 1) /\ f.parts[n - 1].at \in Nat
    <3>1. j \in 1 .. Count(f)
      BY <1>3
    <3>2. QED
      BY <3>1, <2>3, <1>1
  <2> HIDE DEF Bad
  <2>8. QED
    BY <2>4, <2>5, <2>6, <2>7, <2>3, <1>1
<1>5. k \in Nat /\ k \in j + 1 .. Count(f)
  BY <1>3
<1>6. QED
  BY <1>4, <1>5

(* A partition lies within its file and begins with its pack.              *)
LEMMA PartIs ==
    ASSUME FilesProper, NEW f \in Files, NEW k \in 1 .. Count(f)
    PROVE  /\ StartOf(f, k) <= EndOf(f, k) /\ EndOf(f, k) <= Len(f.cells)
           /\ f.parts[k].at + 1 \in 1 .. Len(f.cells)
           /\ f.cells[f.parts[k].at + 1].key = "pack"
           /\ f.parts[k].hasEssence => EssenceIs(f, k)
           /\ f.parts[k].kind = "footer" => k = Count(f) /\ ~f.parts[k].hasEssence
<1>1. ProperFile(f) /\ k \in DOMAIN f.parts
  BY FileIs, Zenon DEF FilesProper
<1>2. /\ StartOf(f, k) <= EndOf(f, k)
      /\ f.cells[f.parts[k].at + 1].key = "pack"
      /\ f.parts[k].hasEssence => EssenceIs(f, k)
      /\ f.parts[k].kind = "footer" => k = Count(f) /\ ~f.parts[k].hasEssence
  BY <1>1, Zenon DEF ProperFile, Count
<1>3. EndOf(f, k) <= Len(f.cells)
  <2>1. CASE k = Count(f)
    BY <2>1, FileIs DEF EndOf, Count
  <2>2. CASE k # Count(f)
    <3>1. Count(f) \in 1 .. Count(f) /\ k \in 1 .. Count(f) - 1
      BY <2>2, FileIs
    <3>2. EndOf(f, k) <= f.parts[Count(f)].at
      BY <3>1, PartsFollow
    <3>3. StartOf(f, Count(f)) <= EndOf(f, Count(f))
      BY <3>1, FileIs, Zenon DEF FilesProper, ProperFile
    <3>4. EndOf(f, Count(f)) = Len(f.cells)
      BY DEF EndOf, Count
    <3>5. /\ EndOf(f, k) \in Nat /\ f.parts[Count(f)].at \in Nat /\ StartOf(f, Count(f)) \in Nat
          /\ f.parts[Count(f)].at + 2 <= StartOf(f, Count(f)) /\ Len(f.cells) \in Nat
      BY <3>1, FileIs
    <3>6. QED
      BY <3>2, <3>3, <3>4, <3>5
  <2>3. QED
    BY <2>1, <2>2
<1>4. f.parts[k].at + 1 \in 1 .. Len(f.cells)
  <2>1. /\ EndOf(f, k) \in Nat /\ f.parts[k].at \in Nat /\ StartOf(f, k) \in Nat
        /\ f.parts[k].at + 2 <= StartOf(f, k) /\ Len(f.cells) \in Nat
    BY FileIs
  <2>2. StartOf(f, k) <= EndOf(f, k)
    BY <1>2
  <2>3. QED
    BY <2>1, <2>2, <1>3
<1>5. QED
  BY <1>2, <1>3, <1>4

-----------------------------------------------------------------------------
(* Counting frames.                                                        *)
LEMMA FramesFinite ==
    ASSUME NEW f \in Files
    PROVE  /\ IsFiniteSet(Frames(f.cells)) /\ Frames(f.cells) \subseteq 1 .. Len(f.cells)
           /\ \A q \in Frames(f.cells) : q \in Nat /\ q >= 1
<1>1. Len(f.cells) \in Nat /\ Frames(f.cells) \subseteq 1 .. Len(f.cells)
  BY FileIs DEF Frames
<1>2. IsFiniteSet(1 .. Len(f.cells))
  BY <1>1, FS_Interval
<1>3. QED
  BY <1>1, <1>2, FS_Subset

(* Frames up to b are those up to a and those between.                     *)
LEMMA SpanIs ==
    ASSUME NEW f \in Files, NEW a \in Nat, NEW b \in Nat, a <= b
    PROVE  /\ Until(f, a) \in Nat /\ Until(f, b) \in Nat
           /\ IsFiniteSet({q \in Frames(f.cells) : a < q /\ q <= b})
           /\ Cardinality({q \in Frames(f.cells) : a < q /\ q <= b}) \in Nat
           /\ Until(f, b) = Until(f, a) + Cardinality({q \in Frames(f.cells) : a < q /\ q <= b})
<1> DEFINE A == {q \in Frames(f.cells) : q <= a}
           B == {q \in Frames(f.cells) : q <= b}
           D == {q \in Frames(f.cells) : a < q /\ q <= b}
<1>1. IsFiniteSet(A) /\ IsFiniteSet(B) /\ IsFiniteSet(D)
  BY FramesFinite, FS_Subset
<1>2. A \cup D = B /\ A \cap D = {}
  <2>1. \A q \in Frames(f.cells) : q \in Nat
    BY FramesFinite
  <2>2. QED
    BY <2>1
<1>3. Cardinality(A \cup D) = Cardinality(A) + Cardinality(D) - Cardinality(A \cap D)
  BY <1>1, FS_Union
<1>4. Cardinality(A \cap D) = 0
  BY <1>2, FS_EmptySet
<1>5. Cardinality(A) \in Nat /\ Cardinality(B) \in Nat /\ Cardinality(D) \in Nat
  BY <1>1, FS_CardinalityType
<1>6. Until(f, a) = Cardinality(A) /\ Until(f, b) = Cardinality(B)
  BY DEF Until
<1> HIDE DEF A, B, D
<1>7. Until(f, b) = Until(f, a) + Cardinality(D)
  BY <1>2, <1>3, <1>4, <1>5, <1>6
<1>8. QED
  BY <1>1, <1>5, <1>6, <1>7 DEF D

(* There are no fewer frames further on.                                   *)
LEMMA UntilGrows ==
    ASSUME NEW f \in Files, NEW a \in Nat, NEW b \in Nat, a <= b
    PROVE  Until(f, a) \in Nat /\ Until(f, b) \in Nat /\ Until(f, a) <= Until(f, b)
<1> DEFINE n == Cardinality({q \in Frames(f.cells) : a < q /\ q <= b})
<1>1. Until(f, a) \in Nat /\ Until(f, b) \in Nat /\ n \in Nat /\ Until(f, b) = Until(f, a) + n
  BY SpanIs
<1> HIDE DEF n
<1>2. QED
  BY <1>1

(* A cell adds one frame if it begins one.                                 *)
LEMMA UntilNext ==
    ASSUME NEW f \in Files, NEW a \in Nat
    PROVE  /\ Until(f, a) \in Nat
           /\ Until(f, a + 1) = IF a + 1 \in Frames(f.cells) THEN Until(f, a) + 1 ELSE Until(f, a)
<1> DEFINE D == {q \in Frames(f.cells) : a < q /\ q <= a + 1}
<1>1. Until(f, a) \in Nat /\ Until(f, a + 1) = Until(f, a) + Cardinality(D)
  <2>1. a + 1 \in Nat /\ a <= a + 1
    OBVIOUS
  <2>2. QED
    BY <2>1, SpanIs
<1>2. D = IF a + 1 \in Frames(f.cells) THEN {a + 1} ELSE {}
  <2>1. \A q \in Frames(f.cells) : q \in Nat
    BY FramesFinite
  <2>2. QED
    BY <2>1
<1>3. Cardinality(D) = IF a + 1 \in Frames(f.cells) THEN 1 ELSE 0
  BY <1>2, FS_Singleton, FS_EmptySet
<1> HIDE DEF D
<1>4. QED
  BY <1>1, <1>3

(* Cells that begin no frame add none.                                     *)
LEMMA UntilSame ==
    ASSUME NEW f \in Files, NEW a \in Nat, NEW b \in Nat, a <= b,
           \A q \in Frames(f.cells) : ~(a < q /\ q <= b)
    PROVE  Until(f, a) \in Nat /\ Until(f, b) = Until(f, a)
<1>1. {q \in Frames(f.cells) : a < q /\ q <= b} = {}
  OBVIOUS
<1> DEFINE n == Cardinality({q \in Frames(f.cells) : a < q /\ q <= b})
<1>2. n = 0
  BY <1>1, FS_EmptySet
<1>3. Until(f, a) \in Nat /\ Until(f, b) = Until(f, a) + n
  BY SpanIs
<1> HIDE DEF n
<1>4. QED
  BY <1>2, <1>3

(* No frame is before the file, and all are in it.                         *)
LEMMA UntilEnds ==
    ASSUME NEW f \in Files
    PROVE  Until(f, 0) = 0 /\ Until(f, Len(f.cells)) = Cardinality(Frames(f.cells))
<1>1. {q \in Frames(f.cells) : q <= 0} = {} /\ {q \in Frames(f.cells) : q <= Len(f.cells)} = Frames(f.cells)
  BY FramesFinite, FileIs
<1>2. QED
  BY <1>1, FS_EmptySet DEF Until

(* Frames are in partitions with essence.                                  *)
LEMMA FrameSomewhere ==
    ASSUME FilesProper, NEW f \in Files, NEW q \in Frames(f.cells)
    PROVE  \E k \in 1 .. Count(f) : f.parts[k].hasEssence /\ q - 1 \in StartOf(f, k) .. EndOf(f, k) - 1
<1>1. ProperFile(f) /\ q \in DOMAIN f.cells /\ f.cells[q].key = StartKey
  BY DEF FilesProper, Frames
<1>2. IsElement(f.cells[q])
  BY <1>1, ElementsAre, ElementPlaces DEF IsElement, StartKey
<1>3. \E k \in DOMAIN f.parts : f.parts[k].hasEssence /\ q - 1 \in StartOf(f, k) .. EndOf(f, k) - 1
  BY <1>1, <1>2, Zenon DEF ProperFile
<1>4. QED
  BY <1>3, FileIs, Zenon

(* Partitions without essence add no frames.                               *)
LEMMA BeforeFollows ==
    ASSUME FilesProper, NEW f \in Files, NEW a \in 1 .. Count(f), NEW b \in a + 1 .. Count(f),
           \A k \in a + 1 .. b - 1 : ~f.parts[k].hasEssence
    PROVE  Before(f, b) = Until(f, EndOf(f, a))
<1>0. Count(f) \in Nat /\ a \in 1 .. b - 1 /\ b \in 1 .. Count(f)
  BY FileIs
<1>1. EndOf(f, a) \in Nat /\ f.parts[b].at \in Nat
  BY <1>0, FileIs, Zenon
<1>2. EndOf(f, a) <= f.parts[b].at
  BY <1>0, PartsFollow
<1>3. ASSUME NEW q \in Frames(f.cells), EndOf(f, a) < q, q <= f.parts[b].at PROVE FALSE
  <2>1. PICK k \in 1 .. Count(f) : f.parts[k].hasEssence /\ q - 1 \in StartOf(f, k) .. EndOf(f, k) - 1
    BY FrameSomewhere
  <2>2. q \in Nat
    BY FramesFinite
  <2>3. f.parts[k].at \in Nat /\ StartOf(f, k) \in Nat /\ EndOf(f, k) \in Nat /\ f.parts[k].at + 2 <= StartOf(f, k)
    BY FileIs
  <2>4. StartOf(f, k) < q /\ q <= EndOf(f, k)
    BY <2>1, <2>2, <2>3
  <2>5. k > a
    <3>1. CASE k < a
      <4>1. k \in 1 .. a - 1
        BY <3>1
      <4>2. EndOf(f, k) <= f.parts[a].at
        BY <4>1, PartsFollow
      <4>3. f.parts[a].at \in Nat /\ StartOf(f, a) \in Nat /\ f.parts[a].at + 2 <= StartOf(f, a)
        BY FileIs
      <4>4. StartOf(f, a) <= EndOf(f, a)
        BY PartIs
      <4>5. QED
        BY <4>2, <4>3, <4>4, <1>1, <1>3, <2>2, <2>3, <2>4
    <3>2. CASE k = a
      BY <3>2, <1>1, <1>3, <2>2, <2>4
    <3>3. QED
      BY <3>1, <3>2
  <2>6. k < b
    <3>1. CASE k > b
      <4>1. b \in 1 .. k - 1
        BY <3>1, <1>0
      <4>2. EndOf(f, b) <= f.parts[k].at
        BY <4>1, PartsFollow
      <4>3. StartOf(f, b) \in Nat /\ EndOf(f, b) \in Nat /\ f.parts[b].at + 2 <= StartOf(f, b)
        BY <1>0, FileIs
      <4>4. StartOf(f, b) <= EndOf(f, b)
        BY <1>0, PartIs
      <4>5. QED
        BY <4>2, <4>3, <4>4, <1>1, <1>3, <2>2, <2>3, <2>4
    <3>2. CASE k = b
      BY <3>2, <1>1, <1>3, <2>2, <2>3, <2>4
    <3>3. QED
      BY <3>1, <3>2, <1>0
  <2>7. k \in a + 1 .. b - 1
    BY <2>5, <2>6, <1>0
  <2>8. QED
    BY <2>1, <2>7
<1>4. QED
  BY <1>1, <1>2, <1>3, UntilSame DEF Before

(* The first partition with essence begins with frame 0.                   *)
LEMMA BeforeFirst ==
    ASSUME FilesProper, NEW f \in Files, NEW b \in 1 .. Count(f),
           \A k \in 1 .. b - 1 : ~f.parts[k].hasEssence
    PROVE  Before(f, b) = 0
<1>1. Count(f) \in Nat /\ f.parts[b].at \in Nat
  BY FileIs
<1>2. ASSUME NEW q \in Frames(f.cells), 0 < q, q <= f.parts[b].at PROVE FALSE
  <2>1. PICK k \in 1 .. Count(f) : f.parts[k].hasEssence /\ q - 1 \in StartOf(f, k) .. EndOf(f, k) - 1
    BY FrameSomewhere
  <2>2. k >= b /\ q \in Nat
    <3>1. q \in Nat
      BY FramesFinite
    <3>2. k \notin 1 .. b - 1
      BY <2>1, Zenon
    <3>3. QED
      BY <3>1, <3>2, <1>1
  <2>3. f.parts[k].at \in Nat /\ StartOf(f, k) \in Nat /\ EndOf(f, k) \in Nat /\ f.parts[k].at + 2 <= StartOf(f, k)
    BY FileIs
  <2>4. f.parts[b].at <= f.parts[k].at
    <3>1. CASE k = b
      BY <3>1, <1>1
    <3>2. CASE k > b
      <4>1. b \in 1 .. k - 1
        BY <3>2
      <4>2. EndOf(f, b) <= f.parts[k].at
        BY <4>1, PartsFollow
      <4>3. StartOf(f, b) \in Nat /\ EndOf(f, b) \in Nat /\ f.parts[b].at + 2 <= StartOf(f, b)
        BY FileIs
      <4>4. StartOf(f, b) <= EndOf(f, b)
        BY PartIs
      <4>5. QED
        BY <4>2, <4>3, <4>4, <1>1, <2>3
    <3>3. QED
      BY <3>1, <3>2, <2>2
  <2>5. QED
    BY <1>1, <1>2, <2>1, <2>2, <2>3, <2>4
<1>3. Until(f, f.parts[b].at) = Until(f, 0)
  BY <1>1, <1>2, UntilSame
<1>4. QED
  BY <1>3, UntilEnds DEF Before

-----------------------------------------------------------------------------
(* Essence.                                                                *)
LEMMA EssencePlaces ==
    ASSUME FilesProper, NEW f \in Files, NEW k \in 1 .. Count(f), f.parts[k].hasEssence
    PROVE  /\ NumOf(f, k) \in Nat /\ NumOf(f, k) >= 1
           /\ EndOf(f, k) = StartOf(f, k) + NumOf(f, k) * FrameLen
           /\ StartOf(f, k) \in Nat /\ EndOf(f, k) \in Nat /\ StartOf(f, k) < EndOf(f, k)
           /\ EndOf(f, k) <= Len(f.cells) /\ Len(f.cells) \in Nat
           /\ \A p \in StartOf(f, k) .. EndOf(f, k) - 1 :
                 CellIs(f.cells[p + 1], (p - StartOf(f, k)) % FrameLen)
<1>1. EssenceIs(f, k)
  BY PartIs
<1>2. /\ StartOf(f, k) < EndOf(f, k) /\ (EndOf(f, k) - StartOf(f, k)) % FrameLen = 0
      /\ \A p \in StartOf(f, k) .. EndOf(f, k) - 1 : CellIs(f.cells[p + 1], (p - StartOf(f, k)) % FrameLen)
  BY <1>1, Zenon DEF EssenceIs
<1>3. StartOf(f, k) \in Nat /\ EndOf(f, k) \in Nat
  BY FileIs
<1>4. EndOf(f, k) <= Len(f.cells) /\ Len(f.cells) \in Nat
  BY PartIs, FileIs
<1> DEFINE d == EndOf(f, k) - StartOf(f, k)
<1>5. d \in Nat /\ d >= 1 /\ d % FrameLen = 0 /\ NumOf(f, k) = d \div FrameLen
  BY <1>2, <1>3 DEF NumOf
<1>6. d = NumOf(f, k) * FrameLen /\ NumOf(f, k) \in Nat
  <2> HIDE DEF d
  <2>1. FrameLen \in Nat \ {0}
    BY ElementPlaces
  <2>2. d \div FrameLen \in Nat /\ d = (d \div FrameLen) * FrameLen
    BY <1>5, <2>1, WholeQuotient
  <2>3. QED
    BY <1>5, <2>2
<1>7. NumOf(f, k) >= 1
  <2>1. FrameLen \in Nat
    BY ElementPlaces
  <2>2. NumOf(f, k) # 0
    BY <1>5, <1>6, <2>1
  <2>3. QED
    BY <2>2, <1>6
<1>8. EndOf(f, k) = StartOf(f, k) + NumOf(f, k) * FrameLen
  <2> DEFINE m == NumOf(f, k) * FrameLen
  <2>1. EndOf(f, k) - StartOf(f, k) = m
    BY <1>6
  <2> HIDE DEF m
  <2>2. EndOf(f, k) = StartOf(f, k) + m
    BY <2>1, <1>3
  <2>3. QED
    BY <2>2 DEF m
<1>9. QED
  BY <1>2, <1>3, <1>4, <1>6, <1>7, <1>8

(* Where in the essence the j-th frame of a partition is.                  *)
LEMMA FrameBounds ==
    ASSUME FilesProper, NEW f \in Files, NEW k \in 1 .. Count(f), f.parts[k].hasEssence,
           NEW j \in Nat, j < NumOf(f, k)
    PROVE  /\ j * FrameLen \in Nat /\ (j + 1) * FrameLen = j * FrameLen + FrameLen
           /\ (j + 1) * FrameLen \in Nat
           /\ StartOf(f, k) + j * FrameLen + FrameLen <= EndOf(f, k)
<1>1. FrameLen \in Nat /\ NumOf(f, k) \in Nat /\ StartOf(f, k) \in Nat
  BY EssencePlaces, ElementPlaces
<1>2. j * FrameLen \in Nat /\ (j + 1) * FrameLen = j * FrameLen + FrameLen
  BY <1>1
<1>3. PICK m \in Nat : NumOf(f, k) = j + 1 + m
  <2>1. NumOf(f, k) - j - 1 \in Nat /\ NumOf(f, k) = j + 1 + (NumOf(f, k) - j - 1)
    BY <1>1
  <2>2. QED
    BY <2>1
<1>4. NumOf(f, k) * FrameLen = (j + 1) * FrameLen + m * FrameLen /\ m * FrameLen \in Nat
  BY <1>1, <1>3
<1>5. EndOf(f, k) = StartOf(f, k) + NumOf(f, k) * FrameLen
  BY EssencePlaces
<1> DEFINE x == NumOf(f, k) * FrameLen
           y == (j + 1) * FrameLen
           z == j * FrameLen
           w == m * FrameLen
<1>6. x = y + w /\ y = z + FrameLen /\ z \in Nat /\ w \in Nat /\ EndOf(f, k) = StartOf(f, k) + x
  BY <1>2, <1>4, <1>5
<1> HIDE DEF x, y, z, w
<1>7. y \in Nat /\ StartOf(f, k) + z + FrameLen <= EndOf(f, k)
  BY <1>1, <1>6
<1>8. QED
  BY <1>2, <1>7 DEF y, z

(* The cell at offset o of a frame is what belongs there.                  *)
LEMMA EssenceCell ==
    ASSUME FilesProper, NEW f \in Files, NEW k \in 1 .. Count(f), f.parts[k].hasEssence,
           NEW j \in Nat, j < NumOf(f, k), NEW o \in Nat, o < FrameLen,
           NEW p, p = StartOf(f, k) + j * FrameLen + o
    PROVE  /\ p \in Nat /\ p \in StartOf(f, k) .. EndOf(f, k) - 1 /\ p + 1 \in 1 .. Len(f.cells)
           /\ p + 1 \in DOMAIN f.cells
           /\ (p - StartOf(f, k)) % FrameLen = o
           /\ CellIs(f.cells[p + 1], o)
<1>1. /\ j * FrameLen \in Nat /\ StartOf(f, k) + j * FrameLen + FrameLen <= EndOf(f, k)
      /\ StartOf(f, k) \in Nat /\ EndOf(f, k) \in Nat /\ FrameLen \in Nat
      /\ EndOf(f, k) <= Len(f.cells) /\ Len(f.cells) \in Nat
  BY FrameBounds, EssencePlaces, ElementPlaces
<1>2. p \in Nat /\ p \in StartOf(f, k) .. EndOf(f, k) - 1 /\ p + 1 \in 1 .. Len(f.cells)
      /\ p - StartOf(f, k) = j * FrameLen + o
  <2>1. PICK z \in Nat : z = j * FrameLen
    BY <1>1
  <2>2. p = StartOf(f, k) + z + o /\ StartOf(f, k) + z + FrameLen <= EndOf(f, k)
    BY <1>1, <2>1
  <2>3. StartOf(f, k) \in Nat /\ EndOf(f, k) \in Nat /\ FrameLen \in Nat /\ EndOf(f, k) <= Len(f.cells) /\ Len(f.cells) \in Nat
    BY <1>1
  <2>4. p - StartOf(f, k) = z + o
    BY <2>2, <2>3
  <2>5. p < EndOf(f, k) /\ StartOf(f, k) <= p /\ p \in Nat
    BY <2>2, <2>3
  <2>6. p \in StartOf(f, k) .. EndOf(f, k) - 1 /\ p + 1 \in 1 .. Len(f.cells)
    BY <2>3, <2>5
  <2>7. QED
    BY <2>1, <2>4, <2>5, <2>6
<1>3. (j * FrameLen + o) % FrameLen = o
  BY DivMod, ElementPlaces
<1>4. CellIs(f.cells[p + 1], (p - StartOf(f, k)) % FrameLen)
  BY <1>2, EssencePlaces
<1>5. p + 1 \in DOMAIN f.cells
  BY <1>2, FileIs
<1>6. QED
  BY <1>2, <1>3, <1>4, <1>5

(* The key and the length of an element stand where it starts.             *)
LEMMA ElementCell ==
    ASSUME FilesProper, NEW f \in Files, NEW k \in 1 .. Count(f), f.parts[k].hasEssence,
           NEW j \in Nat, j < NumOf(f, k), NEW e \in 1 .. ElementCount,
           NEW p, p = StartOf(f, k) + j * FrameLen + ElementStart[e]
    PROVE  f.cells[p + 1].key = Elements[e].key /\ f.cells[p + 1].len = Elements[e].len
<1>1. ElementStart[e] \in Nat /\ ElementStart[e] < FrameLen /\ ElementAt(ElementStart[e]) = {e}
  <2>1. ElementStart[e] \in Nat /\ Elements[e].len \in Nat /\ FrameLen \in Nat /\ ElementStart[e] + 1 + Elements[e].len <= FrameLen
        /\ ElementAt(ElementStart[e]) = {e}
    BY ElementPlaces
  <2>2. QED
    BY <2>1
<1>2. CellIs(f.cells[p + 1], ElementStart[e])
  BY <1>1, EssenceCell
<1>3. QED
  BY <1>1, <1>2, Zenon DEF CellIs

(* Frames begin where an element is, the first one.                        *)
LEMMA FrameCell ==
    ASSUME FilesProper, NEW f \in Files, NEW k \in 1 .. Count(f), f.parts[k].hasEssence,
           NEW j \in Nat, j < NumOf(f, k), NEW o \in Nat, o < FrameLen,
           NEW p, p = StartOf(f, k) + j * FrameLen + o
    PROVE  /\ p + 1 \in Frames(f.cells) <=> o = 0
           /\ f.cells[p + 1].key # "pack"
           /\ f.cells[p + 1].key = "value" <=> ElementAt(o) = {}
<1>1. CellIs(f.cells[p + 1], o) /\ p + 1 \in DOMAIN f.cells
  BY EssenceCell
<1>2. \A e \in 1 .. ElementCount : Elements[e].key # "pack" /\ Elements[e].key # "value" /\ (Elements[e].key = StartKey => e = 1)
  BY ElementsAre, Zenon DEF FilesProper
<1>3. StartKey # "value" /\ StartKey = Elements[1].key
  BY <1>2, ElementPlaces DEF StartKey
<1>4. ElementStart[1] = 0 /\ ElementAt(0) = {1}
  BY ElementPlaces
<1>5. CASE ElementAt(o) = {}
  <2>1. f.cells[p + 1].key = "value"
    BY <1>1, <1>5 DEF CellIs
  <2>2. o # 0
    BY <1>4, <1>5
  <2>3. QED
    BY <1>1, <1>3, <1>5, <2>1, <2>2 DEF Frames
<1>6. CASE ElementAt(o) # {}
  <2>1. PICK e : e \in ElementAt(o)
    BY <1>6
  <2>2. e \in 1 .. ElementCount /\ ElementStart[e] = o
    BY <2>1, ElementPlaces DEF ElementAt
  <2>3. f.cells[p + 1].key = Elements[e].key
    BY <1>1, <2>1, Zenon DEF CellIs
  <2>4. e = 1 <=> o = 0
    BY <2>1, <2>2, <1>4
  <2>5. p + 1 \in Frames(f.cells) <=> f.cells[p + 1].key = StartKey
    BY <1>1 DEF Frames
  <2>6. f.cells[p + 1].key = StartKey <=> e = 1
    BY <1>2, <1>3, <2>2, <2>3
  <2>7. QED
    BY <1>2, <1>6, <2>2, <2>3, <2>4, <2>5, <2>6
<1>7. QED
  BY <1>5, <1>6

-----------------------------------------------------------------------------
(* Frames have the numbers of the frames before them.                      *)
LEMMA FrameWithin ==
    ASSUME FilesProper, NEW f \in Files, NEW k \in 1 .. Count(f), NEW q \in Frames(f.cells),
           f.parts[k].at < q, q <= EndOf(f, k)
    PROVE  f.parts[k].hasEssence /\ StartOf(f, k) < q
<1>1. PICK i \in 1 .. Count(f) : f.parts[i].hasEssence /\ q - 1 \in StartOf(f, i) .. EndOf(f, i) - 1
  BY FrameSomewhere
<1>2. q \in Nat
  BY FramesFinite
<1>3. /\ f.parts[i].at \in Nat /\ StartOf(f, i) \in Nat /\ EndOf(f, i) \in Nat /\ f.parts[i].at + 2 <= StartOf(f, i)
      /\ f.parts[k].at \in Nat /\ StartOf(f, k) \in Nat /\ EndOf(f, k) \in Nat
  BY FileIs
<1>4. StartOf(f, i) < q /\ q <= EndOf(f, i)
  BY <1>1, <1>2, <1>3
<1>5. ~(i < k)
  <2> SUFFICES ASSUME i < k PROVE FALSE
    OBVIOUS
  <2>1. i \in 1 .. k - 1
    OBVIOUS
  <2>2. EndOf(f, i) <= f.parts[k].at
    BY <2>1, PartsFollow
  <2>3. QED
    BY <2>2, <1>2, <1>3, <1>4
<1>6. ~(k < i)
  <2> SUFFICES ASSUME k < i PROVE FALSE
    OBVIOUS
  <2>1. k \in 1 .. i - 1
    OBVIOUS
  <2>2. EndOf(f, k) <= f.parts[i].at
    BY <2>1, PartsFollow
  <2>3. QED
    BY <2>2, <1>2, <1>3, <1>4
<1>7. i = k
  BY <1>5, <1>6
<1>8. QED
  BY <1>1, <1>4, <1>7

(* What lies between a pack and the essence behind it has no frames.       *)
LEMMA UntilStart ==
    ASSUME FilesProper, NEW f \in Files, NEW k \in 1 .. Count(f)
    PROVE  /\ Before(f, k) \in Nat
           /\ Until(f, StartOf(f, k)) = Before(f, k)
           /\ ~f.parts[k].hasEssence => Until(f, EndOf(f, k)) = Before(f, k)
<1>1. f.parts[k].at \in Nat /\ StartOf(f, k) \in Nat /\ EndOf(f, k) \in Nat /\ f.parts[k].at + 2 <= StartOf(f, k)
  BY FileIs
<1>2. StartOf(f, k) <= EndOf(f, k)
  BY PartIs
<1>3. \A q \in Frames(f.cells) : q \in Nat
  BY FramesFinite
<1>4. ASSUME NEW q \in Frames(f.cells), f.parts[k].at < q, q <= StartOf(f, k) PROVE FALSE
  <2>1. q <= EndOf(f, k) /\ q \in Nat
    BY <1>1, <1>2, <1>3, <1>4
  <2>2. StartOf(f, k) < q
    BY <2>1, <1>4, FrameWithin
  <2>3. QED
    BY <2>1, <2>2, <1>1, <1>4
<1>5. f.parts[k].at <= StartOf(f, k) /\ f.parts[k].at <= EndOf(f, k)
  BY <1>1, <1>2
<1>6. Until(f, StartOf(f, k)) = Before(f, k) /\ Before(f, k) \in Nat
  BY <1>1, <1>4, <1>5, UntilSame DEF Before
<1>7. ASSUME ~f.parts[k].hasEssence PROVE Until(f, EndOf(f, k)) = Before(f, k)
  <2>1. \A q \in Frames(f.cells) : ~(f.parts[k].at < q /\ q <= EndOf(f, k))
    BY <1>7, FrameWithin
  <2>2. QED
    BY <1>1, <1>5, <2>1, UntilSame DEF Before
<1>8. QED
  BY <1>6, <1>7

(* The frames of a partition are counted by the code's product: one for    *)
(* each frame length of cells.                                             *)
LEMMA UntilPlace ==
    ASSUME FilesProper, NEW f \in Files, NEW k \in 1 .. Count(f), f.parts[k].hasEssence,
           NEW j \in 0 .. NumOf(f, k)
    PROVE  Until(f, StartOf(f, k) + j * FrameLen) = Before(f, k) + j
<1> DEFINE Bad == {n \in Nat : n <= NumOf(f, k) /\ Until(f, StartOf(f, k) + n * FrameLen) # Before(f, k) + n}
<1>1. StartOf(f, k) \in Nat /\ NumOf(f, k) \in Nat /\ FrameLen \in Nat /\ FrameLen >= 1 /\ Before(f, k) \in Nat
  BY EssencePlaces, ElementPlaces, UntilStart
<1>2. Bad = {}
  <2> SUFFICES ASSUME Bad # {} PROVE FALSE
    OBVIOUS
  <2>1. PICK n \in Bad : \A m \in Bad : n <= m
    BY Least
  <2>2. n # 0
    <3>1. StartOf(f, k) + 0 * FrameLen = StartOf(f, k) /\ Before(f, k) + 0 = Before(f, k)
      BY <1>1
    <3>2. QED
      BY <2>1, <3>1, UntilStart
  <2> DEFINE j1 == n - 1
  <2>3. j1 \in Nat /\ j1 < NumOf(f, k) /\ j1 \notin Bad /\ n = j1 + 1 /\ n \in Nat
    BY <2>1, <2>2, <1>1
  <2> HIDE DEF j1
  <2>4. PICK z \in Nat : z = j1 * FrameLen /\ n * FrameLen = z + FrameLen
    BY <2>3, FrameBounds
  <2>5. Until(f, StartOf(f, k) + z) = Before(f, k) + j1
    BY <2>3, <2>4, <1>1
  <2> DEFINE p == StartOf(f, k) + z
  <2>6. p \in Nat /\ p + 1 \in Nat /\ p + FrameLen \in Nat /\ p + 1 <= p + FrameLen
    BY <1>1
  <2>7. p + 1 \in Frames(f.cells)
    <3>1. p = StartOf(f, k) + j1 * FrameLen + 0 /\ 0 \in Nat /\ 0 < FrameLen
      BY <1>1, <2>4
    <3>2. QED
      BY <3>1, <2>3, FrameCell
  <2>8. Until(f, p + 1) = Before(f, k) + j1 + 1
    <3>1. Until(f, p + 1) = Until(f, p) + 1
      BY <2>6, <2>7, UntilNext
    <3>2. QED
      BY <3>1, <2>5
  <2>9. ASSUME NEW q \in Frames(f.cells), p + 1 < q, q <= p + FrameLen PROVE FALSE
    <3> DEFINE o == q - 1 - p
    <3>1. q \in Nat
      BY FramesFinite
    <3>2. o \in Nat /\ o # 0 /\ o < FrameLen /\ q - 1 = p + o /\ q = (q - 1) + 1
      BY <3>1, <2>6, <2>9, <1>1
    <3>3. q - 1 = StartOf(f, k) + j1 * FrameLen + o
      BY <3>2, <2>4
    <3>4. q \notin Frames(f.cells)
      <4> HIDE DEF o
      <4>1. QED
        BY <3>2, <3>3, <2>3, FrameCell
    <3>5. QED
      BY <3>4
  <2>10. Until(f, p + FrameLen) = Until(f, p + 1)
    BY <2>6, <2>9, UntilSame
  <2>11. StartOf(f, k) + n * FrameLen = p + FrameLen
    BY <2>4, <1>1
  <2>12. Until(f, StartOf(f, k) + n * FrameLen) = Before(f, k) + n
    BY <2>3, <2>8, <2>10, <2>11, <1>1
  <2>13. QED
    BY <2>1, <2>12
<1>3. j \in Nat /\ j <= NumOf(f, k)
  BY <1>1
<1>4. QED
  BY <1>2, <1>3

(* A partition has as many frames as the code's quotient says.             *)
LEMMA UntilEnd ==
    ASSUME FilesProper, NEW f \in Files, NEW k \in 1 .. Count(f)
    PROVE  Until(f, EndOf(f, k)) = Before(f, k) + (IF f.parts[k].hasEssence THEN NumOf(f, k) ELSE 0)
<1>1. CASE f.parts[k].hasEssence
  <2>1. NumOf(f, k) \in 0 .. NumOf(f, k) /\ EndOf(f, k) = StartOf(f, k) + NumOf(f, k) * FrameLen
    BY <1>1, EssencePlaces
  <2>2. QED
    BY <1>1, <2>1, UntilPlace
<1>2. CASE ~f.parts[k].hasEssence
  BY <1>2, UntilStart
<1>3. QED
  BY <1>1, <1>2

(* What is behind the last frame of the file.                              *)
LEMMA AllAre ==
    ASSUME FilesProper, NEW f \in Files, NEW k \in 1 .. Count(f)
    PROVE  /\ Cardinality(Frames(f.cells)) \in Nat
           /\ Until(f, EndOf(f, k)) \in Nat /\ Until(f, EndOf(f, k)) <= Cardinality(Frames(f.cells))
           /\ k = Count(f) => Until(f, EndOf(f, k)) = Cardinality(Frames(f.cells))
<1>1. Until(f, Len(f.cells)) = Cardinality(Frames(f.cells))
  BY UntilEnds
<1>2. EndOf(f, k) \in Nat /\ Len(f.cells) \in Nat /\ EndOf(f, k) <= Len(f.cells)
  BY FileIs, PartIs
<1>3. k = Count(f) => EndOf(f, k) = Len(f.cells)
  BY DEF EndOf, Count
<1>4. QED
  BY <1>1, <1>2, <1>3, UntilGrows

(* The frame with number n, and no other, is where set_position seeks to   *)
(* for it.                                                                 *)
LEMMA FramePlaced ==
    ASSUME FilesProper, NEW f \in Files, NEW k \in 1 .. Count(f), f.parts[k].hasEssence,
           NEW n \in Nat, Before(f, k) <= n, n < Before(f, k) + NumOf(f, k)
    PROVE  /\ Place(f, k, n) \in StartOf(f, k) .. EndOf(f, k) - 1 /\ Place(f, k, n) \in Nat
           /\ Place(f, k, n) + FrameLen <= EndOf(f, k)
           /\ Place(f, k, n) + 1 \in Frames(f.cells)
           /\ f.cells[Place(f, k, n) + 1].frame = n
           /\ Until(f, Place(f, k, n)) = n
           /\ \A p \in 0 .. Len(f.cells) - 1 :
                 p + 1 \in Frames(f.cells) /\ f.cells[p + 1].frame = n => p = Place(f, k, n)
           /\ n < Cardinality(Frames(f.cells))
<1> DEFINE j == n - Before(f, k)
           P == Place(f, k, n)
<1>1. Before(f, k) \in Nat /\ NumOf(f, k) \in Nat /\ j \in Nat /\ j < NumOf(f, k) /\ Before(f, k) + j = n /\ j \in 0 .. NumOf(f, k)
      /\ FrameLen \in Nat /\ FrameLen >= 1 /\ P = StartOf(f, k) + j * FrameLen
  BY UntilStart, EssencePlaces, ElementPlaces DEF Place
<1>2. Until(f, P) = n
  BY <1>1, UntilPlace
<1>3. P \in StartOf(f, k) .. EndOf(f, k) - 1 /\ P \in Nat /\ P + 1 \in Frames(f.cells)
  <2>1. 0 \in Nat /\ 0 < FrameLen /\ P = StartOf(f, k) + j * FrameLen + 0
    <3>1. j * FrameLen \in Nat /\ StartOf(f, k) \in Nat
      BY <1>1, FrameBounds, EssencePlaces
    <3>2. QED
      BY <1>1, <3>1
  <2> HIDE DEF j, P
  <2>2. QED
    BY <1>1, <2>1, EssenceCell, FrameCell
<1>4. P + FrameLen <= EndOf(f, k)
  <2> HIDE DEF j
  <2>1. QED
    BY <1>1, FrameBounds
<1>5. ASSUME NEW q \in Frames(f.cells) PROVE f.cells[q].frame = Until(f, q - 1) /\ q \in Nat /\ q - 1 \in Nat
  <2>1. f.cells[q].frame = Cardinality({s \in Frames(f.cells) : s < q})
    BY Zenon DEF FilesProper, ProperFile
  <2>2. \A s \in Frames(f.cells) : s \in Nat /\ s >= 1
    BY FramesFinite
  <2>3. {s \in Frames(f.cells) : s < q} = {s \in Frames(f.cells) : s <= q - 1}
    BY <2>2
  <2>4. QED
    BY <2>1, <2>2, <2>3 DEF Until
<1>6. f.cells[P + 1].frame = n
  <2>1. (P + 1) - 1 = P
    BY <1>3
  <2>2. QED
    BY <1>2, <1>3, <1>5, <2>1
<1>7. ASSUME NEW a \in Nat, NEW b \in Nat, a < b, a + 1 \in Frames(f.cells) PROVE Until(f, a) < Until(f, b)
  <2>1. Until(f, a) \in Nat /\ Until(f, a + 1) = Until(f, a) + 1
    BY <1>7, UntilNext
  <2>2. a + 1 \in Nat /\ a + 1 <= b
    BY <1>7
  <2>3. Until(f, b) \in Nat /\ Until(f, a + 1) <= Until(f, b)
    BY <2>2, UntilGrows
  <2>4. QED
    BY <2>1, <2>3
<1>8. ASSUME NEW p \in 0 .. Len(f.cells) - 1, p + 1 \in Frames(f.cells), f.cells[p + 1].frame = n PROVE p = P
  <2>1. p \in Nat /\ (p + 1) - 1 = p
    BY <1>8, FileIs
  <2>2. Until(f, p) = n
    BY <1>5, <1>8, <2>1
  <2>3. ~(p < P) /\ ~(P < p)
    BY <1>2, <1>3, <1>7, <1>8, <2>1, <2>2
  <2> HIDE DEF P
  <2>4. QED
    BY <1>3, <2>1, <2>3
<1>9. n < Cardinality(Frames(f.cells))
  <2>1. Len(f.cells) \in Nat /\ P < Len(f.cells)
    <3>1. EndOf(f, k) <= Len(f.cells) /\ EndOf(f, k) \in Nat /\ Len(f.cells) \in Nat /\ StartOf(f, k) \in Nat
      BY EssencePlaces
    <3> HIDE DEF P
    <3>2. QED
      BY <1>3, <3>1
  <2>2. QED
    BY <1>2, <1>3, <1>7, <2>1, UntilEnds
<1>10. QED
  BY <1>2, <1>3, <1>4, <1>6, <1>8, <1>9

-----------------------------------------------------------------------------
(* The numbers of first frames are sums of the frames in the partitions    *)
(* before.                                                                 *)
FramesIn(f, ks) == {q \in Frames(f.cells) : \E k \in ks : f.parts[k].at < q /\ q <= EndOf(f, k)}

(* The frames of some partitions are those of one and of the others.       *)
LEMMA FramesInOne ==
    ASSUME FilesProper, NEW f \in Files, NEW ks \in SUBSET (1 .. Count(f)), NEW x \in ks, f.parts[x].hasEssence
    PROVE  Cardinality(FramesIn(f, ks)) = NumOf(f, x) + Cardinality(FramesIn(f, ks \ {x}))
<1> DEFINE A == {q \in Frames(f.cells) : f.parts[x].at < q /\ q <= EndOf(f, x)}
           B == FramesIn(f, ks \ {x})
<1>1. x \in 1 .. Count(f) /\ f.parts[x].at \in Nat /\ EndOf(f, x) \in Nat /\ f.parts[x].at <= EndOf(f, x)
  <2>1. x \in 1 .. Count(f)
    OBVIOUS
  <2>2. f.parts[x].at \in Nat /\ StartOf(f, x) \in Nat /\ EndOf(f, x) \in Nat /\ f.parts[x].at + 2 <= StartOf(f, x)
    BY <2>1, FileIs
  <2>3. StartOf(f, x) <= EndOf(f, x)
    BY <2>1, PartIs
  <2>4. QED
    BY <2>1, <2>2, <2>3
<1>2. FramesIn(f, ks) = A \cup B
  BY DEF FramesIn
<1>3. A \cap B = {}
  <2> SUFFICES ASSUME NEW q \in Frames(f.cells), f.parts[x].at < q, q <= EndOf(f, x),
                      NEW k \in ks \ {x}, f.parts[k].at < q, q <= EndOf(f, k)
               PROVE  FALSE
    BY DEF FramesIn
  <2>1. k \in 1 .. Count(f) /\ k # x /\ q \in Nat
    BY FramesFinite
  <2>2. f.parts[k].at \in Nat /\ EndOf(f, k) \in Nat
    BY <2>1, FileIs
  <2>3. CASE k < x
    <3>1. k \in 1 .. x - 1
      BY <2>1, <2>3, <1>1
    <3>2. EndOf(f, k) <= f.parts[x].at
      BY <3>1, <1>1, PartsFollow
    <3>3. QED
      BY <3>2, <2>1, <2>2, <1>1
  <2>4. CASE x < k
    <3>1. x \in 1 .. k - 1
      BY <2>1, <2>4, <1>1
    <3>2. EndOf(f, x) <= f.parts[k].at
      BY <3>1, <2>1, PartsFollow
    <3>3. QED
      BY <3>2, <2>1, <2>2, <1>1
  <2>5. QED
    BY <2>1, <2>3, <2>4, <1>1
<1>4. IsFiniteSet(A) /\ IsFiniteSet(B)
  BY FramesFinite, FS_Subset DEF FramesIn
<1>5. Cardinality(A \cup B) = Cardinality(A) + Cardinality(B) - Cardinality(A \cap B)
  BY <1>4, FS_Union
<1>6. Cardinality(A \cap B) = 0 /\ Cardinality(A) \in Nat /\ Cardinality(B) \in Nat
  BY <1>3, <1>4, FS_EmptySet, FS_CardinalityType
<1>7. Cardinality(A) = NumOf(f, x)
  <2>1. Until(f, EndOf(f, x)) = Before(f, x) + Cardinality(A) /\ Before(f, x) \in Nat
    BY <1>1, SpanIs DEF Before
  <2>2. Until(f, EndOf(f, x)) = Before(f, x) + NumOf(f, x) /\ NumOf(f, x) \in Nat
    BY <1>1, UntilEnd, EssencePlaces
  <2> HIDE DEF A
  <2>3. QED
    BY <2>1, <2>2, <1>6
<1> HIDE DEF A, B
<1>8. QED
  BY <1>2, <1>5, <1>6, <1>7 DEF B

(* The sum of quotients that complete_partition_index adds up is the number*)
(* of frames in these partitions.                                          *)
LEMMA PackagesAre ==
    ASSUME FilesProper, file \in Files, NEW i, NEW ks \in SUBSET (1 .. Count(file) - 1),
           i.contentPackageLen = FrameLen,
           \A k \in ks : HasEssence(k) /\ i.partitions[k].essenceStartPos = StartOf(file, k)
    PROVE  PackagesIn(i, ks) = Cardinality(FramesIn(file, ks))
<1> DEFINE Num(k) == NumContentPackages(i, k)
           Is(h) == h = [s \in SUBSET ks |-> IF s = {} THEN 0
                                             ELSE LET x == CHOOSE y \in s : TRUE IN Num(x) + h[s \ {x}]]
           g == [s \in SUBSET ks |-> Cardinality(FramesIn(file, s))]
           sum == CHOOSE h : Is(h)
<1>1. PackagesIn(i, ks) = sum[ks]
  BY DEF PackagesIn, MapThenSumSet, MapThenFoldSet
<1>2. \A k \in ks : Num(k) = NumOf(file, k)
  BY DEF NumContentPackages, NumOf, EndOf, Parts, Count
<1>3. Is(g)
  <2>1. ASSUME NEW s \in SUBSET ks, s = {} PROVE g[s] = 0
    <3>1. FramesIn(file, s) = {}
      BY <2>1 DEF FramesIn
    <3>2. QED
      BY <3>1, FS_EmptySet
  <2>2. ASSUME NEW s \in SUBSET ks, s # {}, NEW x, x = CHOOSE y \in s : TRUE PROVE g[s] = Num(x) + g[s \ {x}]
    <3>1. x \in s
      BY <2>2
    <3>2. s \ {x} \in SUBSET ks /\ s \in SUBSET (1 .. Count(file)) /\ x \in ks
      BY <3>1, FileIs
    <3>3. Cardinality(FramesIn(file, s)) = NumOf(file, x) + Cardinality(FramesIn(file, s \ {x}))
      <4>1. file.parts[x].hasEssence
        BY <3>2 DEF HasEssence, Parts
      <4>2. QED
        BY <3>1, <3>2, <4>1, FramesInOne
    <3>4. g[s] = Cardinality(FramesIn(file, s)) /\ g[s \ {x}] = Cardinality(FramesIn(file, s \ {x}))
      BY <3>2
    <3>5. Num(x) = NumOf(file, x)
      BY <1>2, <3>2
    <3> HIDE DEF g, Num
    <3>6. QED
      BY <3>3, <3>4, <3>5
  <2> HIDE DEF Num
  <2>3. ASSUME NEW s \in SUBSET ks
        PROVE  g[s] = IF s = {} THEN 0 ELSE LET x == CHOOSE y \in s : TRUE IN Num(x) + g[s \ {x}]
    <3> HIDE DEF g
    <3>1. QED
      BY <2>1, <2>2
  <2>4. g = [s \in SUBSET ks |-> g[s]]
    OBVIOUS
  <2>5. QED
    <3> HIDE DEF g
    <3>1. [s \in SUBSET ks |-> g[s]] =
          [s \in SUBSET ks |-> IF s = {} THEN 0 ELSE LET x == CHOOSE y \in s : TRUE IN Num(x) + g[s \ {x}]]
      BY <2>3
    <3>2. QED
      BY <2>4, <3>1
<1>4. Is(sum)
  <2> HIDE DEF Is
  <2>1. QED
    BY <1>3
<1> DEFINE Bad == {n \in Nat : \E s \in SUBSET ks : Cardinality(s) = n /\ sum[s] # g[s]}
<1>5. IsFiniteSet(ks)
  <2>1. Count(file) - 1 \in Int
    BY FileIs
  <2>2. IsFiniteSet(1 .. Count(file) - 1)
    BY <2>1, FS_Interval
  <2>3. QED
    BY <2>2, FS_Subset
<1>6. Bad = {}
  <2> SUFFICES ASSUME Bad # {} PROVE FALSE
    OBVIOUS
  <2>1. PICK n \in Bad : \A m \in Bad : n <= m
    BY Least
  <2>2. PICK s \in SUBSET ks : Cardinality(s) = n /\ sum[s] # g[s]
    BY <2>1
  <2> HIDE DEF Num, g, sum
  <2>3. \A t \in SUBSET ks : t = {} => sum[t] = 0 /\ g[t] = 0
    BY <1>3, <1>4
  <2>4. s # {}
    BY <2>2, <2>3
  <2> DEFINE x == CHOOSE y \in s : TRUE
  <2>5. x \in s
    BY <2>4
  <2>6. sum[s] = Num(x) + sum[s \ {x}] /\ g[s] = Num(x) + g[s \ {x}]
    BY <1>3, <1>4, <2>4, Zenon
  <2> HIDE DEF x
  <2>7. Cardinality(s \ {x}) = n - 1 /\ n - 1 \in Nat
    <3>1. IsFiniteSet(s)
      BY <1>5, FS_Subset
    <3>2. Cardinality(s \ {x}) = n - 1 /\ IsFiniteSet(s \ {x})
      BY <3>1, <2>2, <2>5, FS_RemoveElement
    <3>3. Cardinality(s \ {x}) \in Nat
      BY <3>2, FS_CardinalityType
    <3>4. QED
      BY <3>2, <3>3
  <2>8. s \ {x} \in SUBSET ks /\ n - 1 \notin Bad
    <3>1. n \in Nat /\ ~(n <= n - 1) /\ \A m \in Bad : n <= m
      BY <2>1
    <3> HIDE DEF Bad
    <3>2. QED
      BY <3>1
  <2>9. sum[s \ {x}] = g[s \ {x}]
    BY <2>7, <2>8
  <2>10. QED
    BY <2>2, <2>6, <2>9
<1>7. Cardinality(ks) \in Nat
  BY <1>5, FS_CardinalityType
<1>8. sum[ks] = g[ks]
  BY <1>6, <1>7
<1>9. QED
  BY <1>1, <1>8

(* The frames in the partitions with essence before k are those before k.  *)
LEMMA FramesInBefore ==
    ASSUME FilesProper, NEW f \in Files, NEW k \in 1 .. Count(f)
    PROVE  Cardinality(FramesIn(f, {j \in 1 .. k - 1 : f.parts[j].hasEssence})) = Before(f, k)
<1> DEFINE ks == {j \in 1 .. k - 1 : f.parts[j].hasEssence}
<1>1. f.parts[k].at \in Nat /\ Count(f) \in Nat
  BY FileIs
<1>2. ASSUME NEW q \in Frames(f.cells), q <= f.parts[k].at PROVE q \in FramesIn(f, ks)
  <2>1. PICK j \in 1 .. Count(f) : f.parts[j].hasEssence /\ q - 1 \in StartOf(f, j) .. EndOf(f, j) - 1
    BY FrameSomewhere
  <2>2. q \in Nat
    BY FramesFinite
  <2>3. f.parts[j].at \in Nat /\ StartOf(f, j) \in Nat /\ EndOf(f, j) \in Nat /\ f.parts[j].at + 2 <= StartOf(f, j)
    BY FileIs
  <2>4. f.parts[j].at < q /\ q <= EndOf(f, j)
    BY <2>1, <2>2, <2>3
  <2>5. j < k
    <3>1. CASE k < j
      <4>1. k \in 1 .. j - 1
        BY <3>1
      <4>2. EndOf(f, k) <= f.parts[j].at
        BY <4>1, PartsFollow
      <4>3. StartOf(f, k) \in Nat /\ EndOf(f, k) \in Nat /\ f.parts[k].at + 2 <= StartOf(f, k) /\ StartOf(f, k) <= EndOf(f, k)
        BY FileIs, PartIs
      <4>4. QED
        BY <4>2, <4>3, <1>1, <1>2, <2>2, <2>3, <2>4
    <3>2. CASE k = j
      BY <3>2, <1>2, <2>2, <2>3, <2>4
    <3>3. QED
      BY <3>1, <3>2
  <2>6. QED
    BY <2>1, <2>4, <2>5 DEF FramesIn
<1>3. ASSUME NEW q \in FramesIn(f, ks) PROVE q \in Frames(f.cells) /\ q <= f.parts[k].at
  <2>1. q \in Frames(f.cells) /\ q \in Nat
    BY FramesFinite DEF FramesIn
  <2>2. PICK j \in ks : q <= EndOf(f, j)
    BY DEF FramesIn
  <2>3. EndOf(f, j) <= f.parts[k].at /\ EndOf(f, j) \in Nat
    BY PartsFollow, FileIs
  <2>4. QED
    BY <2>1, <2>2, <2>3, <1>1
<1>4. FramesIn(f, ks) = {q \in Frames(f.cells) : q <= f.parts[k].at}
  BY <1>2, <1>3
<1>5. QED
  BY <1>4 DEF Before, Until

-----------------------------------------------------------------------------
(* The index of the first n partitions, which is not at any frame yet.     *)
Entry(f, k) == IF f.parts[k].hasEssence THEN [essenceStartPos |-> StartOf(f, k), startPosition |-> Before(f, k)]
                                        ELSE NewEntry
KLs == Cells \cup {NullKL}
Indexes == [partitions : Seq([essenceStartPos : Int, startPosition : Int]), currentPartition : Nat,
            isComplete : BOOLEAN, currentPosition : Int, indexedDuration : Nat, contentPackageLen : Nat,
            next : KLs]
RightIndex(i, f, n) ==
    /\ i \in Indexes
    /\ i.partitions = [k \in 1 .. n |-> Entry(f, k)]
    /\ i.contentPackageLen = FrameLen
    /\ i.isComplete = (f.parts[n].kind = "footer")
    /\ i.indexedDuration = Before(f, n)

(* What is there of a file of which n partitions are known.                *)
There(f, w) ==
    /\ w \in 0 .. Len(f.cells)
    /\ f.parts[1].hasEssence => StartOf(f, 1) + FrameLen <= w
Known(f, n, w) ==
    /\ FilesProper /\ f \in Files
    /\ n \in {1, Count(f)}
    /\ There(f, w)
    /\ n = Count(f) => w = Len(f.cells)

(* It is at a frame of a partition, or behind its last.                    *)
InIndex(i, f, n) ==
    /\ RightIndex(i, f, n)
    /\ i.currentPartition \in 1 .. n /\ f.parts[i.currentPartition].hasEssence
    /\ i.currentPosition \in Nat
    /\ Before(f, i.currentPartition) <= i.currentPosition
    /\ i.currentPartition < n =>
          i.currentPosition <= Before(f, i.currentPartition) + NumOf(f, i.currentPartition)

Moved(i, k, position, kl) ==
    [i EXCEPT !.currentPartition = k, !.currentPosition = position, !.next = kl]
AsBefore(i, j) == \E k, position, kl : j = Moved(i, k, position, kl)

(* The least of a set of naturals.                                         *)
LEMMA FirstIs ==
    ASSUME NEW S \in SUBSET Nat, S # {}
    PROVE  First(S) \in S /\ \A j \in S : First(S) <= j
BY Least DEF First

(* A bounded set of naturals has a greatest.                               *)
LEMMA LastIs ==
    ASSUME NEW S \in SUBSET Nat, S # {}, NEW n \in Nat, \A k \in S : k <= n
    PROVE  \E k \in S : \A j \in S : j <= k
<1> DEFINE T == {n - k : k \in S}
<1>1. T \subseteq Nat /\ T # {}
  <2>1. \A k \in S : n - k \in Nat
    OBVIOUS
  <2>2. PICK s \in S : TRUE
    OBVIOUS
  <2>3. n - s \in T
    OBVIOUS
  <2>4. QED
    BY <2>1, <2>3
<1>2. PICK t \in T : \A m \in T : t <= m
  BY <1>1, Least
<1>3. PICK k \in S : t = n - k
  BY <1>2
<1>4. ASSUME NEW j \in S PROVE j <= k
  <2>1. n - j \in T
    OBVIOUS
  <2>2. n - k <= n - j /\ j \in Nat /\ k \in Nat
    BY <2>1, <1>2, <1>3
  <2> HIDE DEF T
  <2>3. QED
    BY <2>2
<1>5. QED
  BY <1>4

(* What is known of a right index.                                         *)
LEMMA IndexFacts ==
    ASSUME NEW f \in Files, NEW n \in 1 .. Count(f), NEW i, RightIndex(i, f, n)
    PROVE  /\ Len(i.partitions) = n /\ DOMAIN i.partitions = 1 .. n
           /\ \A k \in 1 .. n : i.partitions[k] = Entry(f, k)
           /\ i \in Indexes /\ n \in Nat /\ Count(f) \in Nat /\ n <= Count(f)
<1>1. i \in Indexes /\ i.partitions = [k \in 1 .. n |-> Entry(f, k)]
  BY DEF RightIndex
<1>2. i.partitions \in Seq([essenceStartPos : Int, startPosition : Int])
  BY <1>1 DEF Indexes
<1>3. DOMAIN i.partitions = 1 .. n
  BY <1>1
<1>4. n \in Nat /\ Count(f) \in Nat /\ n <= Count(f)
  BY FileIs
<1>5. Len(i.partitions) = n
  BY <1>2, <1>3, <1>4
<1>6. QED
  BY <1>1, <1>3, <1>4, <1>5

(* Moving about leaves an index right.                                     *)
LEMMA MovedIs ==
    ASSUME NEW f \in Files, NEW n \in 1 .. Count(f), NEW i, RightIndex(i, f, n),
           NEW k \in Nat, NEW position \in Int, NEW kl \in KLs, NEW j, j = Moved(i, k, position, kl)
    PROVE  /\ RightIndex(j, f, n)
           /\ j.currentPartition = k /\ j.currentPosition = position /\ j.next = kl
           /\ j.partitions = i.partitions /\ j.isComplete = i.isComplete
           /\ j.contentPackageLen = i.contentPackageLen /\ j.indexedDuration = i.indexedDuration
<1>1. i \in Indexes
  BY DEF RightIndex
<1>2. j \in Indexes
  BY <1>1 DEF Indexes, Moved
<1>3. /\ j.currentPartition = k /\ j.currentPosition = position /\ j.next = kl
      /\ j.partitions = i.partitions /\ j.isComplete = i.isComplete
      /\ j.contentPackageLen = i.contentPackageLen /\ j.indexedDuration = i.indexedDuration
  BY <1>1 DEF Indexes, Moved
<1>4. QED
  BY <1>2, <1>3, Zenon DEF RightIndex

(* restore_index undoes every move.                                        *)
LEMMA RestoredIs ==
    ASSUME NEW i \in Indexes, NEW j, AsBefore(i, j)
    PROVE  Restored(j, i) = i
BY DEF AsBefore, Restored, Indexes, Moved

(* Either the first partition is known or all are.                         *)
LEMMA KnownFacts ==
    ASSUME NEW f, NEW n, NEW w, Known(f, n, w)
    PROVE  /\ FilesProper /\ f \in Files /\ n \in 1 .. Count(f) /\ Count(f) \in Nat /\ Count(f) >= 1 /\ n \in Nat
           /\ w \in Nat /\ w <= Len(f.cells) /\ Len(f.cells) \in Nat
           /\ n = 1 \/ n = Count(f)
<1>1. FilesProper /\ f \in Files /\ n \in {1, Count(f)} /\ w \in 0 .. Len(f.cells)
  BY DEF Known, There
<1>2. Count(f) \in Nat /\ Count(f) >= 1 /\ Len(f.cells) \in Nat
  BY <1>1, FileIs
<1>3. QED
  BY <1>1, <1>2

(* The first frame of a known partition is there.                          *)
LEMMA StartThere ==
    ASSUME NEW n, Known(file, n, written),
           NEW k \in 1 .. n, file.parts[k].hasEssence
    PROVE  /\ StartOf(file, k) \in Nat /\ StartOf(file, k) < written
           /\ KLAt(StartOf(file, k)) \in Cells
           /\ KLAt(StartOf(file, k)).key = StartKey /\ IsElement(KLAt(StartOf(file, k)))
<1>1. /\ FilesProper /\ file \in Files /\ n \in 1 .. Count(file) /\ k \in 1 .. Count(file)
      /\ written \in Nat /\ Len(file.cells) \in Nat /\ (n = 1 \/ n = Count(file))
  BY KnownFacts
<1> DEFINE S == StartOf(file, k)
<1>2. S \in Nat /\ S < EndOf(file, k) /\ EndOf(file, k) \in Nat /\ EndOf(file, k) <= Len(file.cells) /\ NumOf(file, k) >= 1
      /\ NumOf(file, k) \in Nat
  BY <1>1, EssencePlaces
<1>3. FrameLen \in Nat /\ FrameLen >= 1 /\ 0 < FrameLen
  BY ElementPlaces
<1>4. S < written
  <2>1. CASE n = Count(file)
    <3>1. written = Len(file.cells)
      BY <2>1 DEF Known
    <3>2. QED
      BY <3>1, <1>1, <1>2
  <2>2. CASE n = 1
    <3>1. k = 1 /\ StartOf(file, 1) + FrameLen <= written
      BY <2>2, <1>1 DEF Known, There
    <3>2. QED
      BY <3>1, <1>1, <1>2, <1>3
  <2>3. QED
    BY <1>1, <2>1, <2>2
<1>5. S = StartOf(file, k) + 0 * FrameLen + 0 /\ 0 \in Nat /\ 0 < NumOf(file, k)
  BY <1>2, <1>3
<1> HIDE DEF S
<1>6. S + 1 \in Frames(file.cells) /\ S + 1 \in 1 .. Len(file.cells)
  BY <1>1, <1>3, <1>5, FrameCell, EssenceCell
<1>7. KLAt(S) \in Cells /\ KLAt(S).key = StartKey
  BY <1>1, <1>6, FileIs DEF KLAt, File, Frames
<1>8. IsElement(KLAt(S))
  BY <1>7, ElementsAre, ElementPlaces DEF IsElement, StartKey
<1>9. QED
  BY <1>2, <1>4, <1>7, <1>8 DEF S

(* At the essence of a known partition stands an element.                  *)
LEMMA PositionedAtStart ==
    ASSUME NEW n, Known(file, n, written), NEW i, RightIndex(i, file, n),
           NEW k \in 1 .. n, file.parts[k].hasEssence
    PROVE  PositionAtStartEssence([i EXCEPT !.currentPartition = k], k) =
              Done([i EXCEPT !.currentPartition = k, !.next = KLAt(StartOf(file, k))], StartOf(file, k) + 1)
<1> DEFINE S == StartOf(file, k)
           j == [i EXCEPT !.currentPartition = k]
<1>1. file \in Files /\ n \in 1 .. Count(file) /\ n \in Nat
  BY KnownFacts
<1>2. S \in Nat /\ S < written /\ KLAt(S) \in Cells /\ IsElement(KLAt(S))
  BY StartThere
<1>3. i \in Indexes /\ i.partitions[k] = Entry(file, k) /\ DOMAIN i.partitions = 1 .. n
  BY <1>1, IndexFacts
<1>4. i.partitions[k].essenceStartPos = S /\ i.partitions[k] = [essenceStartPos |-> S, startPosition |-> Before(file, k)]
  BY <1>3 DEF Entry
<1>5. j \in Indexes /\ j.partitions = i.partitions
  <2>1. k \in Nat /\ i \in Indexes
    BY <1>1, <1>3
  <2>2. QED
    BY <2>1 DEF Indexes
<1>6. EssenceStart(j, k) = S
  <2>1. S >= 0
    BY <1>2
  <2>2. QED
    BY <2>1, <1>4, <1>5 DEF EssenceStart
<1>7. ~AtEOF(S)
  <2>1. written \in Nat
    BY KnownFacts
  <2>2. QED
    BY <2>1, <1>2 DEF AtEOF
<1>8. [j EXCEPT !.partitions[k].essenceStartPos = S, !.next = KLAt(S)] = [i EXCEPT !.currentPartition = k, !.next = KLAt(S)]
  <2>1. [i.partitions EXCEPT ![k].essenceStartPos = S] = i.partitions
    <3>1. [i.partitions[k] EXCEPT !.essenceStartPos = S] = i.partitions[k]
      BY <1>4
    <3>2. i.partitions = [m \in 1 .. n |-> i.partitions[m]]
      BY DEF RightIndex
    <3>3. QED
      BY <3>1, <3>2
  <2>2. [j EXCEPT !.partitions[k].essenceStartPos = S, !.next = KLAt(S)]
          = [j EXCEPT !.partitions = [i.partitions EXCEPT ![k].essenceStartPos = S], !.next = KLAt(S)]
    BY <1>5
  <2>3. QED
    BY <2>1, <2>2, <1>3 DEF Indexes
<1>9. QED
  <2>1. PositionAtStartEssence(j, k) = Done([j EXCEPT !.partitions[k].essenceStartPos = S, !.next = KLAt(S)], S + 1)
    BY <1>2, <1>6, <1>7, Zenon DEF PositionAtStartEssence
  <2>2. QED
    BY <2>1, <1>8, Zenon

(* What moves change, restore_index puts back.                             *)
LEMMA AsBeforeIs ==
    ASSUME NEW i \in Indexes, NEW k, NEW kl
    PROVE  /\ AsBefore(i, i)
           /\ AsBefore(i, [i EXCEPT !.currentPartition = k])
           /\ AsBefore(i, [i EXCEPT !.currentPartition = k, !.next = kl])
           /\ AsBefore(i, [[i EXCEPT !.currentPartition = k] EXCEPT !.next = kl])
<1>1. i = Moved(i, i.currentPartition, i.currentPosition, i.next)
  BY DEF Moved, Indexes
<1>2. [i EXCEPT !.currentPartition = k] = Moved(i, k, i.currentPosition, i.next)
  BY DEF Moved, Indexes
<1>3. [i EXCEPT !.currentPartition = k, !.next = kl] = Moved(i, k, i.currentPosition, kl)
  BY DEF Moved, Indexes
<1>4. [[i EXCEPT !.currentPartition = k] EXCEPT !.next = kl] = Moved(i, k, i.currentPosition, kl)
  BY DEF Moved, Indexes
<1>5. \A c, position, x : AsBefore(i, Moved(i, c, position, x))
  BY DEF AsBefore
<1>6. QED
  BY <1>1, <1>2, <1>3, <1>4, <1>5

(* On to the next partition with essence.                                  *)
EssenceIn(f, a, b) == {k \in a .. b : f.parts[k].hasEssence}
NoWay(i, r) == \/ r.result = "failed" /\ AsBefore(i, r.ix)
               \/ r = Crashed

(* A partition that is not known leads nowhere.                            *)
LEMMA AddIs ==
    ASSUME NEW i, NEW j, AsBefore(i, j), NEW at
    PROVE  NoWay(i, AddPartition(j, at))
BY DEF AddPartition, NoWay, Failed

(* move_to_next_partition_with_essence goes to the next known partition    *)
(* with essence, and nowhere if there is none.                             *)
LEMMA NextIs ==
    ASSUME NEW n, Known(file, n, written), NEW i, RightIndex(i, file, n), i.currentPartition \in 0 .. n, NEW at,
           NEW C, C = EssenceIn(file, i.currentPartition + 1, n)
    PROVE  /\ C # {} => /\ First(C) \in C /\ \A k \in C : First(C) <= k
                        /\ MoveToNext(i, at) =
                              Done([i EXCEPT !.currentPartition = First(C), !.next = KLAt(StartOf(file, First(C)))],
                                   StartOf(file, First(C)) + 1)
           /\ C = {} => NoWay(i, MoveToNext(i, at))
<1>1. file \in Files /\ n \in 1 .. Count(file) /\ n \in Nat
  BY KnownFacts
<1>2. Len(i.partitions) = n /\ i \in Indexes
  BY <1>1, IndexFacts
<1>3. {k \in i.currentPartition + 1 .. Len(i.partitions) : HasEssence(k)} = C
  BY <1>2 DEF EssenceIn, HasEssence, Parts
<1>4. CASE C # {}
  <2>1. C \in SUBSET Nat
    BY <1>1 DEF EssenceIn
  <2>2. First(C) \in C /\ \A k \in C : First(C) <= k
    BY <1>4, <2>1, FirstIs
  <2>3. First(C) \in 1 .. n /\ file.parts[First(C)].hasEssence
    BY <2>2, <1>1 DEF EssenceIn
  <2>4. MoveToNext(i, at) = PositionAtStartEssence([i EXCEPT !.currentPartition = First(C)], First(C))
    BY <1>3, <1>4, Zenon DEF MoveToNext
  <2>5. PositionAtStartEssence([i EXCEPT !.currentPartition = First(C)], First(C)) =
           Done([i EXCEPT !.currentPartition = First(C), !.next = KLAt(StartOf(file, First(C)))],
                StartOf(file, First(C)) + 1)
    <3>1. ASSUME NEW k \in 1 .. n, file.parts[k].hasEssence
          PROVE  PositionAtStartEssence([i EXCEPT !.currentPartition = k], k) =
                    Done([i EXCEPT !.currentPartition = k, !.next = KLAt(StartOf(file, k))], StartOf(file, k) + 1)
      BY <3>1, PositionedAtStart
    <3>2. QED
      BY <2>3, <3>1, Zenon
  <2>6. QED
    BY <1>4, <2>2, <2>4, <2>5, Zenon
<1>5. CASE C = {}
  <2> DEFINE last == Len(i.partitions)
             packs == NextPackBehind(PartitionDataStart(last))
             atLast == [i EXCEPT !.currentPartition = last]
  <2>1. MoveToNext(i, at) = IF i.isComplete THEN Failed(i)
                            ELSE IF i.currentPartition < last
                            THEN IF packs = {} THEN Failed([atLast EXCEPT !.next = NullKL])
                                               ELSE AddPartition(atLast, First(packs) + 1)
                            ELSE IF i.next.key = "pack" THEN AddPartition(i, at) ELSE Failed(i)
    BY <1>3, <1>5, Zenon DEF MoveToNext
  <2>2. AsBefore(i, i) /\ AsBefore(i, atLast) /\ AsBefore(i, [atLast EXCEPT !.next = NullKL])
    BY <1>2, AsBeforeIs
  <2> HIDE DEF last, packs, atLast
  <2>3. NoWay(i, Failed(i)) /\ NoWay(i, Failed([atLast EXCEPT !.next = NullKL]))
    BY <2>2 DEF NoWay, Failed
  <2>4. NoWay(i, AddPartition(atLast, First(packs) + 1)) /\ NoWay(i, AddPartition(i, at))
    BY <2>2, AddIs
  <2>5. QED
    BY <1>5, <2>1, <2>3, <2>4, Zenon
<1>6. QED
  BY <1>4, <1>5

-----------------------------------------------------------------------------
(* Looking for a frame.                                                    *)
SoughtIn(n, k, position) ==
    /\ k \in 1 .. n /\ file.parts[k].hasEssence
    /\ Before(file, k) <= position
    /\ k < n => position <= Before(file, k) + NumOf(file, k)
IndexedTo(n) == Until(file, EndOf(file, n))
Sought(i, n, position, r) ==
    \/ /\ r.result = "done"
       /\ \E k : /\ SoughtIn(n, k, position) /\ Place(file, k, position) < written
                 /\ r = Done(Moved(i, k, position, KLAt(Place(file, k, position))), Place(file, k, position) + 1)
    \/ /\ r.result = "failed" /\ AsBefore(i, r.ix)
       /\ position < IndexedTo(n) => \E k : SoughtIn(n, k, position) /\ ~(Place(file, k, position) < written)
    \/ /\ r = Crashed
       /\ ~(position < IndexedTo(n))

(* Places of frames follow each other by the length of a frame, from the   *)
(* start of the essence to its end.                                        *)
LEMMA PlaceIs ==
    ASSUME FilesProper, NEW f \in Files, NEW k \in 1 .. Count(f), f.parts[k].hasEssence,
           NEW n \in Nat, Before(f, k) <= n
    PROVE  /\ Place(f, k, n) \in Nat /\ StartOf(f, k) <= Place(f, k, n)
           /\ n = Before(f, k) + NumOf(f, k) => Place(f, k, n) = EndOf(f, k)
           /\ n > Before(f, k) + NumOf(f, k) => Place(f, k, n) > EndOf(f, k)
           /\ Place(f, k, n + 1) = Place(f, k, n) + FrameLen
           /\ n = Before(f, k) => Place(f, k, n) = StartOf(f, k)
<1>1. /\ Before(f, k) \in Nat /\ NumOf(f, k) \in Nat /\ FrameLen \in Nat /\ FrameLen >= 1 /\ StartOf(f, k) \in Nat
      /\ EndOf(f, k) = StartOf(f, k) + NumOf(f, k) * FrameLen
  BY UntilStart, EssencePlaces, ElementPlaces
<1> DEFINE j == n - Before(f, k)
<1>2. j \in Nat /\ n = Before(f, k) + j /\ (n + 1) - Before(f, k) = j + 1
  BY <1>1
<1>3. Place(f, k, n) = StartOf(f, k) + j * FrameLen /\ Place(f, k, n + 1) = StartOf(f, k) + (j + 1) * FrameLen
  BY <1>2 DEF Place
<1> HIDE DEF j
<1>4. j * FrameLen \in Nat /\ (j + 1) * FrameLen = j * FrameLen + FrameLen
  <2>1. j \in Nat /\ FrameLen \in Nat
    BY <1>1, <1>2
  <2>2. QED
    BY <2>1
<1>5. Place(f, k, n) \in Nat /\ StartOf(f, k) <= Place(f, k, n) /\ Place(f, k, n + 1) = Place(f, k, n) + FrameLen
  <2>1. PICK z \in Nat : z = j * FrameLen
    BY <1>4
  <2>2. QED
    BY <2>1, <1>1, <1>3, <1>4
<1>6. ASSUME n = Before(f, k) + NumOf(f, k) PROVE Place(f, k, n) = EndOf(f, k)
  <2>1. j = NumOf(f, k)
    <3>1. j \in Nat /\ NumOf(f, k) \in Nat /\ Before(f, k) \in Nat /\ n = Before(f, k) + j
      BY <1>1, <1>2
    <3>2. QED
      BY <3>1, <1>6
  <2>2. QED
    BY <2>1, <1>1, <1>3
<1>7. ASSUME n > Before(f, k) + NumOf(f, k) PROVE Place(f, k, n) > EndOf(f, k)
  <2>1. PICK m \in Nat : j = NumOf(f, k) + 1 + m
    <3>1. j - NumOf(f, k) - 1 \in Nat /\ j = NumOf(f, k) + 1 + (j - NumOf(f, k) - 1)
      BY <1>1, <1>2, <1>7
    <3>2. QED
      BY <3>1
  <2>2. j * FrameLen = NumOf(f, k) * FrameLen + FrameLen + m * FrameLen /\ m * FrameLen \in Nat /\ NumOf(f, k) * FrameLen \in Nat
    BY <2>1, <1>1
  <2>3. PICK x \in Nat, y \in Nat : x = NumOf(f, k) * FrameLen /\ y = m * FrameLen
    BY <2>2
  <2>4. Place(f, k, n) = StartOf(f, k) + (x + FrameLen + y) /\ EndOf(f, k) = StartOf(f, k) + x
    BY <2>2, <2>3, <1>1, <1>3
  <2>5. QED
    BY <2>4, <1>1
<1>8. ASSUME n = Before(f, k) PROVE Place(f, k, n) = StartOf(f, k)
  <2>1. j = 0
    BY <1>1, <1>2, <1>8
  <2>2. QED
    BY <2>1, <1>1, <1>3
<1>9. QED
  BY <1>5, <1>6, <1>7, <1>8

(* A seek in the partition that a frame is in finds its place.             *)
LEMMA SeekInIs ==
    ASSUME NEW n, Known(file, n, written), NEW i, RightIndex(i, file, n),
           NEW position \in Nat, NEW k, SoughtIn(n, k, position)
    PROVE  Sought(i, n, position, SeekIn(i, k, position))
<1> DEFINE P == Place(file, k, position)
           there == [i EXCEPT !.currentPartition = k, !.currentPosition = position]
<1>1. /\ FilesProper /\ file \in Files /\ n \in 1 .. Count(file) /\ n \in Nat /\ k \in 1 .. Count(file) /\ k \in 1 .. n
      /\ written \in Nat
  BY KnownFacts DEF SoughtIn
<1>2. i \in Indexes /\ i.partitions[k] = Entry(file, k) /\ i.contentPackageLen = FrameLen
  BY <1>1, IndexFacts DEF RightIndex
<1>3. i.partitions[k].essenceStartPos = StartOf(file, k) /\ i.partitions[k].startPosition = Before(file, k)
  BY <1>2 DEF Entry, SoughtIn
<1>4. P = i.partitions[k].essenceStartPos + (position - i.partitions[k].startPosition) * i.contentPackageLen
  BY <1>2, <1>3 DEF Place
<1>5. P \in Nat
  BY <1>1, PlaceIs DEF SoughtIn
<1>6. \A kl : [there EXCEPT !.next = kl] = Moved(i, k, position, kl)
  BY <1>2 DEF Moved, Indexes
<1>7. SeekIn(i, k, position) = IF AtEOF(P) THEN Failed(Moved(i, k, position, NullKL))
                               ELSE Done(Moved(i, k, position, KLAt(P)), P + 1)
  BY <1>4, <1>6, Zenon DEF SeekIn
<1> HIDE DEF P
<1>8. AtEOF(P) <=> ~(P < written)
  BY <1>1, <1>5 DEF AtEOF
<1>9. CASE AtEOF(P)
  <2>1. SeekIn(i, k, position) = Failed(Moved(i, k, position, NullKL))
    BY <1>7, <1>9
  <2>2. AsBefore(i, Moved(i, k, position, NullKL))
    BY DEF AsBefore
  <2>3. QED
    BY <2>1, <2>2, <1>8, <1>9 DEF Sought, Failed, P
<1>10. CASE ~AtEOF(P)
  <2>1. SeekIn(i, k, position) = Done(Moved(i, k, position, KLAt(P)), P + 1)
    BY <1>7, <1>10
  <2>2. QED
    BY <2>1, <1>8, <1>10 DEF Sought, Done, P
<1>11. QED
  BY <1>9, <1>10

(* The first frame of a partition follows the last of the one before.      *)
LEMMA NextBefore ==
    ASSUME FilesProper, NEW f \in Files, NEW k \in 1 .. Count(f), f.parts[k].hasEssence,
           NEW m \in 1 .. Count(f), EssenceIn(f, k + 1, m) # {}, NEW j, j = First(EssenceIn(f, k + 1, m))
    PROVE  /\ j \in k + 1 .. m /\ j \in 1 .. Count(f) /\ f.parts[j].hasEssence
           /\ Before(f, j) = Before(f, k) + NumOf(f, k)
           /\ \A c \in EssenceIn(f, k + 1, m) : j <= c
<1> DEFINE C == EssenceIn(f, k + 1, m)
<1>1. C \in SUBSET Nat /\ Count(f) \in Nat
  BY FileIs DEF EssenceIn
<1>2. j \in C /\ \A c \in C : j <= c
  BY <1>1, FirstIs
<1>3. j \in k + 1 .. m /\ j \in k + 1 .. Count(f) /\ j \in 1 .. Count(f) /\ f.parts[j].hasEssence /\ j \in Nat /\ k \in Nat
  BY <1>1, <1>2 DEF EssenceIn
<1>4. ASSUME NEW c \in k + 1 .. j - 1, f.parts[c].hasEssence PROVE FALSE
  <2>1. c \in C
    BY <1>3, <1>4 DEF EssenceIn
  <2>2. j <= c
    BY <2>1, <1>2
  <2>3. QED
    BY <2>2, <1>3, <1>4
<1>5. Before(f, j) = Until(f, EndOf(f, k))
  BY <1>3, <1>4, BeforeFollows
<1>6. QED
  BY <1>2, <1>3, <1>5, UntilEnd

(* Without essence behind it, a partition has the last frame.              *)
LEMMA NoneBehind ==
    ASSUME FilesProper, NEW f \in Files, NEW k \in 1 .. Count(f), f.parts[k].hasEssence,
           NEW m \in k .. Count(f), EssenceIn(f, k + 1, m) = {}
    PROVE  Until(f, EndOf(f, m)) = Before(f, k) + NumOf(f, k)
<1>1. Count(f) \in Nat /\ Until(f, EndOf(f, k)) = Before(f, k) + NumOf(f, k)
  BY FileIs, UntilEnd
<1>2. CASE m = k
  BY <1>1, <1>2
<1>3. CASE m # k
  <2>1. m \in k + 1 .. Count(f) /\ m \in 1 .. Count(f)
    BY <1>1, <1>3
  <2>2. \A c \in k + 1 .. m : ~f.parts[c].hasEssence
    BY DEF EssenceIn
  <2>3. m \in k + 1 .. m /\ \A c \in k + 1 .. m - 1 : c \in k + 1 .. m
    BY <2>1, <1>1
  <2>4. Before(f, m) = Until(f, EndOf(f, k))
    BY <2>1, <2>2, <2>3, BeforeFollows
  <2>5. Until(f, EndOf(f, m)) = Before(f, m)
    BY <2>1, <2>2, <2>3, UntilStart
  <2>6. QED
    BY <1>1, <2>4, <2>5
<1>4. QED
  BY <1>2, <1>3

(* Going backward, the partition is the one of the frame.                  *)
LEMMA BackwardIs ==
    ASSUME NEW n, Known(file, n, written), NEW i, InIndex(i, file, n),
           NEW position \in Nat, position < i.currentPosition
    PROVE  Sought(i, n, position, Backward(i, position))
<1> DEFINE cp == i.currentPartition
           B == {k \in EssencePartitions(i) : k <= i.currentPartition /\ i.partitions[k].startPosition <= position}
           k == CHOOSE b \in B : \A c \in B : c <= b
<1>1. /\ FilesProper /\ file \in Files /\ n \in 1 .. Count(file) /\ n \in Nat /\ Count(file) \in Nat
      /\ RightIndex(i, file, n) /\ cp \in 1 .. n /\ file.parts[cp].hasEssence /\ i.currentPosition \in Nat
      /\ cp < n => i.currentPosition <= Before(file, cp) + NumOf(file, cp)
  BY KnownFacts DEF InIndex
<1>2. EssencePartitions(i) = {c \in 1 .. n : file.parts[c].hasEssence}
  BY <1>1, IndexFacts DEF EssencePartitions, HasEssence, Parts
<1>3. \A c \in 1 .. n : file.parts[c].hasEssence => i.partitions[c].startPosition = Before(file, c)
  <2> SUFFICES ASSUME NEW c \in 1 .. n, file.parts[c].hasEssence
               PROVE  i.partitions[c].startPosition = Before(file, c)
    OBVIOUS
  <2>1. i.partitions[c] = Entry(file, c)
    BY <1>1, IndexFacts
  <2>2. QED
    BY <2>1 DEF Entry
<1>4. B = {c \in 1 .. n : file.parts[c].hasEssence /\ c <= cp /\ Before(file, c) <= position}
  BY <1>2, <1>3
<1>5. B # {}
  <2> DEFINE E == EssenceIn(file, 1, cp)
  <2>1. E \in SUBSET Nat /\ cp \in E
    BY <1>1 DEF EssenceIn
  <2>2. First(E) \in E /\ \A c \in E : First(E) <= c
    BY <2>1, FirstIs
  <2>3. First(E) \in 1 .. n /\ First(E) \in 1 .. Count(file) /\ First(E) <= cp /\ file.parts[First(E)].hasEssence
    BY <2>1, <2>2, <1>1 DEF EssenceIn
  <2>4. ASSUME NEW c \in 1 .. First(E) - 1, file.parts[c].hasEssence PROVE FALSE
    <3>1. c \in E
      BY <2>3, <2>4, <1>1 DEF EssenceIn
    <3>2. First(E) <= c
      BY <3>1, <2>2
    <3>3. QED
      BY <3>2, <2>3, <2>4, <1>1
  <2>5. Before(file, First(E)) = 0
    BY <1>1, <2>3, <2>4, BeforeFirst
  <2>6. First(E) \in B
    BY <1>4, <2>3, <2>5
  <2>7. QED
    BY <2>6
<1>6. k \in B /\ \A c \in B : c <= k
  <2>1. B \in SUBSET Nat /\ \A c \in B : c <= n
    BY <1>1, <1>4
  <2> HIDE DEF B
  <2>2. \E b \in B : \A c \in B : c <= b
    BY <2>1, <1>1, <1>5, LastIs
  <2>3. QED
    BY <2>2
<1>7. k \in 1 .. n /\ k \in 1 .. Count(file) /\ file.parts[k].hasEssence /\ k <= cp /\ Before(file, k) <= position
  <2> HIDE DEF k, B
  <2>1. k \in 1 .. n /\ file.parts[k].hasEssence /\ k <= cp /\ Before(file, k) <= position
    BY <1>4, <1>6
  <2>2. n <= Count(file) /\ n \in Nat /\ Count(file) \in Nat
    BY <1>1
  <2>3. QED
    BY <2>1, <2>2
<1>8. Backward(i, position) = SeekIn(i, k, position)
  BY <1>5, Zenon DEF Backward
<1>9. \A c \in 1 .. n : file.parts[c].hasEssence /\ c <= cp /\ Before(file, c) <= position => c <= k
  BY <1>4, <1>6
<1> HIDE DEF k, B
<1>10. position <= Before(file, k) + NumOf(file, k) \/ ~(k < n)
  <2>1. Before(file, k) \in Nat /\ NumOf(file, k) \in Nat
    BY <1>1, <1>7, UntilStart, EssencePlaces
  <2>2. CASE k = cp
    BY <2>1, <2>2, <1>1
  <2>3. CASE k # cp
    <3> DEFINE C == EssenceIn(file, k + 1, cp)
    <3>1. cp \in C /\ cp \in 1 .. Count(file)
      BY <2>3, <1>1, <1>7 DEF EssenceIn
    <3>2. /\ First(C) \in k + 1 .. cp /\ First(C) \in 1 .. Count(file) /\ file.parts[First(C)].hasEssence
          /\ Before(file, First(C)) = Before(file, k) + NumOf(file, k)
      BY <3>1, <1>1, <1>7, NextBefore
    <3>3. ~(Before(file, First(C)) <= position)
      <4>1. First(C) \in 1 .. n /\ First(C) <= cp /\ ~(First(C) <= k)
        BY <3>2, <1>1, <1>7
      <4>2. QED
        BY <4>1, <3>2, <1>9
    <3> HIDE DEF C
    <3>4. position < Before(file, k) + NumOf(file, k)
      BY <3>2, <3>3, <2>1
    <3>5. QED
      BY <3>4, <2>1
  <2>4. QED
    BY <2>2, <2>3
<1>11. SoughtIn(n, k, position)
  BY <1>7, <1>10 DEF SoughtIn
<1>12. QED
  BY <1>1, <1>8, <1>11, SeekInIs

(* Going on from a partition ends at the next with essence.                *)
LEMMA OnFromIs ==
    ASSUME NEW n, Known(file, n, written), NEW i, RightIndex(i, file, n), NEW k \in 1 .. n
    PROVE  /\ EssenceIn(file, k + 1, n) # {} => OnFrom(i, k).result = "done"
           /\ EssenceIn(file, k + 1, n) = {} => NoWay(i, OnFrom(i, k)) /\ OnFrom(i, k).result # "done"
<1> DEFINE j == [i EXCEPT !.currentPartition = k]
           C == EssenceIn(file, k + 1, n)
<1>1. file \in Files /\ n \in 1 .. Count(file) /\ n \in Nat /\ k \in Nat /\ k \in 0 .. n
  BY KnownFacts
<1>2. i \in Indexes
  BY DEF RightIndex
<1>3. i.currentPosition \in Int /\ i.next \in KLs /\ j = Moved(i, k, i.currentPosition, i.next)
  BY <1>2 DEF Indexes, Moved
<1>4. RightIndex(j, file, n) /\ j.currentPartition = k
  BY <1>1, <1>3, MovedIs
<1>5. OnFrom(i, k) = MoveToNext(j, 0)
  BY DEF OnFrom
<1>6. /\ C # {} => MoveToNext(j, 0) = Done([j EXCEPT !.currentPartition = First(C), !.next = KLAt(StartOf(file, First(C)))],
                                            StartOf(file, First(C)) + 1)
      /\ C = {} => NoWay(j, MoveToNext(j, 0))
  <2> HIDE DEF j
  <2>1. C = EssenceIn(file, j.currentPartition + 1, n) /\ j.currentPartition \in 0 .. n
    BY <1>1, <1>4
  <2> HIDE DEF C
  <2>2. QED
    BY <1>4, <2>1, NextIs
<1>7. ASSUME NEW x, AsBefore(j, x) PROVE AsBefore(i, x)
  <2>1. PICK c, p, kl : x = Moved(j, c, p, kl)
    BY <1>7 DEF AsBefore
  <2>2. x = Moved(i, c, p, kl)
    BY <2>1, <1>2 DEF Moved, Indexes
  <2>3. QED
    BY <2>2 DEF AsBefore
<1>8. ASSUME NEW r, NoWay(j, r) PROVE NoWay(i, r) /\ r.result # "done"
  BY <1>7, <1>8 DEF NoWay, Crashed
<1> HIDE DEF j, C
<1>9. QED
  BY <1>5, <1>6, <1>8 DEF Done, C

(* Where looking forward stops.                                            *)
LEMMA HasIs ==
    ASSUME NEW n, Known(file, n, written), NEW i, RightIndex(i, file, n), NEW position \in Nat,
           NEW k \in 1 .. n, file.parts[k].hasEssence
    PROVE  (k = Len(i.partitions) \/ ~EndsBefore(i, k, position))
              <=> (k = n \/ position <= Before(file, k) + NumOf(file, k))
<1>1. /\ FilesProper /\ file \in Files /\ n \in 1 .. Count(file) /\ n \in Nat /\ Count(file) \in Nat
      /\ k \in 1 .. Count(file)
  BY KnownFacts
<1>2. Len(i.partitions) = n /\ i.partitions[k] = Entry(file, k) /\ i.contentPackageLen = FrameLen
  BY <1>1, IndexFacts DEF RightIndex
<1>3. i.partitions[k].essenceStartPos = StartOf(file, k) /\ i.partitions[k].startPosition = Before(file, k)
  BY <1>2 DEF Entry
<1>4. Before(file, k) \in Nat /\ NumOf(file, k) \in Nat
  BY <1>1, UntilStart, EssencePlaces
<1>5. ASSUME k # n PROVE NumContentPackages(i, k) = NumOf(file, k)
  <2>1. k # Count(file)
    BY <1>1, <1>5
  <2>2. EndOf(file, k) = Parts[k + 1].at
    BY <2>1 DEF EndOf, Parts, Count
  <2>3. QED
    BY <2>2, <1>2, <1>3 DEF NumContentPackages, NumOf
<1>6. ASSUME k # n PROVE EndsBefore(i, k, position) <=> position > Before(file, k) + NumOf(file, k)
  <2>1. EndsBefore(i, k, position) <=> position - Before(file, k) > NumOf(file, k)
    BY <1>3, <1>5, <1>6 DEF EndsBefore
  <2>2. QED
    BY <2>1, <1>4
<1>7. QED
  BY <1>2, <1>4, <1>6

Stops(n, from, position) ==
    {k \in from .. n : /\ file.parts[k].hasEssence
                       /\ \/ k = n \/ position <= Before(file, k) + NumOf(file, k)
                          \/ EssenceIn(file, k + 1, n) = {}}

(* Where going forward stops has not passed the frame.                     *)
LEMMA StopsAre ==
    ASSUME NEW n, Known(file, n, written), NEW position \in Nat,
           NEW from \in 1 .. n, file.parts[from].hasEssence, Before(file, from) <= position,
           NEW k, k = First(Stops(n, from, position))
    PROVE  k \in Stops(n, from, position) /\ Before(file, k) <= position
<1> DEFINE T == Stops(n, from, position)
<1>1. /\ FilesProper /\ file \in Files /\ n \in 1 .. Count(file) /\ n \in Nat /\ Count(file) \in Nat
      /\ from \in Nat /\ from \in 1 .. Count(file)
  BY KnownFacts
<1>2. T # {}
  <2> DEFINE E == EssenceIn(file, from, n)
  <2>1. E \in SUBSET Nat /\ from \in E /\ \A c \in E : c <= n
    BY <1>1 DEF EssenceIn
  <2>2. PICK last \in E : \A c \in E : c <= last
    <3> HIDE DEF E
    <3>1. QED
      BY <2>1, <1>1, LastIs
  <2>3. last \in from .. n /\ file.parts[last].hasEssence
    BY DEF EssenceIn
  <2>4. ASSUME NEW c \in EssenceIn(file, last + 1, n) PROVE FALSE
    <3>1. c \in last + 1 .. n /\ c \in from .. n /\ file.parts[c].hasEssence
      BY <2>3, <1>1 DEF EssenceIn
    <3>2. c \in E
      BY <3>1 DEF EssenceIn
    <3>3. c <= last
      BY <3>2, <2>2
    <3>4. QED
      BY <3>1, <3>3, <2>3, <1>1
  <2>5. last \in T
    BY <2>3, <2>4 DEF Stops
  <2>6. QED
    BY <2>5
<1>3. T \in SUBSET Nat
  BY <1>1 DEF Stops
<1>4. k \in T /\ \A c \in T : k <= c
  <2> HIDE DEF T
  <2>1. k = First(T)
    BY DEF T
  <2>2. QED
    BY <2>1, <1>2, <1>3, FirstIs
<1>5. k \in from .. n /\ file.parts[k].hasEssence /\ k \in 1 .. Count(file)
  BY <1>1, <1>4 DEF Stops
<1>6. CASE k = from
  BY <1>4, <1>6
<1>7. CASE k # from
  <2> DEFINE E == EssenceIn(file, from, k - 1)
  <2>1. E \in SUBSET Nat /\ from \in E /\ k \in Nat /\ \A c \in E : c <= k
    BY <1>1, <1>5, <1>7 DEF EssenceIn
  <2>2. PICK j \in E : \A c \in E : c <= j
    <3> HIDE DEF E
    <3>1. QED
      BY <2>1, LastIs
  <2>3. j \in from .. k - 1 /\ file.parts[j].hasEssence /\ j \in 1 .. Count(file) /\ j \in from .. n /\ j < k /\ j # n
        /\ k \in j + 1 .. k /\ j \in Nat
    BY <1>1, <1>5 DEF EssenceIn
  <2>4. EssenceIn(file, j + 1, k) = {k}
    <3>1. ASSUME NEW c \in EssenceIn(file, j + 1, k), c # k PROVE FALSE
      <4>1. c \in j + 1 .. k /\ c \in from .. k - 1 /\ file.parts[c].hasEssence
        BY <2>3, <1>1, <1>5, <3>1 DEF EssenceIn
      <4>2. c <= j
        BY <4>1, <2>2 DEF EssenceIn
      <4>3. QED
        BY <4>1, <4>2, <2>3
    <3>2. k \in EssenceIn(file, j + 1, k)
      BY <2>3, <1>5 DEF EssenceIn
    <3>3. QED
      BY <3>1, <3>2
  <2>5. First({k}) = k
    <3>1. First({k}) \in {k}
      BY <2>1, FirstIs
    <3>2. QED
      BY <3>1
  <2>6. Before(file, k) = Before(file, j) + NumOf(file, j)
    BY <1>1, <1>5, <2>3, <2>4, <2>5, NextBefore
  <2>7. j \notin T
    <3>1. \A c \in T : k <= c
      BY <1>4
    <3> HIDE DEF T, E
    <3>2. QED
      BY <3>1, <2>3, <2>1
  <2>8. ~(position <= Before(file, j) + NumOf(file, j))
    BY <2>3, <2>7 DEF Stops
  <2>9. Before(file, j) \in Nat /\ NumOf(file, j) \in Nat
    BY <1>1, <2>3, UntilStart, EssencePlaces
  <2>10. QED
    BY <1>4, <2>6, <2>8, <2>9
<1>8. QED
  BY <1>6, <1>7

(* Going forward, the partition is the one of the frame.                   *)
LEMMA ForwardIs ==
    ASSUME NEW n, Known(file, n, written), NEW i, InIndex(i, file, n),
           NEW position \in Nat, position > i.currentPosition
    PROVE  Sought(i, n, position, Forward(i, position))
<1> DEFINE cp == i.currentPartition
           has(k) == k = Len(i.partitions) \/ ~EndsBefore(i, k, position)
           stops == {k \in EssencePartitions(i) : k >= i.currentPartition /\ (has(k) \/ OnFrom(i, k).result # "done")}
           k == First(stops)
<1>1. /\ FilesProper /\ file \in Files /\ n \in 1 .. Count(file) /\ n \in Nat /\ Count(file) \in Nat
      /\ RightIndex(i, file, n) /\ cp \in 1 .. n /\ file.parts[cp].hasEssence /\ i.currentPosition \in Nat
      /\ Before(file, cp) <= i.currentPosition /\ cp \in 1 .. Count(file)
  BY KnownFacts DEF InIndex
<1>2. EssencePartitions(i) = {c \in 1 .. n : file.parts[c].hasEssence}
  BY <1>1, IndexFacts DEF EssencePartitions, HasEssence, Parts
<1>3. ASSUME NEW c \in 1 .. n, file.parts[c].hasEssence
      PROVE  /\ has(c) <=> (c = n \/ position <= Before(file, c) + NumOf(file, c))
             /\ OnFrom(i, c).result # "done" <=> EssenceIn(file, c + 1, n) = {}
  BY <1>1, <1>3, HasIs, OnFromIs
<1>4. stops = Stops(n, cp, position)
  <2>1. ASSUME NEW c \in stops PROVE c \in Stops(n, cp, position)
    <3>1. c \in 1 .. n /\ file.parts[c].hasEssence /\ c >= cp /\ (has(c) \/ OnFrom(i, c).result # "done")
      BY <1>2
    <3>2. c \in cp .. n
      BY <3>1, <1>1
    <3> HIDE DEF has
    <3>3. QED
      BY <3>1, <3>2, <1>3 DEF Stops
  <2>2. ASSUME NEW c \in Stops(n, cp, position) PROVE c \in stops
    <3>1. c \in cp .. n /\ file.parts[c].hasEssence
          /\ (c = n \/ position <= Before(file, c) + NumOf(file, c) \/ EssenceIn(file, c + 1, n) = {})
      BY DEF Stops
    <3>2. c \in 1 .. n /\ c >= cp
      BY <3>1, <1>1
    <3>3. c \in EssencePartitions(i)
      BY <3>1, <3>2, <1>2
    <3> HIDE DEF has
    <3>4. QED
      BY <3>1, <3>2, <3>3, <1>3
  <2> HIDE DEF stops
  <2>3. QED
    BY <2>1, <2>2
<1>5. Before(file, cp) <= position
  <2>1. Before(file, cp) \in Nat
    BY <1>1, UntilStart
  <2>2. QED
    BY <2>1, <1>1
<1>6. k \in Stops(n, cp, position) /\ Before(file, k) <= position
  <2>1. k = First(Stops(n, cp, position))
    BY <1>4
  <2> HIDE DEF k, stops
  <2>2. QED
    BY <2>1, <1>1, <1>5, StopsAre
<1>7. Forward(i, position) = IF has(k) THEN SeekIn(i, k, position) ELSE OnFrom(i, k)
  BY Zenon DEF Forward
<1> HIDE DEF k, stops
<1>8. k \in 1 .. n /\ k \in 1 .. Count(file) /\ file.parts[k].hasEssence
      /\ (k = n \/ position <= Before(file, k) + NumOf(file, k) \/ EssenceIn(file, k + 1, n) = {})
  BY <1>6, <1>1 DEF Stops
<1>9. has(k) <=> (k = n \/ position <= Before(file, k) + NumOf(file, k))
  BY <1>3, <1>8
<1> HIDE DEF has
<1>10. CASE has(k)
  <2>1. SoughtIn(n, k, position)
    BY <1>6, <1>8, <1>9, <1>10 DEF SoughtIn
  <2>2. QED
    BY <2>1, <1>1, <1>7, <1>10, SeekInIs
<1>11. CASE ~has(k)
  <2>1. EssenceIn(file, k + 1, n) = {} /\ ~(position <= Before(file, k) + NumOf(file, k))
    BY <1>8, <1>9, <1>11
  <2>2. NoWay(i, OnFrom(i, k))
    BY <2>1, <1>1, <1>8, OnFromIs
  <2>3. IndexedTo(n) = Before(file, k) + NumOf(file, k)
    <3>1. n \in k .. Count(file)
      BY <1>1, <1>8
    <3>2. QED
      BY <3>1, <2>1, <1>1, <1>8, NoneBehind DEF IndexedTo
  <2>4. Before(file, k) \in Nat /\ NumOf(file, k) \in Nat
    BY <1>1, <1>8, UntilStart, EssencePlaces
  <2>5. ~(position < IndexedTo(n))
    BY <2>1, <2>3, <2>4
  <2>6. QED
    BY <2>2, <2>5, <1>7, <1>11 DEF Sought, NoWay
<1>12. QED
  BY <1>10, <1>11

(* What set_position does: elsewhere, and where the reader is.             *)
NotThere(i, at) == [result |-> "failed", ix |-> i, at |-> at]
FoundAt(i, k, position) == Done(Moved(i, k, position, KLAt(Place(file, k, position))), Place(file, k, position) + 1)

(* set_position to another frame: found, not there, or a partition needed  *)
(* that is not known.                                                      *)
LEMMA ElsewhereIs ==
    ASSUME NEW n, Known(file, n, written), NEW i, InIndex(i, file, n),
           NEW position \in Nat, position # i.currentPosition, NEW at,
           NEW r, r = SetPosition(i, at, position)
    PROVE  \/ \E k : SoughtIn(n, k, position) /\ Place(file, k, position) < written /\ r = FoundAt(i, k, position)
           \/ /\ r = NotThere(i, at)
              /\ position < IndexedTo(n) => \E k : SoughtIn(n, k, position) /\ ~(Place(file, k, position) < written)
           \/ r = Crashed /\ ~(position < IndexedTo(n))
<1> DEFINE moved == IF position < i.currentPosition THEN Backward(i, position) ELSE Forward(i, position)
<1>1. i \in Indexes /\ i.currentPosition \in Nat
  BY DEF InIndex, RightIndex
<1>2. position < i.currentPosition \/ position > i.currentPosition
  BY <1>1
<1>3. Sought(i, n, position, moved)
  <2>1. CASE position < i.currentPosition
    BY <2>1, BackwardIs
  <2>2. CASE position > i.currentPosition
    <3>1. ~(position < i.currentPosition)
      BY <2>2, <1>1
    <3>2. QED
      BY <2>2, <3>1, ForwardIs
  <2>3. QED
    BY <1>2, <2>1, <2>2
<1>4. r = IF moved.result = "failed" THEN [result |-> "failed", ix |-> Restored(moved.ix, i), at |-> at] ELSE moved
  BY <1>2, Zenon DEF SetPosition
<1> HIDE DEF moved
<1>5. CASE \E k : SoughtIn(n, k, position) /\ Place(file, k, position) < written /\ moved = FoundAt(i, k, position)
  <2>1. moved.result = "done"
    BY <1>5 DEF FoundAt, Done
  <2>2. r = moved
    BY <1>4, <2>1
  <2>3. QED
    BY <2>2, <1>5
<1>6. CASE /\ moved.result = "failed" /\ AsBefore(i, moved.ix)
           /\ position < IndexedTo(n) => \E k : SoughtIn(n, k, position) /\ ~(Place(file, k, position) < written)
  <2>1. Restored(moved.ix, i) = i
    BY <1>1, <1>6, RestoredIs
  <2>2. r = NotThere(i, at)
    BY <1>4, <1>6, <2>1 DEF NotThere
  <2>3. QED
    BY <2>2, <1>6
<1>7. CASE moved = Crashed /\ ~(position < IndexedTo(n))
  <2>1. r = Crashed
    BY <1>4, <1>7 DEF Crashed
  <2>2. QED
    BY <2>1, <1>7
<1>8. QED
  BY <1>3, <1>5, <1>6, <1>7, Zenon DEF Sought, FoundAt

Arrived(i, k) == Done([i EXCEPT !.currentPartition = k, !.next = KLAt(StartOf(file, k))], StartOf(file, k) + 1)

(* set_position to the current frame, which may have been left behind the  *)
(* last frame of a partition.                                              *)
LEMMA HereIs ==
    ASSUME NEW n, Known(file, n, written), NEW i, InIndex(i, file, n), NEW at,
           NEW r, r = SetPosition(i, at, i.currentPosition),
           NEW C, C = EssenceIn(file, i.currentPartition + 1, n)
    PROVE  /\ i.next.key = StartKey => r = Done(i, at)
           /\ i.next.key = "pack" /\ C # {} =>
                 r = Arrived(i, First(C))
           /\ i.next.key # StartKey /\ (i.next.key = "pack" => C = {}) => r = NotThere(i, at) \/ r = Crashed
<1> DEFINE m == MoveToNext(i, at)
           moved == IF i.next.key = StartKey THEN Done(i, at)
                    ELSE IF i.next.key = "pack" THEN m ELSE Failed(i)
<1>1. /\ i \in Indexes /\ i.currentPosition \in Nat /\ RightIndex(i, file, n) /\ i.currentPartition \in 0 .. n
      /\ StartKey # "pack"
  <2>1. n \in Nat /\ FilesProper
    BY KnownFacts
  <2>2. StartKey # "pack"
    BY <2>1, ElementsAre, ElementPlaces DEF FilesProper, StartKey
  <2>3. QED
    BY <2>1, <2>2 DEF InIndex, RightIndex
<1>2. ~(i.currentPosition < i.currentPosition) /\ ~(i.currentPosition > i.currentPosition)
  BY <1>1
<1>3. r = IF moved.result = "failed" THEN [result |-> "failed", ix |-> Restored(moved.ix, i), at |-> at] ELSE moved
  BY <1>2, Zenon DEF SetPosition
<1>4. /\ C # {} => m = Arrived(i, First(C))
      /\ C = {} => NoWay(i, m)
  BY <1>1, NextIs DEF Arrived
<1> HIDE DEF m
<1>5. ASSUME NEW y, NEW z, moved = Done(y, z) PROVE r = Done(y, z)
  <2>1. moved.result # "failed"
    BY <1>5 DEF Done
  <2>2. QED
    BY <2>1, <1>3, <1>5, Zenon
<1>6. ASSUME NoWay(i, moved) PROVE r = NotThere(i, at) \/ r = Crashed
  <2>1. CASE moved.result = "failed" /\ AsBefore(i, moved.ix)
    <3>1. Restored(moved.ix, i) = i
      BY <1>1, <2>1, RestoredIs
    <3>2. QED
      BY <1>3, <2>1, <3>1 DEF NotThere
  <2>2. CASE moved = Crashed
    BY <1>3, <2>2 DEF Crashed
  <2>3. QED
    BY <1>6, <2>1, <2>2 DEF NoWay
<1>7. NoWay(i, Failed(i))
  BY <1>1, AsBeforeIs DEF NoWay, Failed
<1>8. CASE i.next.key = StartKey
  <2>1. moved = Done(i, at)
    BY <1>8
  <2> HIDE DEF moved
  <2>2. QED
    BY <1>1, <1>5, <1>8, <2>1
<1>9. CASE i.next.key = "pack"
  <2>1. moved = m /\ i.next.key # StartKey
    BY <1>1, <1>9
  <2> HIDE DEF moved
  <2>2. C # {} => r = Arrived(i, First(C))
    BY <1>4, <1>5, <2>1 DEF Arrived
  <2>3. QED
    BY <1>4, <1>6, <1>9, <2>1, <2>2
<1>10. CASE i.next.key # StartKey /\ i.next.key # "pack"
  <2>1. moved = Failed(i)
    BY <1>10
  <2> HIDE DEF moved
  <2>2. QED
    BY <1>6, <1>7, <1>10, <2>1
<1>11. QED
  BY <1>8, <1>9, <1>10

-----------------------------------------------------------------------------
(* Where frames are, and what is behind them.                              *)
LEMMA FrameStartIs ==
    ASSUME FilesProper, file \in Files, NEW k \in 1 .. Count(file), file.parts[k].hasEssence,
           NEW n \in Nat, Before(file, k) <= n, n < Before(file, k) + NumOf(file, k)
    PROVE  /\ FrameStart(n) = Place(file, k, n) /\ n < AllFrames
           /\ Place(file, k, n) \in Nat /\ Place(file, k, n) + FrameLen <= EndOf(file, k)
           /\ StartOf(file, k) <= Place(file, k, n)
           /\ KLAt(Place(file, k, n)) \in Cells /\ KLAt(Place(file, k, n)).key = StartKey
<1> DEFINE P == Place(file, k, n)
<1>1. /\ P \in StartOf(file, k) .. EndOf(file, k) - 1 /\ P \in Nat
      /\ P + FrameLen <= EndOf(file, k)
      /\ P + 1 \in Frames(file.cells)
      /\ file.cells[P + 1].frame = n
      /\ \A p \in 0 .. Len(file.cells) - 1 :
            p + 1 \in Frames(file.cells) /\ file.cells[p + 1].frame = n => p = P
      /\ n < Cardinality(Frames(file.cells))
  BY FramePlaced
<1>2. /\ StartOf(file, k) \in Nat /\ EndOf(file, k) \in Nat /\ EndOf(file, k) <= Len(file.cells)
      /\ Len(file.cells) \in Nat
  BY EssencePlaces
<1> HIDE DEF P
<1>3. P \in 0 .. Len(file.cells) - 1 /\ P + 1 \in 1 .. Len(file.cells) /\ StartOf(file, k) <= P
  BY <1>1, <1>2
<1>4. FrameStart(n) = P
  BY <1>1, <1>3 DEF FrameStart, File
<1>5. KLAt(P) \in Cells
  BY <1>3, FileIs DEF KLAt, File
<1>6. KLAt(P).key = StartKey
  BY <1>1 DEF KLAt, File, Frames
<1>7. QED
  BY <1>1, <1>3, <1>4, <1>5, <1>6 DEF AllFrames, File, P

(* Behind a partition is the pack of the next.                             *)
LEMMA EndIsPack ==
    ASSUME FilesProper, file \in Files, NEW k \in 1 .. Count(file) - 1
    PROVE  /\ EndOf(file, k) = file.parts[k + 1].at
           /\ KLAt(EndOf(file, k)) \in Cells /\ KLAt(EndOf(file, k)).key = "pack"
<1>1. Count(file) \in Nat /\ k + 1 \in 1 .. Count(file) /\ k # Count(file)
  BY FileIs
<1>2. EndOf(file, k) = file.parts[k + 1].at
  BY <1>1 DEF EndOf, Count
<1>3. file.parts[k + 1].at + 1 \in 1 .. Len(file.cells) /\ file.cells[file.parts[k + 1].at + 1].key = "pack"
  BY <1>1, PartIs
<1>4. QED
  BY <1>2, <1>3, FileIs DEF KLAt, File

(* The frames known are those of the known partitions.                     *)
LEMMA IndexedEnd ==
    ASSUME FilesProper, NEW f \in Files, NEW n \in 1 .. Count(f), NEW k \in 1 .. n, f.parts[k].hasEssence
    PROVE  /\ Before(f, k) \in Nat /\ NumOf(f, k) \in Nat
           /\ Until(f, EndOf(f, n)) \in Nat
           /\ Before(f, k) + NumOf(f, k) <= Until(f, EndOf(f, n))
           /\ k = n => Until(f, EndOf(f, n)) = Before(f, k) + NumOf(f, k)
           /\ Before(f, k) + NumOf(f, k) < Until(f, EndOf(f, n)) => EssenceIn(f, k + 1, n) # {}
<1>1. Count(f) \in Nat /\ n \in Nat /\ k \in 1 .. Count(f) /\ n \in k .. Count(f)
  BY FileIs
<1>2. Before(f, k) \in Nat /\ NumOf(f, k) \in Nat /\ Until(f, EndOf(f, k)) = Before(f, k) + NumOf(f, k)
  BY <1>1, UntilStart, EssencePlaces, UntilEnd
<1>3. EndOf(f, k) \in Nat /\ EndOf(f, n) \in Nat /\ EndOf(f, k) <= EndOf(f, n)
  <2>1. CASE k = n
    BY <2>1, <1>1, FileIs
  <2>2. CASE k # n
    <3>1. k \in 1 .. n - 1
      BY <2>2, <1>1
    <3>2. EndOf(f, k) <= f.parts[n].at
      BY <3>1, PartsFollow
    <3>3. /\ f.parts[n].at \in Nat /\ StartOf(f, n) \in Nat /\ f.parts[n].at + 2 <= StartOf(f, n)
          /\ EndOf(f, n) \in Nat /\ EndOf(f, k) \in Nat
      BY <1>1, FileIs
    <3>4. StartOf(f, n) <= EndOf(f, n)
      BY PartIs
    <3>5. QED
      BY <3>2, <3>3, <3>4
  <2>3. QED
    BY <2>1, <2>2
<1>4. Until(f, EndOf(f, n)) \in Nat /\ Until(f, EndOf(f, k)) <= Until(f, EndOf(f, n))
  BY <1>3, UntilGrows
<1>5. ASSUME EssenceIn(f, k + 1, n) = {} PROVE Until(f, EndOf(f, n)) = Before(f, k) + NumOf(f, k)
  BY <1>1, <1>5, NoneBehind
<1>6. QED
  BY <1>2, <1>4, <1>5

(* The place that is sought is the frame's, or the pack of the next        *)
(* partition when it is right behind a partition's last frame.             *)
LEMMA SoughtPlace ==
    ASSUME NEW n, Known(file, n, written), NEW position \in Nat, NEW k, SoughtIn(n, k, position),
           position <= IndexedTo(n), NEW P, P = Place(file, k, position)
    PROVE  /\ P \in Nat /\ position <= Before(file, k) + NumOf(file, k)
           /\ position < Before(file, k) + NumOf(file, k) =>
                 /\ FrameStart(position) = P /\ position < AllFrames /\ P + FrameLen <= EndOf(file, k)
                 /\ KLAt(P) \in Cells /\ KLAt(P).key = StartKey
           /\ position = Before(file, k) + NumOf(file, k) => P = EndOf(file, k)
           /\ position = Before(file, k) + NumOf(file, k) /\ k < Count(file) =>
                 P = file.parts[k + 1].at /\ KLAt(P) \in Cells /\ KLAt(P).key = "pack"
           /\ position = Before(file, k) + NumOf(file, k) /\ position < IndexedTo(n) => EssenceIn(file, k + 1, n) # {}
<1>1. /\ FilesProper /\ file \in Files /\ n \in 1 .. Count(file) /\ n \in Nat /\ Count(file) \in Nat
      /\ k \in 1 .. n /\ k \in 1 .. Count(file) /\ file.parts[k].hasEssence /\ Before(file, k) <= position
      /\ k < n => position <= Before(file, k) + NumOf(file, k)
  BY KnownFacts DEF SoughtIn
<1>2. /\ Before(file, k) \in Nat /\ NumOf(file, k) \in Nat /\ IndexedTo(n) \in Nat
      /\ k = n => IndexedTo(n) = Before(file, k) + NumOf(file, k)
      /\ Before(file, k) + NumOf(file, k) < IndexedTo(n) => EssenceIn(file, k + 1, n) # {}
  BY <1>1, IndexedEnd DEF IndexedTo
<1>3. P \in Nat /\ (position = Before(file, k) + NumOf(file, k) => P = EndOf(file, k))
  BY <1>1, PlaceIs
<1>4. position <= Before(file, k) + NumOf(file, k)
  <2>1. CASE k < n
    BY <2>1, <1>1
  <2>2. CASE k = n
    BY <2>2, <1>2
  <2>3. QED
    BY <1>1, <2>1, <2>2
<1>5. ASSUME position < Before(file, k) + NumOf(file, k)
      PROVE  /\ FrameStart(position) = P /\ position < AllFrames /\ P + FrameLen <= EndOf(file, k)
             /\ KLAt(P) \in Cells /\ KLAt(P).key = StartKey
  BY <1>1, <1>5, FrameStartIs
<1>6. ASSUME P = EndOf(file, k), k < Count(file)
      PROVE  P = file.parts[k + 1].at /\ KLAt(P) \in Cells /\ KLAt(P).key = "pack"
  <2>1. k \in 1 .. Count(file) - 1
    BY <1>1, <1>6
  <2>2. QED
    BY <2>1, <1>1, <1>6, EndIsPack
<1>7. QED
  BY <1>2, <1>3, <1>4, <1>5, <1>6

(* The partition that the next frame is in, if the reader is behind one.   *)
LEMMA NextPartition ==
    ASSUME NEW n, Known(file, n, written), NEW k \in 1 .. n, file.parts[k].hasEssence,
           NEW C, C = EssenceIn(file, k + 1, n), C # {}, NEW j, j = First(C),
           NEW position, position = Before(file, k) + NumOf(file, k)
    PROVE  /\ j \in 1 .. n /\ j \in Nat /\ file.parts[j].hasEssence
           /\ Before(file, j) = position /\ position \in Nat /\ NumOf(file, j) \in Nat /\ NumOf(file, j) >= 1
           /\ Place(file, j, position) = StartOf(file, j) /\ StartOf(file, j) \in Nat
           /\ StartOf(file, j) < written /\ FrameStart(position) = StartOf(file, j)
           /\ position < AllFrames
           /\ KLAt(StartOf(file, j)) \in Cells /\ KLAt(StartOf(file, j)).key = StartKey
           /\ EndOf(file, k) < StartOf(file, j) /\ EndOf(file, k) \in Nat
<1>1. /\ FilesProper /\ file \in Files /\ n \in 1 .. Count(file) /\ n \in Nat /\ Count(file) \in Nat
      /\ k \in 1 .. Count(file)
  BY KnownFacts
<1>2. /\ j \in k + 1 .. n /\ j \in 1 .. Count(file) /\ file.parts[j].hasEssence
      /\ Before(file, j) = position
  BY <1>1, NextBefore
<1>3. j \in 1 .. n /\ j \in Nat /\ k \in 1 .. j - 1
  BY <1>1, <1>2
<1>4. /\ position \in Nat /\ NumOf(file, j) \in Nat /\ NumOf(file, j) >= 1
  BY <1>2, UntilStart, EssencePlaces, <1>1
<1>5. /\ StartOf(file, j) \in Nat /\ StartOf(file, j) < written
      /\ KLAt(StartOf(file, j)) \in Cells /\ KLAt(StartOf(file, j)).key = StartKey
  BY <1>2, <1>3, StartThere
<1>6. Place(file, j, position) = StartOf(file, j)
  <2>1. Before(file, j) <= position
    BY <1>2, <1>4
  <2>2. QED
    BY <1>1, <1>2, <1>4, <2>1, PlaceIs
<1>7. FrameStart(position) = StartOf(file, j) /\ position < AllFrames
  <2>1. Before(file, j) <= position /\ position < Before(file, j) + NumOf(file, j)
    BY <1>2, <1>4
  <2>2. QED
    BY <2>1, <1>1, <1>2, <1>4, <1>6, FrameStartIs
<1>8. EndOf(file, k) < StartOf(file, j) /\ EndOf(file, k) \in Nat
  <2>1. EndOf(file, k) <= file.parts[j].at
    BY <1>1, <1>2, <1>3, PartsFollow
  <2>2. EndOf(file, k) \in Nat /\ file.parts[j].at \in Nat /\ file.parts[j].at + 2 <= StartOf(file, j)
    BY <1>1, <1>2, FileIs
  <2>3. QED
    BY <2>1, <2>2, <1>5
<1>9. QED
  BY <1>2, <1>3, <1>4, <1>5, <1>6, <1>7, <1>8

-----------------------------------------------------------------------------
(* The index is made right: the length of a frame, and the places.         *)
LEMMA PackageLength ==
    ASSUME NEW n, Known(file, n, written), NEW k \in 1 .. n, file.parts[k].hasEssence,
           NEW S, S = StartOf(file, k)
    PROVE  ContentPackageLen(S) = FrameLen
<1>1. /\ FilesProper /\ file \in Files /\ n \in 1 .. Count(file) /\ n \in Nat /\ Count(file) \in Nat
      /\ k \in 1 .. Count(file) /\ written \in Nat /\ written <= Len(file.cells) /\ Len(file.cells) \in Nat
      /\ (n = 1 \/ n = Count(file))
  BY KnownFacts
<1>2. /\ S \in Nat /\ EndOf(file, k) \in Nat /\ EndOf(file, k) <= Len(file.cells)
      /\ NumOf(file, k) \in Nat /\ NumOf(file, k) >= 1
      /\ EndOf(file, k) = S + NumOf(file, k) * FrameLen
  BY <1>1, EssencePlaces
<1>3. FrameLen \in Nat /\ FrameLen >= 1
  BY ElementPlaces
<1>4. S + FrameLen <= EndOf(file, k)
  <2>1. 0 \in Nat /\ 0 < NumOf(file, k) /\ 0 * FrameLen = 0
    BY <1>2, <1>3
  <2>2. S + 0 * FrameLen + FrameLen <= EndOf(file, k)
    BY <1>1, <2>1, FrameBounds
  <2>3. QED
    BY <2>1, <2>2, <1>2
<1>5. S + FrameLen <= written
  <2>1. CASE n = Count(file)
    <3>1. written = Len(file.cells)
      BY <2>1 DEF Known
    <3>2. QED
      BY <3>1, <1>1, <1>2, <1>3, <1>4
  <2>2. CASE n = 1
    <3>1. k = 1
      BY <2>2
    <3>2. QED
      BY <3>1 DEF Known, There
  <2>3. QED
    BY <1>1, <2>1, <2>2
<1>6. ASSUME NEW o \in Nat, o < FrameLen
      PROVE  /\ S + o + 1 \in Frames(file.cells) <=> o = 0
             /\ S + o \in Nat /\ S + o + 1 \in 1 .. Len(file.cells)
             /\ KLAt(S + o).key # "pack"
             /\ KLAt(S + o).key = "value" <=> ElementAt(o) = {}
  <2>1. 0 \in Nat /\ 0 < NumOf(file, k) /\ S + o = StartOf(file, k) + 0 * FrameLen + o
    BY <1>2, <1>3
  <2> DEFINE p == S + o
  <2>2. p = StartOf(file, k) + 0 * FrameLen + o
    BY <2>1
  <2> HIDE DEF p
  <2>3. /\ p + 1 \in Frames(file.cells) <=> o = 0
        /\ p \in Nat /\ p + 1 \in 1 .. Len(file.cells)
        /\ file.cells[p + 1].key # "pack"
        /\ file.cells[p + 1].key = "value" <=> ElementAt(o) = {}
    BY <1>1, <1>6, <2>1, <2>2, FrameCell, EssenceCell
  <2>4. QED
    BY <2>3 DEF p, KLAt, File
<1> DEFINE ends == {p \in S + 1 .. written - 1 : KLAt(p).key \in {StartKey, "pack"}}
           kls == {p \in S .. written - 1 : KLAt(p).key # "value"}
           lastKL == CHOOSE p \in kls : \A q \in kls : q <= p
<1>7. ASSUME NEW p \in ends PROVE S + FrameLen <= p /\ p \in Nat /\ p < written
  <2>1. p \in S + 1 .. written - 1 /\ p \in Nat /\ S + 1 <= p /\ p < written /\ KLAt(p).key \in {StartKey, "pack"}
    BY <1>1, <1>2
  <2>2. ASSUME p < S + FrameLen PROVE FALSE
    <3> DEFINE o == p - S
    <3>1. o \in Nat /\ o < FrameLen /\ o # 0 /\ p = S + o
      BY <2>1, <2>2, <1>2, <1>3
    <3> HIDE DEF o
    <3>2. p + 1 \notin Frames(file.cells) /\ p + 1 \in 1 .. Len(file.cells) /\ KLAt(p).key # "pack"
      BY <3>1, <1>6
    <3>3. KLAt(p).key # StartKey
      BY <3>2, FileIs, <1>1 DEF Frames, KLAt, File
    <3>4. QED
      BY <2>1, <3>2, <3>3
  <2> HIDE DEF ends
  <2>3. QED
    BY <2>1, <2>2, <1>2, <1>3
<1>8. ASSUME S + FrameLen < written PROVE S + FrameLen \in ends
  <2>1. S + FrameLen \in S + 1 .. written - 1
    BY <1>1, <1>2, <1>3, <1>8
  <2>2. CASE NumOf(file, k) = 1
    <3>1. EndOf(file, k) = S + FrameLen
      BY <2>2, <1>2, <1>3
    <3>2. k # Count(file)
      <4>1. k = Count(file) => EndOf(file, k) = Len(file.cells)
        BY DEF EndOf, Count
      <4>2. QED
        BY <4>1, <3>1, <1>1, <1>8
    <3>3. k \in 1 .. Count(file) - 1
      BY <3>2, <1>1
    <3>4. KLAt(EndOf(file, k)).key = "pack"
      BY <3>3, <1>1, EndIsPack
    <3>5. QED
      BY <2>1, <3>1, <3>4
  <2>3. CASE NumOf(file, k) # 1
    <3>1. 1 \in Nat /\ 1 < NumOf(file, k) /\ 0 \in Nat /\ 0 < FrameLen /\ S + FrameLen = StartOf(file, k) + 1 * FrameLen + 0
      BY <2>3, <1>2, <1>3
    <3> DEFINE p == S + FrameLen
    <3>2. p = StartOf(file, k) + 1 * FrameLen + 0
      BY <3>1
    <3> HIDE DEF p
    <3>3. p + 1 \in Frames(file.cells)
      BY <1>1, <3>1, <3>2, FrameCell
    <3>4. KLAt(p).key = StartKey
      BY <3>3 DEF Frames, KLAt, File
    <3>5. QED
      BY <2>1, <3>4 DEF p
  <2>4. QED
    BY <2>2, <2>3
<1>9. CASE ends # {}
  <2>1. PICK p \in ends : TRUE
    BY <1>9
  <2>2. S + FrameLen < written
    <3>1. S + FrameLen <= p /\ p \in Nat /\ p < written
      BY <1>7
    <3> HIDE DEF ends
    <3>2. QED
      BY <3>1, <1>1, <1>2, <1>3
  <2>3. First(ends) \in ends /\ \A q \in ends : First(ends) <= q
    <3>1. ends \in SUBSET Nat
      BY <1>7
    <3> HIDE DEF ends
    <3>2. QED
      BY <3>1, <1>9, FirstIs
  <2>4. First(ends) = S + FrameLen
    <3>1. S + FrameLen \in ends /\ S + FrameLen <= First(ends) /\ First(ends) \in Nat /\ First(ends) <= S + FrameLen
      BY <2>2, <2>3, <1>7, <1>8
    <3> HIDE DEF ends
    <3>2. QED
      BY <3>1, <1>2, <1>3
  <2>5. ContentPackageLen(S) = First(ends) - S
    BY <1>9, Zenon DEF ContentPackageLen
  <2> HIDE DEF ends
  <2>6. QED
    BY <2>4, <2>5, <1>2, <1>3
<1>10. CASE ends = {}
  <2> DEFINE last == ElementStart[ElementCount]
             P == S + last
  <2>1. written = S + FrameLen
    <3>1. ~(S + FrameLen < written)
      BY <1>8, <1>10
    <3>2. QED
      BY <3>1, <1>1, <1>2, <1>3, <1>5
  <2>2. /\ ElementCount \in 1 .. ElementCount /\ last \in Nat /\ Elements[ElementCount].len \in Nat
        /\ last + 1 + Elements[ElementCount].len = FrameLen /\ ElementAt(last) = {ElementCount}
    <3>1. ElementCount \in 1 .. ElementCount
      BY ElementsAre
    <3>2. ElementStart[ElementCount + 1] = last + 1 + Elements[ElementCount].len
      BY <3>1, ElementPlaces
    <3>3. last \in Nat /\ Elements[ElementCount].len \in Nat /\ ElementAt(last) = {ElementCount}
      BY <3>1, ElementPlaces
    <3>4. QED
      BY <3>1, <3>2, <3>3, ElementPlaces
  <2>3. \A e \in 1 .. ElementCount : ElementStart[e] \in Nat /\ ElementStart[e] <= last
    <3> SUFFICES ASSUME NEW e \in 1 .. ElementCount PROVE ElementStart[e] \in Nat /\ ElementStart[e] <= last
      OBVIOUS
    <3>1. CASE e = ElementCount
      BY <3>1, <2>2
    <3>2. CASE e # ElementCount
      <4>1. ElementCount \in e + 1 .. ElementCount + 1
        BY <3>2, ElementsAre
      <4>2. ElementStart[e] + 1 + Elements[e].len <= last
        BY <4>1, ElementsGrow
      <4>3. ElementStart[e] \in Nat /\ Elements[e].len \in Nat
        BY ElementPlaces
      <4>4. QED
        BY <4>2, <4>3, <2>2
    <3>3. QED
      BY <3>1, <3>2
  <2> HIDE DEF last
  <2>4. last < FrameLen /\ P \in S .. written - 1 /\ P \in Nat /\ S \in Nat
    <3>1. S \in Nat
      BY <1>2
    <3>2. QED
      BY <3>1, <2>1, <2>2, <1>3
  <2>5. P \in kls
    BY <2>2, <2>4, <1>6
  <2>6. ASSUME NEW q \in kls PROVE q <= P
    <3>1. q \in S .. written - 1 /\ q \in Nat /\ KLAt(q).key # "value"
      BY <1>1, <1>2
    <3>2. ASSUME q > P PROVE FALSE
      <4> DEFINE o == q - S
      <4>1. o \in Nat /\ o < FrameLen /\ q = S + o /\ o > last
        <5>1. q \in S .. written - 1
          BY <3>1
        <5>2. last \in Nat
          BY <2>2
        <5> HIDE DEF kls
        <5>3. QED
          BY <5>1, <5>2, <3>2, <2>1, <2>4, <1>3
      <4> HIDE DEF o
      <4>2. ElementAt(o) = {}
        <5>1. ASSUME NEW e \in ElementAt(o) PROVE FALSE
          <6>1. e \in 1 .. ElementCount /\ ElementStart[e] = o
            BY ElementPlaces DEF ElementAt
          <6>2. QED
            BY <6>1, <4>1, <2>2, <2>3
        <5>2. QED
          BY <5>1
      <4>3. QED
        BY <3>1, <4>1, <4>2, <1>6
    <3> HIDE DEF kls
    <3>3. QED
      BY <3>1, <3>2, <2>2, <1>2
  <2>7. lastKL = P
    <3>1. \A q \in kls : q \in Nat
      BY <1>1, <1>2
    <3>2. P \in Nat
      BY <2>2, <1>2
    <3> HIDE DEF kls, P
    <3>3. lastKL \in kls /\ \A q \in kls : q <= lastKL
      BY <2>5, <2>6
    <3>4. lastKL <= P /\ P <= lastKL
      BY <3>3, <2>5, <2>6
    <3> HIDE DEF lastKL
    <3>5. QED
      BY <3>1, <3>2, <3>3, <3>4
  <2>8. KLAt(P).len = Elements[ElementCount].len
    <3>1. 0 \in Nat /\ 0 < NumOf(file, k) /\ P = StartOf(file, k) + 0 * FrameLen + ElementStart[ElementCount]
      BY <1>2, <1>3, <2>2 DEF last
    <3> HIDE DEF P
    <3>2. file.cells[P + 1].len = Elements[ElementCount].len
      <4>1. ElementCount \in 1 .. ElementCount
        BY <2>2
      <4>2. FilesProper /\ file \in Files /\ k \in 1 .. Count(file)
        BY <1>1
      <4>3. QED
        BY <3>1, <4>1, <4>2, ElementCell
    <3>3. QED
      BY <3>2 DEF KLAt, File
  <2>9. ContentPackageLen(S) = lastKL + 1 + KLAt(lastKL).len - S
    BY <1>10, Zenon DEF ContentPackageLen
  <2> HIDE DEF lastKL, kls, ends
  <2>10. ContentPackageLen(S) = S + last + 1 + Elements[ElementCount].len - S
    BY <2>7, <2>8, <2>9
  <2> HIDE DEF P
  <2>11. S + last + 1 + Elements[ElementCount].len - S = FrameLen
    <3>1. S \in Nat /\ last \in Nat /\ Elements[ElementCount].len \in Nat /\ last + 1 + Elements[ElementCount].len = FrameLen
      BY <2>2, <1>2
    <3>2. QED
      BY <3>1
  <2>12. QED
    BY <2>10, <2>11
<1>11. QED
  BY <1>9, <1>10

IndexOf(p, c, complete, o, d, l, kl) ==
    [partitions |-> p, currentPartition |-> c, isComplete |-> complete, currentPosition |-> o,
     indexedDuration |-> d, contentPackageLen |-> l, next |-> kl]

(* The index before it is filled, field by field.                          *)
LEMMA NewIs ==
    ASSUME NEW p, NEW b, NEW i, i = [NoIndex EXCEPT !.partitions = p, !.isComplete = b]
    PROVE  i = IndexOf(p, 0, b, -1, 0, 0, NullKL)
<1>1. /\ i.partitions = p /\ i.currentPartition = 0 /\ i.isComplete = b /\ i.currentPosition = -1
      /\ i.indexedDuration = 0 /\ i.contentPackageLen = 0 /\ i.next = NullKL
  BY DEF NoIndex
<1>2. DOMAIN i = {"partitions", "currentPartition", "isComplete", "currentPosition", "indexedDuration",
                  "contentPackageLen", "next"}
      /\ i = [f \in DOMAIN i |-> i[f]]
  BY DEF NoIndex
<1>3. QED
  BY <1>1, <1>2 DEF IndexOf

(* create_index makes a right index and stands at frame 0.                 *)
LEMMA CreatedIs ==
    ASSUME NEW n, Known(file, n, written), NEW r, r = CreateIndex(n), r.result = "done"
    PROVE  /\ InIndex(r.ix, file, n) /\ Len(r.ix.partitions) = n /\ r.ix.currentPosition = 0
           /\ Before(file, r.ix.currentPartition) = 0
           /\ Place(file, r.ix.currentPartition, 0) < written /\ Place(file, r.ix.currentPartition, 0) \in Nat
           /\ r.ix.next = KLAt(Place(file, r.ix.currentPartition, 0))
           /\ r.at = Place(file, r.ix.currentPartition, 0) + 1
<1> DEFINE C == EssenceIn(file, 1, n)
           x == First(C)
           new == [NoIndex EXCEPT !.partitions = [k \in 1 .. n |-> NewEntry], !.isComplete = Parts[n].kind = "footer"]
           first == MoveToNext(new, 0)
           bare == [new EXCEPT !.contentPackageLen = ContentPackageLen(first.at - 1)]
           started == WithEssenceStarts(bare)
           full == WithPositions(started)
           start == MoveToNext(full, 0)
<1>1. /\ FilesProper /\ file \in Files /\ n \in 1 .. Count(file) /\ n \in Nat /\ Count(file) \in Nat /\ n >= 1
      /\ n <= Count(file)
  BY KnownFacts
<1>2. r = IF first.result # "done" THEN [first EXCEPT !.ix = NoIndex]
          ELSE IF \E k \in EssencePartitions(full) : PositionAtStartEssence(full, k).result # "done"
               THEN Failed(NoIndex)
               ELSE [start EXCEPT !.ix.currentPosition = 0]
  BY Zenon DEF CreateIndex
<1>3. /\ new.partitions = [k \in 1 .. n |-> NewEntry] /\ new.isComplete = (file.parts[n].kind = "footer")
      /\ new.currentPartition = 0 /\ new.currentPosition = -1 /\ new.next = NullKL /\ new.indexedDuration = 0
      /\ Len(new.partitions) = n /\ DOMAIN new.partitions = 1 .. n
      /\ new = IndexOf(new.partitions, 0, new.isComplete, -1, 0, 0, NullKL)
  <2> DEFINE p == [k \in 1 .. n |-> NewEntry]
             b == Parts[n].kind = "footer"
  <2>1. Len(p) = n /\ DOMAIN p = 1 .. n /\ b = (file.parts[n].kind = "footer")
    BY <1>1 DEF Parts
  <2> HIDE DEF p, b
  <2>2. [NoIndex EXCEPT !.partitions = p, !.isComplete = b] = IndexOf(p, 0, b, -1, 0, 0, NullKL)
    BY NewIs
  <2>3. new = IndexOf(p, 0, b, -1, 0, 0, NullKL)
    BY <2>2 DEF p, b
  <2> HIDE DEF new
  <2>4. /\ new.partitions = p /\ new.isComplete = b /\ new.currentPartition = 0 /\ new.currentPosition = -1
        /\ new.next = NullKL /\ new.indexedDuration = 0
    BY <2>3 DEF IndexOf
  <2>5. new = IndexOf(new.partitions, 0, new.isComplete, -1, 0, 0, NullKL)
    BY <2>3, <2>4
  <2>6. QED
    BY <2>1, <2>4, <2>5 DEF p
<1>4. ASSUME NEW i, NEW k \in 1 .. n, i.partitions[k].essenceStartPos = -1
      PROVE  EssenceStart(i, k) = StartOf(file, k)
  <2>1. ~(i.partitions[k].essenceStartPos >= 0)
    BY <1>4
  <2>2. EssenceStart(i, k) = PartitionDataStart(k) + (IF Parts[k].hasFill THEN FillLen ELSE 0)
                                 + Parts[k].headerByteCount + Parts[k].indexByteCount
    BY <2>1, Zenon DEF EssenceStart
  <2>3. QED
    BY <2>2, Zenon DEF StartOf, PartitionDataStart, Parts
<1> HIDE DEF new
<1>5. /\ {k \in new.currentPartition + 1 .. Len(new.partitions) : HasEssence(k)} = C
  BY <1>1, <1>3 DEF EssenceIn, HasEssence, Parts
<1>6. first.result = "done"
  <2>1. ASSUME first.result # "done" PROVE r.result # "done"
    <3>1. r = [first EXCEPT !.ix = NoIndex]
      BY <1>2, <2>1
    <3>2. r.result = first.result
      BY <3>1
    <3>3. QED
      BY <3>2, <2>1
  <2>2. QED
    BY <2>1
<1>7. C # {}
  <2>1. ASSUME C = {} PROVE first.result # "done"
    <3> DEFINE last == Len(new.partitions)
               packs == NextPackBehind(PartitionDataStart(last))
               atLast == [new EXCEPT !.currentPartition = last]
    <3>1. first = IF new.isComplete THEN Failed(new)
                  ELSE IF new.currentPartition < last
                  THEN IF packs = {} THEN Failed([atLast EXCEPT !.next = NullKL])
                                     ELSE AddPartition(atLast, First(packs) + 1)
                  ELSE IF new.next.key = "pack" THEN AddPartition(new, 0) ELSE Failed(new)
      BY <1>5, <2>1, Zenon DEF MoveToNext
    <3> HIDE DEF last, packs, atLast, first
    <3>2. \A y, z : Failed(y).result # "done" /\ AddPartition(y, z).result # "done"
      BY DEF Failed, AddPartition, Crashed
    <3>3. QED
      BY <3>1, <3>2, Zenon
  <2>2. QED
    BY <2>1, <1>6
<1>8. x \in C /\ x \in 1 .. n /\ x \in Nat /\ file.parts[x].hasEssence /\ \A k \in C : x <= k
  <2>1. C \in SUBSET Nat
    BY <1>1 DEF EssenceIn
  <2>2. x \in C /\ \A k \in C : x <= k
    <3> HIDE DEF C
    <3>1. QED
      BY <2>1, <1>7, FirstIs
  <2>3. QED
    BY <2>2, <1>1 DEF EssenceIn
<1>9. first.at = StartOf(file, x) + 1
  <2> DEFINE j == [new EXCEPT !.currentPartition = x]
  <2>1. first = PositionAtStartEssence(j, x)
    BY <1>5, <1>7, Zenon DEF MoveToNext
  <2>2. j.partitions[x].essenceStartPos = -1
    <3> HIDE DEF x
    <3>1. j.partitions = new.partitions
      <4>1. PICK p, b : new = IndexOf(p, 0, b, -1, 0, 0, NullKL)
        BY <1>3
      <4>2. QED
        BY <4>1 DEF IndexOf
    <3> HIDE DEF j
    <3>2. QED
      BY <3>1, <1>3, <1>8 DEF NewEntry
  <2> HIDE DEF j, first, x
  <2>3. EssenceStart(j, x) = StartOf(file, x)
    BY <1>4, <1>8, <2>2
  <2>4. first = Failed(j) \/ \E y : first = Done(y, EssenceStart(j, x) + 1)
    BY <2>1, Zenon DEF PositionAtStartEssence
  <2>5. first # Failed(j)
    BY <1>6 DEF Failed
  <2>6. \A y, z : Done(y, z).at = z
    BY DEF Done
  <2>7. QED
    BY <2>3, <2>4, <2>5, <2>6
<1>10. StartOf(file, x) \in Nat /\ StartOf(file, x) < written /\ KLAt(StartOf(file, x)) \in Cells
  <2> HIDE DEF x
  <2>1. QED
    BY <1>8, StartThere
<1>11. ContentPackageLen(first.at - 1) = FrameLen
  <2>1. first.at - 1 = StartOf(file, x)
    BY <1>9, <1>10
  <2> HIDE DEF x, first
  <2>2. ContentPackageLen(StartOf(file, x)) = FrameLen
    BY <1>8, PackageLength
  <2>3. QED
    BY <2>1, <2>2, Zenon
<1>12. bare = IndexOf(new.partitions, 0, new.isComplete, -1, 0, FrameLen, NullKL)
  <2> DEFINE l == ContentPackageLen(first.at - 1)
  <2>1. l = FrameLen
    BY <1>11
  <2> HIDE DEF l
  <2>2. PICK p, b : new = IndexOf(p, 0, b, -1, 0, 0, NullKL)
    BY <1>3
  <2>3. [new EXCEPT !.contentPackageLen = l] = IndexOf(p, 0, b, -1, 0, l, NullKL) /\ new.partitions = p /\ new.isComplete = b
    BY <2>2 DEF IndexOf
  <2>4. QED
    BY <2>1, <2>3 DEF l
<1>13. /\ started = IndexOf(started.partitions, 0, new.isComplete, -1, 0, FrameLen, NullKL)
       /\ started.partitions = [k \in 1 .. n |-> IF file.parts[k].hasEssence
                                                 THEN [essenceStartPos |-> StartOf(file, k), startPosition |-> -1]
                                                 ELSE NewEntry]
  <2> HIDE DEF bare
  <2> DEFINE q == [k \in DOMAIN bare.partitions |->
                      [bare.partitions[k] EXCEPT !.essenceStartPos = IF HasEssence(k) THEN EssenceStart(bare, k) ELSE -1]]
  <2>1. started = [bare EXCEPT !.partitions = q]
    BY DEF WithEssenceStarts
  <2>2. DOMAIN bare.partitions = 1 .. n /\ \A k \in 1 .. n : bare.partitions[k] = NewEntry
    <3>1. bare.partitions = new.partitions
      BY <1>12 DEF IndexOf
    <3>2. QED
      BY <1>3, <3>1
  <2>3. ASSUME NEW k \in 1 .. n
        PROVE  [bare.partitions[k] EXCEPT !.essenceStartPos = IF HasEssence(k) THEN EssenceStart(bare, k) ELSE -1]
                  = IF file.parts[k].hasEssence THEN [essenceStartPos |-> StartOf(file, k), startPosition |-> -1] ELSE NewEntry
    <3>1. EssenceStart(bare, k) = StartOf(file, k)
      BY <1>4, <2>2 DEF NewEntry
    <3>2. QED
      BY <2>2, <3>1 DEF NewEntry, HasEssence, Parts
  <2>4. q = [k \in 1 .. n |-> IF file.parts[k].hasEssence
                             THEN [essenceStartPos |-> StartOf(file, k), startPosition |-> -1] ELSE NewEntry]
    BY <2>2, <2>3
  <2> HIDE DEF q, started
  <2>5. started = IndexOf(q, 0, new.isComplete, -1, 0, FrameLen, NullKL)
    BY <1>12, <2>1 DEF IndexOf
  <2>6. started.partitions = q
    BY <2>5 DEF IndexOf
  <2>7. QED
    BY <2>4, <2>5, <2>6
<1> HIDE DEF started, bare
<1>14. \A k \in 1 .. n : file.parts[k].hasEssence => started.partitions[k].essenceStartPos = StartOf(file, k)
  BY <1>13
<1>15. DOMAIN started.partitions = 1 .. n /\ Len(started.partitions) = n /\ started.contentPackageLen = FrameLen
       /\ EssencePartitions(started) = {k \in 1 .. n : file.parts[k].hasEssence}
  <2>1. started.contentPackageLen = FrameLen
    BY <1>13 DEF IndexOf
  <2>2. QED
    BY <2>1, <1>1, <1>13 DEF EssencePartitions, HasEssence, Parts
<1>16. ASSUME NEW k \in 1 .. n
       PROVE  PackagesIn(started, {j \in 1 .. k - 1 : file.parts[j].hasEssence}) = Before(file, k)
  <2> DEFINE ks == {j \in 1 .. k - 1 : file.parts[j].hasEssence}
  <2>1. k \in 1 .. Count(file) /\ ks \in SUBSET (1 .. Count(file) - 1) /\ \A j \in ks : j \in 1 .. n /\ HasEssence(j)
    BY <1>1 DEF HasEssence, Parts
  <2>2. \A j \in ks : started.partitions[j].essenceStartPos = StartOf(file, j)
    BY <1>14, <2>1
  <2>3. Cardinality(FramesIn(file, ks)) = Before(file, k)
    BY <1>1, <2>1, FramesInBefore
  <2> HIDE DEF ks
  <2>4. PackagesIn(started, ks) = Cardinality(FramesIn(file, ks))
    BY <1>1, <1>15, <2>1, <2>2, PackagesAre
  <2>5. QED
    BY <2>3, <2>4 DEF ks
<1>17. /\ full.partitions = [k \in 1 .. n |-> Entry(file, k)]
       /\ full.indexedDuration = Before(file, n)
       /\ full = IndexOf(full.partitions, 0, new.isComplete, -1, full.indexedDuration, FrameLen, NullKL)
  <2> DEFINE q == [k \in DOMAIN started.partitions |->
                      [started.partitions[k] EXCEPT !.startPosition =
                          IF HasEssence(k) THEN PackagesIn(started, {j \in EssencePartitions(started) : j < k}) ELSE -1]]
             d == PackagesIn(started, EssencePartitions(started) \ {Len(started.partitions)})
  <2>1. full = [started EXCEPT !.partitions = q, !.indexedDuration = d]
    BY DEF WithPositions
  <2>2. ASSUME NEW k \in 1 .. n PROVE {j \in EssencePartitions(started) : j < k} = {j \in 1 .. k - 1 : file.parts[j].hasEssence}
    BY <1>1, <1>15
  <2>3. EssencePartitions(started) \ {Len(started.partitions)} = {j \in 1 .. n - 1 : file.parts[j].hasEssence}
    BY <1>1, <1>15
  <2>4. n \in 1 .. n
    BY <1>1
  <2>5. ASSUME NEW k \in 1 .. n
        PROVE  [started.partitions[k] EXCEPT !.startPosition =
                   IF HasEssence(k) THEN PackagesIn(started, {j \in EssencePartitions(started) : j < k}) ELSE -1] = Entry(file, k)
    <3>1. PackagesIn(started, {j \in EssencePartitions(started) : j < k}) = Before(file, k)
      BY <1>16, <2>2
    <3>2. started.partitions[k] = IF file.parts[k].hasEssence THEN [essenceStartPos |-> StartOf(file, k), startPosition |-> -1]
                                                              ELSE NewEntry
      BY <1>13
    <3>3. QED
      BY <3>1, <3>2 DEF Entry, NewEntry, HasEssence, Parts
  <2>6. PackagesIn(started, EssencePartitions(started) \ {Len(started.partitions)}) = Before(file, n)
    BY <1>16, <2>3, <2>4
  <2>7. q = [k \in 1 .. n |-> Entry(file, k)] /\ d = Before(file, n)
    BY <1>15, <2>5, <2>6
  <2> HIDE DEF full, q, d
  <2>8. full = IndexOf(q, 0, new.isComplete, -1, d, FrameLen, NullKL)
    <3>1. PICK p, b : started = IndexOf(p, 0, b, -1, 0, FrameLen, NullKL) /\ b = new.isComplete
      BY <1>13
    <3>2. QED
      BY <2>1, <3>1 DEF IndexOf
  <2>9. full.partitions = q /\ full.indexedDuration = d
    BY <2>8 DEF IndexOf
  <2>10. QED
    BY <2>7, <2>8, <2>9
<1> HIDE DEF full
<1>18. RightIndex(full, file, n) /\ full.currentPartition = 0
  <2>1. ASSUME NEW k \in 1 .. n PROVE Entry(file, k) \in [essenceStartPos : Int, startPosition : Int]
    <3>1. k \in 1 .. Count(file)
      BY <1>1
    <3>2. Before(file, k) \in Nat /\ StartOf(file, k) \in Nat
      BY <3>1, <1>1, UntilStart, FileIs
    <3>3. QED
      BY <3>2 DEF Entry, NewEntry
  <2>2. full.partitions \in Seq([essenceStartPos : Int, startPosition : Int])
    <3> DEFINE E == [essenceStartPos : Int, startPosition : Int]
    <3>1. \A k \in 1 .. n : Entry(file, k) \in E
      BY <2>1
    <3> HIDE DEF E
    <3>2. [k \in 1 .. n |-> Entry(file, k)] \in Seq(E)
      BY <3>1, <1>1
    <3>3. QED
      BY <3>2, <1>17 DEF E
  <2>3. Before(file, n) \in Nat /\ FrameLen \in Nat /\ new.isComplete \in BOOLEAN
    BY <1>1, <1>3, UntilStart, ElementPlaces
  <2>4. NullKL \in KLs
    BY DEF KLs
  <2>5. full \in Indexes
    <3> DEFINE p == full.partitions
               d == full.indexedDuration
    <3>1. full = IndexOf(p, 0, new.isComplete, -1, d, FrameLen, NullKL) /\ d \in Nat
          /\ p \in Seq([essenceStartPos : Int, startPosition : Int])
      BY <1>17, <2>2, <2>3
    <3> HIDE DEF p, d
    <3>2. QED
      BY <3>1, <2>3, <2>4 DEF Indexes, IndexOf
  <2>6. full.isComplete = new.isComplete /\ full.contentPackageLen = FrameLen /\ full.currentPartition = 0
    BY <1>17 DEF IndexOf
  <2>7. QED
    BY <1>3, <1>17, <2>5, <2>6 DEF RightIndex
<1> DEFINE atFirst == [full EXCEPT !.currentPartition = x, !.next = KLAt(StartOf(file, x))]
<1>19. start = Done(atFirst, StartOf(file, x) + 1)
  <2>1. full.currentPartition \in 0 .. n /\ C = EssenceIn(file, full.currentPartition + 1, n)
    BY <1>1, <1>18
  <2> DEFINE D == C
  <2>2. D = EssenceIn(file, full.currentPartition + 1, n) /\ D # {}
    BY <2>1, <1>7
  <2> HIDE DEF C, D
  <2>3. start = Done([full EXCEPT !.currentPartition = First(D), !.next = KLAt(StartOf(file, First(D)))],
                     StartOf(file, First(D)) + 1)
    <3>1. full.currentPartition \in 0 .. n
      BY <2>1
    <3>2. RightIndex(full, file, n)
      BY <1>18
    <3>3. QED
      BY <3>1, <3>2, <2>2, NextIs
  <2>4. QED
    BY <2>3 DEF D
<1>20. r = [start EXCEPT !.ix.currentPosition = 0]
  <2>1. r # Failed(NoIndex)
    BY DEF Failed
  <2>2. QED
    BY <1>2, <1>6, <2>1, Zenon
<1> HIDE DEF x, C, start, first
<1>21. r = Done(Moved(full, x, 0, KLAt(StartOf(file, x))), StartOf(file, x) + 1)
  <2>1. full \in Indexes
    BY <1>18 DEF RightIndex
  <2>2. [atFirst EXCEPT !.currentPosition = 0] = Moved(full, x, 0, KLAt(StartOf(file, x)))
    BY <2>1 DEF Moved, Indexes
  <2> HIDE DEF atFirst
  <2>3. r = Done([atFirst EXCEPT !.currentPosition = 0], StartOf(file, x) + 1)
    BY <1>19, <1>20 DEF Done
  <2>4. QED
    BY <2>2, <2>3
<1>22. /\ RightIndex(r.ix, file, n) /\ r.ix.currentPartition = x /\ r.ix.currentPosition = 0
       /\ r.ix.next = KLAt(StartOf(file, x)) /\ r.at = StartOf(file, x) + 1
  <2> DEFINE m == Moved(full, x, 0, KLAt(StartOf(file, x)))
  <2>1. r.ix = m /\ r.at = StartOf(file, x) + 1
    BY <1>21 DEF Done
  <2>2. RightIndex(m, file, n) /\ m.currentPartition = x /\ m.currentPosition = 0 /\ m.next = KLAt(StartOf(file, x))
    <3>1. 0 \in Int
      OBVIOUS
    <3> HIDE DEF m
    <3>2. m = Moved(full, x, 0, KLAt(StartOf(file, x)))
      BY DEF m
    <3>3. KLAt(StartOf(file, x)) \in KLs
      BY <1>10 DEF KLs
    <3>4. QED
      BY <1>1, <1>8, <1>18, <3>1, <3>2, <3>3, MovedIs
  <2>3. QED
    BY <2>1, <2>2
<1>23. Before(file, x) = 0 /\ NumOf(file, x) \in Nat /\ Place(file, x, 0) = StartOf(file, x)
  <2>1. x \in 1 .. Count(file)
    BY <1>1, <1>8
  <2>2. ASSUME NEW k \in 1 .. x - 1, file.parts[k].hasEssence PROVE FALSE
    <3>1. k \in 1 .. n /\ k < x /\ k \in Nat
      BY <1>1, <1>8
    <3>2. k \in C
      BY <3>1, <2>2 DEF EssenceIn, C
    <3>3. QED
      BY <3>1, <3>2, <1>8
  <2>3. Before(file, x) = 0
    BY <1>1, <2>1, <2>2, BeforeFirst
  <2>4. 0 \in Nat /\ Before(file, x) <= 0
    BY <2>3
  <2>5. QED
    BY <1>1, <1>8, <2>1, <2>3, <2>4, EssencePlaces, PlaceIs
<1>24. InIndex(r.ix, file, n)
  BY <1>8, <1>22, <1>23 DEF InIndex
<1>25. Len(r.ix.partitions) = n
  BY <1>1, <1>22, IndexFacts
<1>26. QED
  BY <1>10, <1>22, <1>23, <1>24, <1>25

-----------------------------------------------------------------------------
(* The invariant.  As long as the reader claims to know where it is, the   *)
(* file is at the frame it says, or in it; and the index stays right even  *)
(* when it does not.                                                       *)
PlaceOf(f, i) == Place(f, i.currentPartition, i.currentPosition)
EndsAt(f, i) == Before(f, i.currentPartition) + NumOf(f, i.currentPartition)
Claim(f, i, l) == ~l /\ i.currentPosition <= Until(f, EndOf(f, Len(i.partitions)))
AtPlace(f, w, i, at) ==
    /\ i.currentPosition <= EndsAt(f, i)
    /\ PlaceOf(f, i) < w /\ i.next = f.cells[PlaceOf(f, i) + 1] /\ at = PlaceOf(f, i) + 1
InFrame(f, i, at, count) ==
    /\ i.currentPosition < EndsAt(f, i)
    /\ \E e \in 1 .. ElementCount :
          /\ count = ElementStart[e] + 1 /\ at = PlaceOf(f, i) + ElementStart[e] + 1
          /\ i.next = f.cells[PlaceOf(f, i) + ElementStart[e] + 1]
Good(f, w, d, i) ==
    /\ Known(f, Len(i.partitions), w)
    /\ InIndex(i, f, Len(i.partitions))
    /\ d >= 0 => i.currentPosition <= d
Inv ==
    /\ file \in Files /\ There(file, written)
    /\ duration \in {-1, Cardinality(Frames(file.cells))}
    /\ filePosition \in Nat /\ cpCount \in Nat /\ lost \in BOOLEAN
    /\ pc \in {"idle", "package"} => Good(file, written, duration, ix)
    /\ pc = "idle" /\ Claim(file, ix, lost) => AtPlace(file, written, ix, filePosition)
    /\ pc = "package" =>
          /\ ~lost
          /\ duration >= 0 => ix.currentPosition + 1 <= duration
          /\ Claim(file, ix, lost) => InFrame(file, ix, filePosition, cpCount)

(* What is there of a file is a part of it.                                *)
LEMMA ThereThen ==
    ASSUME FilesProper, NEW f \in Files, NEW w, There(f, w)
    PROVE  w \in Nat /\ w <= Len(f.cells) /\ Len(f.cells) \in Nat
BY FileIs DEF There

(* Moved to a frame, an index is at it.                                    *)
LEMMA InIndexMoved ==
    ASSUME NEW n, Known(file, n, written), NEW i, RightIndex(i, file, n),
           NEW position \in Nat, NEW k, SoughtIn(n, k, position), NEW kl \in KLs, NEW j, j = Moved(i, k, position, kl)
    PROVE  /\ InIndex(j, file, n) /\ Len(j.partitions) = n
           /\ j.currentPartition = k /\ j.currentPosition = position /\ j.next = kl
<1>1. file \in Files /\ n \in 1 .. Count(file) /\ n \in Nat /\ Count(file) \in Nat
  BY KnownFacts
<1>2. /\ k \in 1 .. n /\ file.parts[k].hasEssence /\ Before(file, k) <= position
      /\ k < n => position <= Before(file, k) + NumOf(file, k)
  BY DEF SoughtIn
<1>3. k \in Nat /\ position \in Int
  BY <1>1, <1>2
<1>4. RightIndex(j, file, n) /\ j.currentPartition = k /\ j.currentPosition = position /\ j.next = kl
  BY <1>1, <1>3, MovedIs
<1>5. Len(j.partitions) = n
  BY <1>1, <1>4, IndexFacts
<1>6. QED
  BY <1>2, <1>4, <1>5 DEF InIndex

(* Seeking, whether it succeeds or fails.                                  *)
LEMMA SeekKeeps ==
    ASSUME FilesProper, Inv, pc = "idle", NEW position \in Nat, position # ix.currentPosition,
           duration >= 0 => position <= duration,
           NEW r, r = SetPosition(ix, filePosition, position), Outcome(r, "idle"),
           lost' = (lost /\ r.result # "done"), UNCHANGED <<file, written, duration, cpCount>>
    PROVE  Inv'
<1> DEFINE n == Len(ix.partitions)
<1>1. /\ file \in Files /\ There(file, written) /\ filePosition \in Nat /\ cpCount \in Nat /\ lost \in BOOLEAN
      /\ duration \in {-1, Cardinality(Frames(file.cells))}
      /\ Known(file, n, written) /\ InIndex(ix, file, n) /\ RightIndex(ix, file, n)
      /\ Claim(file, ix, lost) => AtPlace(file, written, ix, filePosition)
      /\ duration >= 0 => ix.currentPosition <= duration
  BY DEF Inv, Good, InIndex
<1>2. /\ file' = file /\ written' = written /\ duration' = duration /\ cpCount' = cpCount
      /\ pc' = IF r.result = "done" THEN "idle" ELSE IF r.result = "crashed" THEN "crashed" ELSE pc
      /\ ix' = r.ix /\ filePosition' = (IF r.result = "done" THEN r.at ELSE filePosition)
  BY DEF Outcome
<1>3. written \in Nat /\ written <= Len(file.cells) /\ Len(file.cells) \in Nat
  BY <1>1, ThereThen
<1> HIDE DEF n
<1>4. ASSUME NEW k, SoughtIn(n, k, position), Place(file, k, position) < written, r = FoundAt(ix, k, position)
      PROVE  Inv'
  <2> DEFINE P == Place(file, k, position)
             j == Moved(ix, k, position, KLAt(P))
  <2>1. P \in Nat
    <3>1. FilesProper /\ k \in 1 .. Count(file) /\ file.parts[k].hasEssence /\ Before(file, k) <= position
      BY <1>1, <1>4, KnownFacts DEF SoughtIn
    <3>2. QED
      BY <1>1, <3>1, PlaceIs
  <2>2. KLAt(P) = file.cells[P + 1] /\ KLAt(P) \in KLs
    <3>1. P + 1 \in 1 .. Len(file.cells)
      BY <2>1, <1>3, <1>4
    <3>2. file.cells[P + 1] \in Cells
      BY <1>1, <3>1, FileIs
    <3>3. QED
      BY <3>2 DEF KLAt, File, KLs
  <2>3. r.result = "done" /\ r.ix = j /\ r.at = P + 1
    BY <1>4 DEF FoundAt, Done
  <2> HIDE DEF P, j
  <2>4. InIndex(j, file, n) /\ Len(j.partitions) = n /\ j.currentPartition = k /\ j.currentPosition = position /\ j.next = KLAt(P)
    <3>1. j = Moved(ix, k, position, KLAt(P))
      BY DEF j
    <3>2. QED
      BY <1>1, <1>4, <2>2, <3>1, InIndexMoved
  <2>5. pc' = "idle" /\ ix' = j /\ filePosition' = P + 1 /\ lost' = FALSE
    BY <1>2, <2>3
  <2>6. Good(file', written', duration', ix')
    BY <1>1, <1>2, <2>4, <2>5 DEF Good
  <2>7. PlaceOf(file, j) = P /\ EndsAt(file, j) = Before(file, k) + NumOf(file, k)
    BY <2>4 DEF PlaceOf, EndsAt, P
  <2>8. ASSUME Claim(file, j, FALSE) PROVE AtPlace(file, written, j, P + 1)
    <3>1. position <= IndexedTo(n)
      BY <2>4, <2>8 DEF Claim, IndexedTo
    <3>2. position <= Before(file, k) + NumOf(file, k)
      BY <1>1, <1>4, <3>1, SoughtPlace
    <3>3. P < written
      BY <1>4 DEF P
    <3>4. QED
      BY <2>2, <2>4, <2>7, <3>2, <3>3 DEF AtPlace
  <2>9. P + 1 \in Nat
    BY <2>1
  <2>10. QED
    BY <1>1, <1>2, <2>5, <2>6, <2>8, <2>9 DEF Inv
<1>5. ASSUME r = NotThere(ix, filePosition) PROVE Inv'
  <2>1. pc' = pc /\ ix' = ix /\ filePosition' = filePosition /\ lost' = lost
    BY <1>1, <1>2, <1>5 DEF NotThere
  <2>2. QED
    BY <1>2, <2>1 DEF Inv
<1>6. ASSUME r = Crashed PROVE Inv'
  <2>1. pc' = "crashed" /\ filePosition' = filePosition /\ lost' \in BOOLEAN
    BY <1>1, <1>2, <1>6 DEF Crashed
  <2>2. QED
    BY <1>1, <1>2, <2>1 DEF Inv
<1>7. QED
  BY <1>1, <1>4, <1>5, <1>6, ElsewhereIs

(* A cell more of the file changes nothing that is known.                  *)
LEMMA GrowKeeps ==
    ASSUME FilesProper, Inv, Grow
    PROVE  Inv'
<1>1. /\ file' = file /\ written' = written + 1 /\ duration' = duration /\ pc' = pc /\ ix' = ix
      /\ filePosition' = filePosition /\ cpCount' = cpCount /\ lost' = lost /\ written < Len(file.cells)
  BY DEF Grow, File
<1>2. /\ file \in Files /\ There(file, written)
  BY DEF Inv
<1>3. written \in Nat /\ Len(file.cells) \in Nat
  BY <1>2, ThereThen
<1>4. There(file, written + 1)
  <2>1. file.parts[1].hasEssence => StartOf(file, 1) + FrameLen <= written + 1
    <3>1. 1 \in 1 .. Count(file)
      BY <1>2, FileIs
    <3>2. StartOf(file, 1) \in Nat /\ FrameLen \in Nat
      BY <1>2, <3>1, FileIs, ElementPlaces
    <3>3. QED
      BY <3>2, <1>2, <1>3 DEF There
  <2>2. QED
    BY <1>1, <1>3, <2>1 DEF There
<1>5. ASSUME Good(file, written, duration, ix) PROVE Good(file, written + 1, duration, ix)
  <2>1. Known(file, Len(ix.partitions), written + 1)
    BY <1>1, <1>3, <1>4, <1>5 DEF Good, Known
  <2>2. QED
    BY <1>5, <2>1 DEF Good
<1>6. ASSUME AtPlace(file, written, ix, filePosition), Good(file, written, duration, ix)
      PROVE  AtPlace(file, written + 1, ix, filePosition)
  <2>1. PlaceOf(file, ix) < written + 1
    <3>1. /\ FilesProper /\ ix.currentPartition \in 1 .. Count(file) /\ file.parts[ix.currentPartition].hasEssence
          /\ ix.currentPosition \in Nat /\ Before(file, ix.currentPartition) <= ix.currentPosition
      BY <1>6, KnownFacts DEF Good, InIndex
    <3>2. PlaceOf(file, ix) \in Nat
      BY <1>2, <3>1, PlaceIs DEF PlaceOf
    <3>3. QED
      BY <1>3, <1>6, <3>2 DEF AtPlace
  <2>2. QED
    BY <1>6, <2>1 DEF AtPlace
<1>7. QED
  BY <1>1, <1>4, <1>5, <1>6 DEF Inv

(* Opening a file.                                                         *)
LEMMA OpenKeeps ==
    ASSUME FilesProper, Inv, NEW n \in {1, Len(Parts)}, Open(n)
    PROVE  Inv'
<1> DEFINE r == CreateIndex(n)
<1>1. /\ file' = file /\ written' = written /\ duration' = duration /\ cpCount' = cpCount /\ lost' = lost
      /\ pc = "closed"
      /\ pc' = IF r.result = "done" THEN "idle" ELSE IF r.result = "crashed" THEN "crashed" ELSE pc
      /\ ix' = r.ix /\ filePosition' = (IF r.result = "done" THEN r.at ELSE filePosition)
      /\ n = Len(file.parts) => written = Len(file.cells)
  BY DEF Open, Outcome, Parts, File
<1>2. /\ file \in Files /\ There(file, written) /\ filePosition \in Nat /\ cpCount \in Nat /\ lost \in BOOLEAN
      /\ duration \in {-1, Cardinality(Frames(file.cells))}
  BY DEF Inv
<1>3. Known(file, n, written)
  BY <1>1, <1>2 DEF Known, Count, Parts
<1> HIDE DEF r
<1>4. CASE r.result = "done"
  <2> DEFINE k == r.ix.currentPartition
             P == Place(file, k, 0)
  <2>1. /\ InIndex(r.ix, file, n) /\ Len(r.ix.partitions) = n /\ r.ix.currentPosition = 0
        /\ Before(file, k) = 0 /\ P < written /\ P \in Nat /\ r.ix.next = KLAt(P) /\ r.at = P + 1
    BY <1>3, <1>4, CreatedIs DEF r
  <2>2. pc' = "idle" /\ filePosition' = P + 1 /\ ix' = r.ix
    BY <1>1, <1>4, <2>1
  <2>3. NumOf(file, k) \in Nat
    <3>1. FilesProper /\ k \in 1 .. Count(file) /\ file.parts[k].hasEssence
      BY <1>3, <2>1, KnownFacts DEF InIndex
    <3>2. QED
      BY <1>2, <3>1, EssencePlaces
  <2>4. PlaceOf(file, r.ix) = P /\ 0 <= EndsAt(file, r.ix)
    BY <2>1, <2>3 DEF PlaceOf, EndsAt
  <2> HIDE DEF k, P
  <2>5. AtPlace(file, written, r.ix, P + 1)
    BY <2>1, <2>4 DEF AtPlace, KLAt, File
  <2>6. Good(file, written, duration, r.ix)
    <3>1. duration >= 0 => 0 <= duration
      <4>1. Cardinality(Frames(file.cells)) \in Nat
        BY <1>2, FramesFinite, FS_CardinalityType
      <4>2. QED
        BY <4>1, <1>2
    <3>2. QED
      BY <1>3, <2>1, <3>1 DEF Good
  <2>7. P + 1 \in Nat
    BY <2>1
  <2>8. QED
    BY <1>1, <1>2, <2>2, <2>5, <2>6, <2>7 DEF Inv
<1>5. CASE r.result # "done"
  <2>1. pc' \in {"closed", "crashed"} /\ filePosition' = filePosition
    BY <1>1, <1>5
  <2>2. QED
    BY <1>1, <1>2, <2>1 DEF Inv
<1>6. QED
  BY <1>4, <1>5

(* What the invariant says between the steps of a reader.                  *)
LEMMA InvFacts ==
    ASSUME FilesProper, Inv, pc \in {"idle", "package"}, NEW n, n = Len(ix.partitions)
    PROVE  /\ file \in Files /\ There(file, written) /\ filePosition \in Nat /\ cpCount \in Nat /\ lost \in BOOLEAN
           /\ duration \in {-1, Cardinality(Frames(file.cells))} /\ Cardinality(Frames(file.cells)) \in Nat
           /\ Known(file, n, written) /\ InIndex(ix, file, n) /\ RightIndex(ix, file, n)
           /\ ix \in Indexes /\ ix.currentPosition \in Nat /\ ix.next \in KLs
           /\ ix.currentPartition \in 1 .. n /\ ix.currentPartition \in 1 .. Count(file)
           /\ file.parts[ix.currentPartition].hasEssence
           /\ Before(file, ix.currentPartition) <= ix.currentPosition
           /\ SoughtIn(n, ix.currentPartition, ix.currentPosition)
           /\ PlaceOf(file, ix) \in Nat
           /\ written \in Nat /\ written <= Len(file.cells) /\ Len(file.cells) \in Nat
           /\ n \in 1 .. Count(file) /\ Count(file) \in Nat
           /\ duration >= 0 => ix.currentPosition <= duration
<1>1. /\ file \in Files /\ There(file, written) /\ filePosition \in Nat /\ cpCount \in Nat /\ lost \in BOOLEAN
      /\ duration \in {-1, Cardinality(Frames(file.cells))}
      /\ Known(file, n, written) /\ InIndex(ix, file, n) /\ RightIndex(ix, file, n)
      /\ duration >= 0 => ix.currentPosition <= duration
  BY DEF Inv, Good, InIndex
<1>2. ix \in Indexes /\ ix.next \in KLs
  BY <1>1 DEF RightIndex, Indexes
<1>3. /\ ix.currentPosition \in Nat /\ ix.currentPartition \in 1 .. n /\ file.parts[ix.currentPartition].hasEssence
      /\ Before(file, ix.currentPartition) <= ix.currentPosition
      /\ SoughtIn(n, ix.currentPartition, ix.currentPosition)
  BY <1>1 DEF InIndex, SoughtIn
<1>4. n \in 1 .. Count(file) /\ Count(file) \in Nat /\ ix.currentPartition \in 1 .. Count(file)
  BY <1>1, <1>3, KnownFacts
<1>5. PlaceOf(file, ix) \in Nat
  BY <1>1, <1>3, <1>4, PlaceIs DEF PlaceOf
<1>6. Cardinality(Frames(file.cells)) \in Nat
  BY <1>1, FramesFinite, FS_CardinalityType
<1>7. written \in Nat /\ written <= Len(file.cells) /\ Len(file.cells) \in Nat
  BY <1>1, ThereThen
<1>8. QED
  BY <1>1, <1>2, <1>3, <1>4, <1>5, <1>6, <1>7

(* position_at_frame.                                                      *)
LEMMA PositionKeeps ==
    ASSUME FilesProper, Inv, NEW n \in 0 .. AllFrames + 1, PositionAtFrame(n)
    PROVE  Inv'
<1>1. pc = "idle" /\ n # ix.currentPosition /\ (duration >= 0 => n <= duration)
      /\ Outcome(SetPosition(ix, filePosition, n), "idle")
      /\ lost' = (lost /\ SetPosition(ix, filePosition, n).result # "done")
      /\ UNCHANGED <<file, written, duration, cpCount>>
  BY DEF PositionAtFrame, InClip
<1>2. n \in Nat
  <2>1. AllFrames \in Nat
    BY <1>1, InvFacts DEF AllFrames, File
  <2>2. QED
    BY <2>1
<1>3. QED
  BY <1>1, <1>2, SeekKeeps

(* skip_next_frame.                                                        *)
LEMMA SkipKeeps ==
    ASSUME FilesProper, Inv, SkipNextFrame
    PROVE  Inv'
<1> DEFINE n == ix.currentPosition + 1
<1>1. pc = "idle" /\ (duration >= 0 => n <= duration)
      /\ Outcome(SetPosition(ix, filePosition, n), "idle")
      /\ lost' = (lost /\ SetPosition(ix, filePosition, n).result # "done")
      /\ UNCHANGED <<file, written, duration, cpCount>>
  BY DEF SkipNextFrame, FramesLeft, InClip
<1>2. n \in Nat /\ n # ix.currentPosition
  <2>1. ix.currentPosition \in Nat
    BY <1>1, InvFacts
  <2>2. QED
    BY <2>1
<1> HIDE DEF n
<1>3. QED
  BY <1>1, <1>2, SeekKeeps

(* read_next_frame, up to the first element.                               *)
LEMMA ReadNextKeeps ==
    ASSUME FilesProper, "retry" \notin Clients, Inv, ReadNextFrame
    PROVE  Inv'
<1> DEFINE n == Len(ix.partitions)
           k == ix.currentPartition
           position == ix.currentPosition
           P == PlaceOf(file, ix)
           r == SetPosition(ix, filePosition, position)
           C == EssenceIn(file, k + 1, n)
<1>1. /\ pc = "idle" /\ ~lost /\ (duration >= 0 => position + 1 <= duration)
      /\ pc' = IF r.result = "done" THEN "package" ELSE IF r.result = "crashed" THEN "crashed" ELSE pc
      /\ ix' = r.ix /\ filePosition' = (IF r.result = "done" THEN r.at ELSE filePosition)
      /\ cpCount' = (IF r.result = "done" THEN 1 ELSE 0)
      /\ file' = file /\ written' = written /\ duration' = duration /\ lost' = lost
  BY DEF ReadNextFrame, FramesLeft, InClip, Outcome
<1>2. /\ file \in Files /\ There(file, written) /\ filePosition \in Nat /\ cpCount \in Nat /\ lost \in BOOLEAN
      /\ duration \in {-1, Cardinality(Frames(file.cells))}
      /\ Known(file, n, written) /\ InIndex(ix, file, n) /\ RightIndex(ix, file, n)
      /\ ix \in Indexes /\ position \in Nat /\ SoughtIn(n, k, position) /\ P \in Nat
      /\ k \in 1 .. n /\ k \in 1 .. Count(file) /\ file.parts[k].hasEssence
      /\ n \in 1 .. Count(file) /\ Count(file) \in Nat
      /\ written \in Nat /\ written <= Len(file.cells) /\ Len(file.cells) \in Nat
  BY <1>1, InvFacts
<1>3. Claim(file, ix, lost) => AtPlace(file, written, ix, filePosition)
  BY <1>1 DEF Inv
<1>4. Claim(file, ix, lost) <=> position <= IndexedTo(n)
  BY <1>1 DEF Claim, IndexedTo
<1>5. P = Place(file, k, position)
  BY DEF PlaceOf
<1>6. /\ ix.next.key = StartKey => r = Done(ix, filePosition)
      /\ ix.next.key = "pack" /\ C # {} =>
            r = Arrived(ix, First(C))
      /\ ix.next.key # StartKey /\ (ix.next.key = "pack" => C = {}) => r = NotThere(ix, filePosition) \/ r = Crashed
  <2>1. Known(file, n, written) /\ InIndex(ix, file, n)
    BY <1>2
  <2>2. r = SetPosition(ix, filePosition, ix.currentPosition) /\ C = EssenceIn(file, ix.currentPartition + 1, n)
    OBVIOUS
  <2> HIDE DEF r, C, n, k, position, P
  <2>3. QED
    BY <2>1, <2>2, HereIs
<1>7. StartKey # "pack" /\ /\ ElementStart[1] = 0 /\ 1 \in 1 .. ElementCount
  BY ElementsAre, ElementPlaces DEF FilesProper, StartKey
<1>8. ASSUME position <= IndexedTo(n)
      PROVE  /\ P < written /\ ix.next = KLAt(P) /\ filePosition = P + 1
             /\ position <= Before(file, k) + NumOf(file, k)
  BY <1>3, <1>4, <1>8 DEF AtPlace, KLAt, File, EndsAt
<1>9. Before(file, k) \in Nat /\ NumOf(file, k) \in Nat /\ IndexedTo(n) \in Nat
      /\ Before(file, k) + NumOf(file, k) <= IndexedTo(n)
  BY <1>2, IndexedEnd DEF IndexedTo
<1> HIDE DEF r, C, n, k, position, P
<1>10. ASSUME position <= IndexedTo(n), position < Before(file, k) + NumOf(file, k)
       PROVE  ix.next.key = StartKey /\ InFrame(file, ix, filePosition, 1)
  <2>1. KLAt(P).key = StartKey
    BY <1>2, <1>5, <1>10, SoughtPlace
  <2>2. filePosition = P + 0 + 1 /\ ix.next = file.cells[P + 0 + 1] /\ 1 = 0 + 1
    BY <1>2, <1>8, <1>10 DEF KLAt, File
  <2>3. InFrame(file, ix, filePosition, 1)
    BY <1>7, <1>10, <2>2 DEF InFrame, P, EndsAt, k, position
  <2>4. QED
    BY <1>8, <1>10, <2>1, <2>3
<1>11. CASE r = Done(ix, filePosition) /\ (position <= IndexedTo(n) => position < Before(file, k) + NumOf(file, k))
  <2>1. pc' = "package" /\ ix' = ix /\ filePosition' = filePosition /\ cpCount' = 1
    BY <1>1, <1>11 DEF Done
  <2>2. Claim(file, ix, lost) => InFrame(file, ix, filePosition, 1)
    BY <1>4, <1>10, <1>11
  <2>3. Good(file, written, duration, ix)
    BY <1>1 DEF Inv
  <2>4. QED
    BY <1>1, <1>2, <2>1, <2>2, <2>3 DEF Inv, position
<1>12. CASE r = NotThere(ix, filePosition)
  <2>1. pc' = pc /\ ix' = ix /\ filePosition' = filePosition /\ cpCount' = 0
    BY <1>1, <1>12 DEF NotThere
  <2>2. QED
    BY <1>1, <2>1 DEF Inv
<1>13. CASE r = Crashed
  <2>1. pc' = "crashed" /\ filePosition' = filePosition /\ cpCount' = 0
    BY <1>1, <1>13 DEF Crashed
  <2>2. QED
    BY <1>1, <1>2, <2>1 DEF Inv
<1>14. CASE ix.next.key = "pack" /\ C # {} /\ position <= IndexedTo(n) /\ position = Before(file, k) + NumOf(file, k)
  <2> DEFINE j == First(C)
             S == StartOf(file, j)
             i == [ix EXCEPT !.currentPartition = j, !.next = KLAt(S)]
  <2>1. /\ j \in 1 .. n /\ j \in Nat /\ file.parts[j].hasEssence
        /\ Before(file, j) = position /\ NumOf(file, j) \in Nat /\ NumOf(file, j) >= 1
        /\ Place(file, j, position) = S /\ S \in Nat
        /\ KLAt(S) \in Cells
    BY <1>2, <1>14, NextPartition DEF C
  <2>2. pc' = "package" /\ ix' = i /\ filePosition' = S + 1 /\ cpCount' = 1
    BY <1>1, <1>6, <1>14 DEF Done, Arrived
  <2> HIDE DEF j
  <2>3. i = Moved(ix, j, position, KLAt(S))
    BY <1>2 DEF Moved, Indexes, position
  <2> HIDE DEF i, S
  <2>4. SoughtIn(n, j, position)
    BY <1>2, <2>1 DEF SoughtIn
  <2>5. /\ InIndex(i, file, n) /\ Len(i.partitions) = n
        /\ i.currentPartition = j /\ i.currentPosition = position /\ i.next = KLAt(S)
    <3>1. KLAt(S) \in KLs
      BY <2>1 DEF KLs
    <3>2. Known(file, n, written) /\ RightIndex(ix, file, n) /\ position \in Nat
      BY <1>2
    <3>3. QED
      BY <2>3, <2>4, <3>1, <3>2, InIndexMoved
  <2>6. Good(file, written, duration, i)
    <3>1. Good(file, written, duration, ix)
      BY <1>1 DEF Inv
    <3>2. QED
      BY <1>2, <2>5, <3>1 DEF Good, position
  <2>7. InFrame(file, i, S + 1, 1)
    <3>1. PlaceOf(file, i) = S /\ position < EndsAt(file, i)
      BY <1>2, <2>1, <2>5 DEF PlaceOf, EndsAt
    <3>2. S + 1 = S + 0 + 1 /\ i.next = file.cells[S + 0 + 1] /\ 1 = 0 + 1
      BY <2>1, <2>5 DEF KLAt, File
    <3>3. QED
      BY <1>7, <2>5, <3>1, <3>2 DEF InFrame
  <2>8. S + 1 \in Nat
    BY <2>1
  <2>9. QED
    BY <1>1, <1>2, <2>2, <2>5, <2>6, <2>7, <2>8 DEF Inv
<1>15. CASE position <= IndexedTo(n)
  <2>1. CASE position < Before(file, k) + NumOf(file, k)
    <3>1. r = Done(ix, filePosition)
      BY <1>6, <1>10, <1>15, <2>1
    <3>2. QED
      BY <1>11, <2>1, <3>1
  <2>2. CASE position = Before(file, k) + NumOf(file, k)
    <3>1. P = EndOf(file, k)
      BY <1>2, <1>5, <1>15, <2>2, SoughtPlace
    <3>2. k < Count(file)
      <4>1. k = Count(file) => EndOf(file, k) = Len(file.cells)
        BY DEF EndOf, Count
      <4>2. P < written
        BY <1>8, <1>15
      <4>3. QED
        BY <1>2, <3>1, <4>1, <4>2
    <3>3. KLAt(P).key = "pack"
      BY <1>2, <1>5, <1>15, <2>2, <3>2, SoughtPlace
    <3>4. ix.next.key = "pack"
      BY <1>8, <1>15, <3>3
    <3>5. QED
      BY <1>6, <1>7, <1>12, <1>13, <1>14, <1>15, <2>2, <3>4
  <2>3. QED
    BY <1>2, <1>8, <1>9, <1>15, <2>1, <2>2
<1>16. CASE ~(position <= IndexedTo(n))
  <2>1. C = {}
    <3>1. k = n
      <4>1. k < n => position <= Before(file, k) + NumOf(file, k)
        BY <1>2 DEF SoughtIn
      <4>2. k \in 1 .. n /\ n \in Nat
        BY <1>2
      <4>3. QED
        BY <1>2, <1>9, <1>16, <4>1, <4>2
    <3>2. n \in Nat
      BY <1>2
    <3>3. QED
      BY <3>1, <3>2 DEF C, EssenceIn
  <2>2. r = Done(ix, filePosition) \/ r = NotThere(ix, filePosition) \/ r = Crashed
    BY <1>6, <2>1
  <2>3. QED
    BY <1>11, <1>12, <1>13, <1>16, <2>2
<1>17. QED
  BY <1>15, <1>16

(* Every key that was read has a length.                                   *)
LEMMA LenIs == ASSUME NEW kl \in KLs PROVE kl.len \in Nat
BY DEF KLs, Cells, NullKL

(* A read that fails is lost, and no more is claimed.                      *)
LEMMA FailKeeps ==
    ASSUME FilesProper, Inv, pc = "package", ReadElementFails \/ LastElement
    PROVE  Inv'
<1> DEFINE n == Len(ix.partitions)
           j == [ix EXCEPT !.next = NullKL]
<1>1. /\ file \in Files /\ There(file, written) /\ filePosition \in Nat /\ written \in Nat
      /\ duration \in {-1, Cardinality(Frames(file.cells))}
      /\ Known(file, n, written) /\ InIndex(ix, file, n) /\ ix.next \in KLs
      /\ duration >= 0 => ix.currentPosition <= duration
  BY InvFacts
<1>2. filePosition + ix.next.len \in Nat
  BY <1>1, LenIs
<1>3. /\ file' = file /\ written' = written /\ duration' = duration
      /\ pc' = "idle" /\ lost' = TRUE /\ cpCount' = 0
      /\ ix' = ix \/ ix' = j
      /\ filePosition' = written \/ filePosition' = filePosition + ix.next.len
  BY DEF ReadElementFails, LastElement, ReadFails
<1>4. Good(file, written, duration, ix)
  BY Zenon DEF Inv
<1>5. Good(file, written, duration, j)
  <2> DEFINE k == ix.currentPartition
             p == ix.currentPosition
  <2>1. Known(file, n, written) /\ RightIndex(ix, file, n) /\ SoughtIn(n, k, p) /\ p \in Nat
    BY <1>1 DEF InIndex, SoughtIn
  <2>2. j = Moved(ix, k, p, NullKL) /\ NullKL \in KLs
    BY <2>1 DEF RightIndex, Indexes, Moved, KLs
  <2> HIDE DEF n, j, k, p
  <2>3. InIndex(j, file, n) /\ Len(j.partitions) = n /\ j.currentPosition = p
    BY <2>1, <2>2, InIndexMoved
  <2>4. QED
    BY <1>1, <2>3 DEF Good, p
<1> HIDE DEF n, j
<1>6. filePosition' \in Nat
  BY <1>1, <1>2, <1>3
<1>7. Good(file, written, duration, ix')
  BY <1>3, <1>4, <1>5
<1>8. QED
  BY <1>1, <1>3, <1>6, <1>7 DEF Inv, Claim

(* The elements of a frame are read in turn, and behind the last is the    *)
(* next frame or the end of the partition.                                 *)
LEMMA ElementKeeps ==
    ASSUME FilesProper, Inv, pc = "package", ReadElement
    PROVE  Inv'
<1> DEFINE n == Len(ix.partitions)
           k == ix.currentPartition
           position == ix.currentPosition
           P == PlaceOf(file, ix)
           at == filePosition + ix.next.len
           count == cpCount + ix.next.len + 1
           whole == count = ix.contentPackageLen + 1
           read == [ix EXCEPT !.next = KLAt(at)]
           next == [read EXCEPT !.currentPosition = @ + 1]
<1>1. /\ file \in Files /\ There(file, written) /\ filePosition \in Nat /\ cpCount \in Nat
      /\ written \in Nat /\ written <= Len(file.cells) /\ Len(file.cells) \in Nat
      /\ duration \in {-1, Cardinality(Frames(file.cells))}
      /\ Known(file, n, written) /\ InIndex(ix, file, n) /\ RightIndex(ix, file, n)
      /\ ix \in Indexes /\ ix.next \in KLs /\ position \in Nat /\ P \in Nat
      /\ k \in 1 .. n /\ k \in 1 .. Count(file) /\ file.parts[k].hasEssence
      /\ Before(file, k) <= position /\ SoughtIn(n, k, position)
      /\ n \in 1 .. Count(file) /\ Count(file) \in Nat
  BY InvFacts
<1>2. /\ ~lost /\ (duration >= 0 => position + 1 <= duration)
      /\ Claim(file, ix, lost) => InFrame(file, ix, filePosition, cpCount)
  BY DEF Inv
<1>3. Claim(file, ix, lost) <=> position <= IndexedTo(n)
  BY <1>2 DEF Claim, IndexedTo
<1>4. ix.next.len \in Nat /\ at \in Nat /\ count \in Nat
  <2>1. ix.next.len \in Nat
    BY <1>1, LenIs
  <2>2. filePosition \in Nat /\ cpCount \in Nat
    BY <1>1
  <2>3. QED
    BY <2>1, <2>2
<1>5. /\ file' = file /\ written' = written /\ duration' = duration /\ ~AtEOF(at) /\ filePosition' = at + 1
      /\ \/ /\ count <= ix.contentPackageLen /\ ix' = read /\ cpCount' = count /\ pc' = pc /\ lost' = lost
         \/ /\ count > ix.contentPackageLen /\ ix' = (IF whole THEN next ELSE read)
            /\ pc' = "idle" /\ cpCount' = 0 /\ lost' = (lost \/ ~whole)
  BY DEF ReadElement
<1>6. at < written /\ KLAt(at) = file.cells[at + 1] /\ KLAt(at) \in KLs
  <2>1. at < written
    <3> HIDE DEF at
    <3>1. QED
      BY <1>1, <1>4, <1>5 DEF AtEOF
  <2>2. at + 1 \in 1 .. Len(file.cells)
    <3> HIDE DEF at
    <3>1. QED
      BY <2>1, <1>1, <1>4
  <2>3. KLAt(at) = file.cells[at + 1]
    BY DEF KLAt, File
  <2>4. QED
    BY <1>1, <2>1, <2>2, <2>3, FileIs DEF KLs
<1>7. ix.contentPackageLen = FrameLen
  BY <1>1 DEF RightIndex
<1>8. /\ InIndex(read, file, n) /\ Len(read.partitions) = n /\ read.next = KLAt(at)
      /\ read.currentPartition = k /\ read.currentPosition = position
  <2> HIDE DEF n, at
  <2> DEFINE kl == KLAt(at)
  <2>1. kl \in KLs /\ Known(file, n, written) /\ RightIndex(ix, file, n) /\ SoughtIn(n, k, position) /\ position \in Nat
    BY <1>1, <1>6
  <2>2. read = Moved(ix, k, position, kl)
    BY <1>1 DEF Indexes, Moved
  <2> HIDE DEF read, kl, k, position
  <2>3. InIndex(read, file, n) /\ Len(read.partitions) = n /\ read.next = kl
        /\ read.currentPartition = k /\ read.currentPosition = position
    BY <2>1, <2>2, InIndexMoved
  <2>4. QED
    BY <2>3 DEF kl
<1>9. PlaceOf(file, read) = P /\ EndsAt(file, read) = EndsAt(file, ix)
  <2> HIDE DEF read
  <2>1. QED
    BY <1>8 DEF PlaceOf, EndsAt
<1>10. next = Moved(ix, k, position + 1, KLAt(at))
  BY <1>1 DEF Moved, Indexes
<1> HIDE DEF n, k, position, P, at, count, whole, read, next
(* Where in the frame the reader is.                                       *)
<1>11. ASSUME position <= IndexedTo(n)
       PROVE  /\ position < Before(file, k) + NumOf(file, k)
              /\ \E e \in 1 .. ElementCount :
                    /\ at = P + ElementStart[e + 1] /\ count = ElementStart[e + 1] + 1
                    /\ count > FrameLen <=> e = ElementCount
  <2>1. InFrame(file, ix, filePosition, cpCount)
    BY <1>2, <1>3, <1>11
  <2>2. position < Before(file, k) + NumOf(file, k)
    BY <2>1 DEF InFrame, EndsAt, k, position
  <2>3. PICK e \in 1 .. ElementCount :
           /\ cpCount = ElementStart[e] + 1 /\ filePosition = P + ElementStart[e] + 1
           /\ ix.next = file.cells[P + ElementStart[e] + 1]
    BY <2>1 DEF InFrame, P
  <2>4. /\ ElementStart[e] \in Nat /\ Elements[e].len \in Nat
        /\ ElementStart[e + 1] = ElementStart[e] + 1 + Elements[e].len
        /\ FrameLen \in Nat /\ FrameLen = ElementStart[ElementCount + 1]
        /\ e \in Nat /\ ElementCount \in Nat
    BY ElementPlaces, ElementsAre
  <2>5. ix.next.len = Elements[e].len
    <3> DEFINE j == position - Before(file, k)
               p == P + ElementStart[e]
    <3>1. Before(file, k) \in Nat /\ NumOf(file, k) \in Nat /\ FilesProper
      BY <1>1, UntilStart, EssencePlaces
    <3>2. j \in Nat /\ j < NumOf(file, k)
      BY <1>1, <2>2, <3>1
    <3>3. P = StartOf(file, k) + j * FrameLen
      BY DEF P, PlaceOf, Place, k, position
    <3>4. p = StartOf(file, k) + j * FrameLen + ElementStart[e]
      BY <3>3
    <3> HIDE DEF j, p
    <3>5. file.cells[p + 1].len = Elements[e].len
      BY <1>1, <3>1, <3>2, <3>4, ElementCell
    <3>6. QED
      BY <2>3, <3>5 DEF p
  <2>6. at = P + ElementStart[e + 1] /\ count = ElementStart[e + 1] + 1
    <3>1. P \in Nat
      BY <1>1
    <3>2. QED
      BY <2>3, <2>4, <2>5, <3>1 DEF at, count
  <2>7. count > FrameLen <=> e = ElementCount
    <3>1. CASE e = ElementCount
      BY <2>4, <2>6, <3>1
    <3>2. CASE e # ElementCount
      <4>1. e + 1 \in 1 .. ElementCount
        BY <2>4, <3>2
      <4>2. ElementStart[e + 1] + 1 + Elements[e + 1].len <= FrameLen /\ Elements[e + 1].len \in Nat /\ ElementStart[e + 1] \in Nat
        BY <4>1, ElementPlaces
      <4>3. QED
        BY <2>4, <2>6, <3>2, <4>2
    <3>3. QED
      BY <3>1, <3>2
  <2>8. QED
    BY <2>2, <2>6, <2>7
<1>12. at + 1 \in Nat /\ Len(next.partitions) = n
  <2>1. at + 1 \in Nat
    BY <1>4
  <2>2. next.partitions = ix.partitions
    BY <1>1, <1>10 DEF Moved, Indexes
  <2>3. QED
    BY <2>1, <2>2 DEF n
<1>13. CASE /\ count <= FrameLen /\ ix' = read /\ cpCount' = count /\ pc' = pc /\ lost' = lost
  <2>1. ASSUME position <= IndexedTo(n) PROVE InFrame(file, read, at + 1, count)
    <3>1. PICK e \in 1 .. ElementCount :
             at = P + ElementStart[e + 1] /\ count = ElementStart[e + 1] + 1 /\ (count > FrameLen <=> e = ElementCount)
      BY <1>11, <2>1
    <3>2. e # ElementCount
      BY <1>4, <1>13, <3>1, ElementPlaces
    <3>3. e + 1 \in 1 .. ElementCount
      BY <3>2, ElementsAre
    <3>4. read.next = file.cells[P + ElementStart[e + 1] + 1] /\ at + 1 = P + ElementStart[e + 1] + 1
      BY <1>6, <1>8, <3>1
    <3>5. read.currentPosition < EndsAt(file, read)
      BY <1>8, <1>9, <1>11, <2>1 DEF EndsAt, k
    <3>6. QED
      BY <1>9, <3>1, <3>3, <3>4, <3>5 DEF InFrame
  <2>2. Claim(file, read, lost) <=> position <= IndexedTo(n)
    BY <1>2, <1>8 DEF Claim, IndexedTo
  <2>3. Good(file, written, duration, read)
    <3>1. Good(file, written, duration, ix)
      BY Zenon DEF Inv
    <3>2. QED
      BY <1>1, <1>8, <3>1 DEF Good, position
  <2>4. QED
    BY <1>1, <1>2, <1>4, <1>5, <1>8, <1>12, <1>13, <2>1, <2>2, <2>3 DEF Inv
<1>14. CASE /\ count > FrameLen /\ ix' = read /\ ~whole
            /\ pc' = "idle" /\ cpCount' = 0 /\ lost' = (lost \/ ~whole)
  <2>1. Good(file, written, duration, read)
    <3>1. Good(file, written, duration, ix)
      BY Zenon DEF Inv
    <3>2. QED
      BY <1>1, <1>8, <3>1 DEF Good, position
  <2>2. lost' = TRUE
    BY <1>14
  <2>3. QED
    BY <1>1, <1>5, <1>12, <1>14, <2>1, <2>2 DEF Inv, Claim
<1>15. CASE /\ count > FrameLen /\ ix' = next /\ whole
            /\ pc' = "idle" /\ cpCount' = 0 /\ lost' = (lost \/ ~whole)
  <2>1. lost' = FALSE /\ position + 1 \in Nat
    <3>1. lost' = FALSE
      BY <1>2, <1>15, Zenon
    <3>2. position \in Nat
      BY <1>1
    <3>3. QED
      BY <3>1, <3>2
  <2>2. Before(file, k) \in Nat /\ NumOf(file, k) \in Nat /\ IndexedTo(n) \in Nat
        /\ Before(file, k) + NumOf(file, k) <= IndexedTo(n)
    BY <1>1, IndexedEnd DEF IndexedTo
  <2>3. k < n => position + 1 <= Before(file, k) + NumOf(file, k)
    <3>1. ASSUME k < n PROVE position <= IndexedTo(n)
      <4>1. position <= Before(file, k) + NumOf(file, k)
        BY <1>1, <3>1 DEF SoughtIn
      <4>2. QED
        BY <1>1, <2>2, <4>1
    <3>2. QED
      BY <1>1, <1>11, <2>2, <3>1
  <2>4. SoughtIn(n, k, position + 1)
    <3>1. Before(file, k) <= position + 1
      BY <1>1, <2>2
    <3>2. QED
      BY <1>1, <2>3, <3>1 DEF SoughtIn
  <2>5. /\ InIndex(next, file, n) /\ next.currentPartition = k /\ next.currentPosition = position + 1
        /\ next.next = KLAt(at)
    <3>1. Known(file, n, written) /\ RightIndex(ix, file, n)
      BY <1>1
    <3>2. QED
      BY <1>6, <1>10, <2>1, <2>4, <3>1, InIndexMoved
  <2>6. Good(file, written, duration, next)
    BY <1>1, <1>2, <1>12, <2>5 DEF Good
  <2>7. ASSUME position + 1 <= IndexedTo(n) PROVE AtPlace(file, written, next, at + 1)
    <3>1. position <= IndexedTo(n)
      BY <1>1, <2>2, <2>7
    <3>2. position < Before(file, k) + NumOf(file, k)
      BY <1>11, <3>1
    <3>3. at = P + FrameLen
      <4>1. PICK e \in 1 .. ElementCount :
               at = P + ElementStart[e + 1] /\ count = ElementStart[e + 1] + 1 /\ (count > FrameLen <=> e = ElementCount)
        BY <1>11, <3>1
      <4>2. e = ElementCount
        BY <1>15, <4>1
      <4>3. QED
        BY <4>1, <4>2, ElementPlaces
    <3>4. PlaceOf(file, next) = at
      <4>1. Place(file, k, position + 1) = Place(file, k, position) + FrameLen
        BY <1>1, PlaceIs
      <4>2. QED
        BY <2>5, <3>3, <4>1 DEF PlaceOf, P, k, position
    <3>5. position + 1 <= EndsAt(file, next)
      BY <1>1, <2>2, <2>5, <3>2 DEF EndsAt
    <3>6. QED
      BY <1>6, <2>5, <3>4, <3>5 DEF AtPlace
  <2>8. Claim(file, next, lost') => position + 1 <= IndexedTo(n)
    BY <1>12, <2>5 DEF Claim, IndexedTo
  <2>9. QED
    BY <1>1, <1>5, <1>12, <1>15, <2>1, <2>6, <2>7, <2>8 DEF Inv
<1>16. QED
  BY <1>5, <1>7, <1>13, <1>14, <1>15

(* Nothing is claimed of a file that is not open.                          *)
LEMMA Starts ==
    ASSUME FilesProper, Opened = "frame", Init
    PROVE  Inv
<1> DEFINE i == [NoIndex EXCEPT !.partitions = <<NewEntry>>]
<1>1. /\ file \in Files /\ written \in EssenceStart(i, 1) .. Len(file.cells)
      /\ HasEssence(1) => FrameThere(0)
      /\ duration \in {-1, AllFrames} /\ pc = "closed" /\ filePosition = 0 /\ cpCount = 0 /\ lost = FALSE
  BY DEF Init, File
<1>2. Count(file) \in Nat /\ 1 \in 1 .. Count(file) /\ Len(file.cells) \in Nat /\ StartOf(file, 1) \in Nat
  BY <1>1, FileIs
<1>3. EssenceStart(i, 1) = StartOf(file, 1)
  <2>1. i.partitions[1].essenceStartPos = -1
    BY DEF NoIndex, NewEntry
  <2> HIDE DEF i
  <2>2. ~(i.partitions[1].essenceStartPos >= 0)
    BY <2>1
  <2>3. QED
    BY <2>2, Zenon DEF EssenceStart, StartOf, PartitionDataStart, Parts
<1> HIDE DEF i
<1>4. written \in 0 .. Len(file.cells)
  BY <1>1, <1>2, <1>3
<1>5. ASSUME file.parts[1].hasEssence PROVE StartOf(file, 1) + FrameLen <= written
  <2>1. FrameStart(0) + FrameLen <= written
    BY <1>1, <1>5 DEF HasEssence, FrameThere, Parts
  <2>2. Before(file, 1) = 0
    <3>1. \A c \in 1 .. 1 - 1 : ~file.parts[c].hasEssence
      OBVIOUS
    <3>2. QED
      BY <1>1, <1>2, <3>1, BeforeFirst
  <2>3. NumOf(file, 1) \in Nat /\ NumOf(file, 1) >= 1
    BY <1>1, <1>2, <1>5, EssencePlaces
  <2>4. 0 \in Nat /\ Before(file, 1) <= 0 /\ 0 < Before(file, 1) + NumOf(file, 1) /\ 0 = Before(file, 1)
    BY <2>2, <2>3
  <2>5. FrameStart(0) = Place(file, 1, 0)
    BY <1>1, <1>2, <1>5, <2>4, FrameStartIs
  <2>6. Place(file, 1, 0) = StartOf(file, 1)
    BY <1>1, <1>2, <1>5, <2>4, PlaceIs
  <2>7. QED
    BY <2>1, <2>5, <2>6
<1>6. There(file, written)
  BY <1>4, <1>5 DEF There
<1>7. 0 \in Nat /\ FALSE \in BOOLEAN
  OBVIOUS
<1>8. QED
  BY <1>1, <1>6, <1>7 DEF Inv, AllFrames, File

(* Every step keeps the invariant.                                         *)
LEMMA StepKeeps ==
    ASSUME FilesProper, "retry" \notin Clients, Inv, [Next]_vars
    PROVE  Inv'
<1>1. CASE Grow
  BY <1>1, GrowKeeps
<1>2. CASE \E n \in {1, Len(Parts)} : Open(n)
  BY <1>2, OpenKeeps
<1>3. CASE \E n \in 0 .. AllFrames + 1 : PositionAtFrame(n)
  BY <1>3, PositionKeeps
<1>4. CASE SkipNextFrame
  BY <1>4, SkipKeeps
<1>5. CASE ReadNextFrame
  BY <1>5, ReadNextKeeps
<1>6. CASE ReadElement
  <2>1. pc = "package"
    BY <1>6 DEF ReadElement
  <2>2. QED
    BY <1>6, <2>1, ElementKeeps
<1>7. CASE ReadElementFails \/ LastElement
  <2>1. pc = "package"
    BY <1>7 DEF ReadElementFails, LastElement
  <2>2. QED
    BY <1>7, <2>1, FailKeeps
<1>8. CASE UNCHANGED vars
  BY <1>8 DEF vars, Inv
<1>9. QED
  BY <1>1, <1>2, <1>3, <1>4, <1>5, <1>6, <1>7, <1>8 DEF Next

-----------------------------------------------------------------------------
(* What it means for what is delivered and looked for.                     *)
LEMMA IndexedIs ==
    ASSUME FilesProper, Inv, pc \in {"idle", "package"}, NEW n, n = Len(ix.partitions)
    PROVE  IndexedFrames = IndexedTo(n) /\ IndexedTo(n) \in Nat /\ IndexedTo(n) <= AllFrames /\ AllFrames \in Nat
<1>1. file \in Files /\ n \in 1 .. Count(file) /\ Count(file) \in Nat
  BY InvFacts
<1>2. /\ AllFrames \in Nat /\ IndexedTo(n) \in Nat /\ IndexedTo(n) <= AllFrames
      /\ n = Count(file) => IndexedTo(n) = AllFrames
  BY <1>1, AllAre DEF AllFrames, IndexedTo, File
<1>3. CASE n = Count(file)
  <2>1. ~(n < Len(Parts))
    BY <1>1, <1>3 DEF Count, Parts
  <2>2. QED
    BY <1>2, <1>3, <2>1 DEF IndexedFrames
<1>4. CASE n # Count(file)
  <2>1. n < Len(Parts)
    BY <1>1, <1>4 DEF Count, Parts
  <2>2. IndexedFrames = FramesBefore(Parts[n + 1].at)
    BY <2>1 DEF IndexedFrames
  <2>3. EndOf(file, n) = Parts[n + 1].at
    BY <1>4 DEF EndOf, Count, Parts
  <2>4. FramesBefore(Parts[n + 1].at) = IndexedTo(n)
    BY <2>3 DEF FramesBefore, IndexedTo, Until, File
  <2>5. QED
    BY <1>2, <2>2, <2>4
<1>5. QED
  BY <1>3, <1>4

(* What is at its place is in step.                                        *)
LEMMA InStepIs ==
    ASSUME FilesProper, Inv
    PROVE  InStep
<1> DEFINE n == Len(ix.partitions)
           k == ix.currentPartition
           position == ix.currentPosition
           P == PlaceOf(file, ix)
<1> SUFFICES ASSUME pc \in {"idle", "package"}, ~lost, position <= IndexedFrames
             PROVE  /\ pc = "idle" =>
                           \/ AtFrame(ix, filePosition, position)
                           \/ /\ ix.next.key = "pack"
                              /\ \E c \in 1 .. Len(Parts) - 1 :
                                    /\ filePosition = Parts[c + 1].at + 1
                                    /\ position = FramesBefore(Parts[c + 1].at)
                    /\ pc = "package" =>
                           /\ filePosition = FrameStart(position) + cpCount
                           /\ ix.next = KLAt(filePosition - 1) /\ IsElement(ix.next)
  BY DEF InStep
<1>1. /\ file \in Files /\ Known(file, n, written) /\ position \in Nat /\ SoughtIn(n, k, position) /\ P \in Nat
      /\ P = Place(file, k, position) /\ k \in 1 .. Count(file) /\ file.parts[k].hasEssence
      /\ Before(file, k) <= position
      /\ written \in Nat /\ written <= Len(file.cells) /\ Len(file.cells) \in Nat /\ Count(file) \in Nat
  BY InvFacts DEF PlaceOf
<1>2. IndexedFrames = IndexedTo(n)
  BY IndexedIs
<1>3. position <= IndexedTo(n) /\ Claim(file, ix, lost)
  BY <1>2 DEF Claim, IndexedTo
<1>4. /\ position < Before(file, k) + NumOf(file, k) =>
            /\ FrameStart(position) = P /\ position < AllFrames
      /\ position = Before(file, k) + NumOf(file, k) => P = EndOf(file, k)
      /\ position = Before(file, k) + NumOf(file, k) /\ k < Count(file) =>
            P = file.parts[k + 1].at /\ KLAt(P).key = "pack"
  <2> HIDE DEF n, k, position, P
  <2>1. QED
    BY <1>1, <1>3, SoughtPlace
<1>5. Before(file, k) \in Nat /\ NumOf(file, k) \in Nat
  BY <1>1, UntilStart, EssencePlaces
<1>6. ASSUME pc = "idle"
      PROVE  \/ AtFrame(ix, filePosition, position)
             \/ /\ ix.next.key = "pack"
                /\ \E c \in 1 .. Len(Parts) - 1 :
                      /\ filePosition = Parts[c + 1].at + 1
                      /\ position = FramesBefore(Parts[c + 1].at)
  <2>1. /\ position <= Before(file, k) + NumOf(file, k)
        /\ P < written /\ ix.next = KLAt(P) /\ filePosition = P + 1
    BY <1>3, <1>6 DEF Inv, AtPlace, EndsAt, KLAt, File
  <2>2. CASE position < Before(file, k) + NumOf(file, k)
    <3>1. AtFrame(ix, filePosition, position)
      BY <1>4, <2>1, <2>2 DEF AtFrame
    <3>2. QED
      BY <3>1
  <2>3. CASE position = Before(file, k) + NumOf(file, k)
    <3>1. k < Count(file)
      <4>1. k = Count(file) => EndOf(file, k) = Len(file.cells)
        BY DEF EndOf, Count
      <4>2. P = EndOf(file, k) /\ P < written
        BY <1>4, <2>1, <2>3
      <4> HIDE DEF P
      <4>3. QED
        BY <1>1, <4>1, <4>2
    <3>2. P = Parts[k + 1].at /\ ix.next.key = "pack" /\ filePosition = Parts[k + 1].at + 1
      BY <1>4, <2>1, <2>3, <3>1 DEF Parts
    <3>3. k \in 1 .. Len(Parts) - 1
      BY <1>1, <3>1 DEF Count, Parts
    <3>4. position = FramesBefore(Parts[k + 1].at)
      <4>1. EndOf(file, k) = Parts[k + 1].at
        BY <1>4, <2>3, <3>2
      <4>2. Until(file, EndOf(file, k)) = Before(file, k) + NumOf(file, k)
        BY <1>1, UntilEnd, KnownFacts
      <4>3. QED
        BY <2>3, <4>1, <4>2 DEF FramesBefore, Until, File
    <3>5. QED
      BY <3>2, <3>3, <3>4
  <2>4. QED
    BY <1>1, <1>5, <2>1, <2>2, <2>3
<1>7. ASSUME pc = "package"
      PROVE  /\ filePosition = FrameStart(position) + cpCount
             /\ ix.next = KLAt(filePosition - 1) /\ IsElement(ix.next)
  <2>1. InFrame(file, ix, filePosition, cpCount)
    BY <1>3, <1>7 DEF Inv
  <2>2. position < Before(file, k) + NumOf(file, k)
    BY <2>1 DEF InFrame, EndsAt
  <2>3. PICK e \in 1 .. ElementCount :
           /\ cpCount = ElementStart[e] + 1 /\ filePosition = P + ElementStart[e] + 1
           /\ ix.next = file.cells[P + ElementStart[e] + 1]
    BY <2>1 DEF InFrame
  <2>4. FrameStart(position) = P
    BY <1>4, <2>2
  <2>5. ElementStart[e] \in Nat
    BY ElementPlaces
  <2>6. FilesProper
    OBVIOUS
  <2> DEFINE j == position - Before(file, k)
             p == P + ElementStart[e]
  <2>7. j \in Nat /\ j < NumOf(file, k) /\ p = StartOf(file, k) + j * FrameLen + ElementStart[e]
    <3>1. j \in Nat /\ j < NumOf(file, k)
      BY <1>1, <1>5, <2>2
    <3>2. P = StartOf(file, k) + j * FrameLen
      BY DEF PlaceOf, Place
    <3>3. QED
      BY <3>1, <3>2
  <2>8. file.cells[p + 1].key = Elements[e].key
    <3> HIDE DEF j, p, k
    <3>1. QED
      BY <1>1, <2>6, <2>7, ElementCell
  <2>9. filePosition = P + cpCount /\ filePosition - 1 = p
    <3> HIDE DEF P
    <3>1. P \in Nat
      BY <1>1
    <3>2. QED
      BY <2>3, <2>5, <3>1
  <2>10. ix.next = KLAt(filePosition - 1)
    BY <2>3, <2>9 DEF KLAt, File
  <2>11. IsElement(ix.next)
    BY <2>3, <2>8, ElementsAre DEF IsElement
  <2>12. QED
    BY <2>4, <2>9, <2>10, <2>11
<1>8. QED
  BY <1>6, <1>7

(* The element that is read is where a frame has it, and ends there.       *)
LEMMA ElementEnds ==
    ASSUME FilesProper, Inv, pc = "package", ix.currentPosition < IndexedFrames
    PROVE  /\ ~lost /\ ix.currentPosition \in 0 .. AllFrames - 1 /\ FrameStart(ix.currentPosition) \in Nat
           /\ written \in Nat /\ ix.contentPackageLen = FrameLen
           /\ \E e \in 1 .. ElementCount :
                 /\ filePosition + ix.next.len = FrameStart(ix.currentPosition) + ElementStart[e + 1]
                 /\ cpCount + ix.next.len = ElementStart[e + 1]
<1> DEFINE n == Len(ix.partitions)
           k == ix.currentPartition
           position == ix.currentPosition
           P == PlaceOf(file, ix)
<1>1. /\ file \in Files /\ Known(file, n, written) /\ position \in Nat /\ SoughtIn(n, k, position) /\ P \in Nat
      /\ P = Place(file, k, position) /\ k \in 1 .. Count(file) /\ file.parts[k].hasEssence
      /\ Before(file, k) <= position /\ RightIndex(ix, file, n)
      /\ written \in Nat /\ written <= Len(file.cells) /\ Len(file.cells) \in Nat /\ Count(file) \in Nat
  BY InvFacts DEF PlaceOf
<1>2. IndexedFrames = IndexedTo(n) /\ IndexedTo(n) \in Nat /\ AllFrames \in Nat
  BY IndexedIs
<1>3. ~lost /\ position <= IndexedTo(n) /\ Claim(file, ix, lost)
  <2>1. position <= IndexedTo(n)
    BY <1>1, <1>2
  <2>2. ~lost
    BY DEF Inv
  <2>3. QED
    BY <2>1, <2>2 DEF Claim, IndexedTo
<1>4. InFrame(file, ix, filePosition, cpCount)
  BY <1>3 DEF Inv
<1>5. position < Before(file, k) + NumOf(file, k)
  BY <1>4 DEF InFrame, EndsAt
<1>6. FrameStart(position) = P /\ position < AllFrames
  <2> HIDE DEF n, k, position, P
  <2>1. QED
    BY <1>1, <1>3, <1>5, SoughtPlace
<1>7. PICK e \in 1 .. ElementCount :
         /\ cpCount = ElementStart[e] + 1 /\ filePosition = P + ElementStart[e] + 1
         /\ ix.next = file.cells[P + ElementStart[e] + 1]
  BY <1>4 DEF InFrame
<1>8. /\ ElementStart[e] \in Nat /\ Elements[e].len \in Nat
      /\ ElementStart[e + 1] = ElementStart[e] + 1 + Elements[e].len
  BY ElementPlaces
<1> DEFINE j == position - Before(file, k)
           p == P + ElementStart[e]
<1>9. FilesProper /\ j \in Nat /\ j < NumOf(file, k) /\ p = StartOf(file, k) + j * FrameLen + ElementStart[e]
  <2>1. Before(file, k) \in Nat /\ NumOf(file, k) \in Nat
    BY <1>1, UntilStart, EssencePlaces
  <2>2. j \in Nat /\ j < NumOf(file, k)
    BY <1>1, <1>5, <2>1
  <2>3. P = StartOf(file, k) + j * FrameLen
    BY DEF PlaceOf, Place
  <2>4. QED
    BY <2>2, <2>3
<1>10. ix.next.len = Elements[e].len
  <2> HIDE DEF j, p, k
  <2>1. file.cells[p + 1].len = Elements[e].len
    BY <1>1, <1>9, ElementCell
  <2>2. QED
    BY <1>7, <2>1 DEF p
<1>11. /\ filePosition + ix.next.len = P + ElementStart[e + 1]
       /\ cpCount + ix.next.len = ElementStart[e + 1]
  <2> HIDE DEF P
  <2>1. P \in Nat
    BY <1>1
  <2>2. QED
    BY <1>7, <1>8, <1>10, <2>1
<1>12. position \in 0 .. AllFrames - 1
  BY <1>1, <1>2, <1>6
<1>13. ix.contentPackageLen = FrameLen
  BY <1>1 DEF RightIndex
<1>14. QED
  BY <1>1, <1>3, <1>6, <1>11, <1>12, <1>13

(* A read ends with the last element of the frame, or where the file does. *)
LEMMA ReadEnds ==
    ASSUME FilesProper, Inv, [Next]_vars, ReadOfFrame, ix.currentPosition < IndexedFrames
    PROVE  ~lost' <=> Followed(ix.currentPosition)
<1> DEFINE F == FrameStart(ix.currentPosition)
<1>1. pc = "package" /\ pc' = "idle"
  BY DEF ReadOfFrame
<1>2. ReadElement \/ ReadElementFails \/ LastElement
  BY <1>1 DEF Next, vars, Grow, Open, PositionAtFrame, SkipNextFrame, ReadNextFrame
<1>3. /\ ~lost /\ ix.currentPosition \in 0 .. AllFrames - 1 /\ F \in Nat /\ written \in Nat
      /\ ix.contentPackageLen = FrameLen
  BY <1>1, ElementEnds
<1>4. PICK e \in 1 .. ElementCount : /\ filePosition + ix.next.len = F + ElementStart[e + 1]
                                    /\ cpCount + ix.next.len = ElementStart[e + 1]
  BY <1>1, ElementEnds
<1> DEFINE end == ElementStart[e + 1]
<1>5. end \in Nat /\ end <= FrameLen /\ FrameLen \in Nat /\ (end = FrameLen \/ end < FrameLen)
  <2>1. ElementStart[e] \in Nat /\ Elements[e].len \in Nat /\ end = ElementStart[e] + 1 + Elements[e].len
        /\ end <= FrameLen /\ FrameLen \in Nat
    BY ElementPlaces
  <2> HIDE DEF end
  <2>2. QED
    BY <2>1
<1>6. Followed(ix.currentPosition) <=> F + FrameLen < written
  <2>1. F + FrameLen < written => F + FrameLen <= written
    BY <1>3, <1>5
  <2>2. QED
    BY <1>3, <2>1 DEF Followed, FrameThere
<1> HIDE DEF F, end
<1>7. CASE ReadElementFails \/ LastElement
  <2>1. lost' = TRUE /\ filePosition + ix.next.len >= written
    <3>1. CASE ReadElementFails
      BY <1>3, <1>4, <1>5, <3>1 DEF ReadElementFails, ReadFails, end
    <3>2. CASE LastElement
      BY <3>2 DEF LastElement, ReadFails, AtEOF
    <3>3. QED
      BY <1>7, <3>1, <3>2
  <2>2. F + end >= written
    BY <1>4, <2>1 DEF end
  <2>3. ~(F + FrameLen < written)
    BY <1>3, <1>5, <2>2
  <2>4. QED
    BY <1>6, <2>1, <2>3
<1>8. CASE ReadElement
  <2> DEFINE count == cpCount + ix.next.len + 1
  <2>1. count = end + 1
    BY <1>4 DEF end
  <2>2. ~AtEOF(F + end)
    BY <1>4, <1>8 DEF ReadElement, end
  <2>3. count > ix.contentPackageLen /\ lost' = (lost \/ ~(count = ix.contentPackageLen + 1))
    BY <1>1, <1>8 DEF ReadElement
  <2> HIDE DEF count
  <2>4. end = FrameLen
    BY <1>3, <1>5, <2>1, <2>3
  <2>5. F + FrameLen < written
    BY <1>3, <1>5, <2>2, <2>4 DEF AtEOF
  <2>6. count = ix.contentPackageLen + 1
    BY <1>3, <2>1, <2>4
  <2>7. ~lost'
    BY <1>3, <2>3, <2>6, Zenon
  <2>8. QED
    BY <1>6, <2>5, <2>7
<1>9. QED
  BY <1>2, <1>7, <1>8

(* From the invariant, every frame is found.                               *)
LEMMA FoundIs ==
    ASSUME FilesProper, Inv
    PROVE  FramesAreFound
<1> SUFFICES ASSUME pc = "idle", NEW position \in 0 .. IndexedFrames - 1, position # ix.currentPosition,
                    NEW found, found = SetPosition(ix, filePosition, position),
                    NEW read, read = SetPosition(found.ix, found.at, position)
             PROVE  IF FrameStart(position) >= written THEN found.result = "failed"
                    ELSE found.result = "done" /\ read.result = "done" /\ AtFrame(read.ix, read.at, position)
  BY DEF FramesAreFound
<1> DEFINE n == Len(ix.partitions)
<1>1. /\ file \in Files /\ Known(file, n, written) /\ InIndex(ix, file, n) /\ RightIndex(ix, file, n)
      /\ written \in Nat /\ written <= Len(file.cells) /\ Len(file.cells) \in Nat /\ Count(file) \in Nat
      /\ n \in 1 .. Count(file)
  BY InvFacts
<1>2. position \in Nat /\ position < IndexedTo(n) /\ position <= IndexedTo(n) /\ IndexedTo(n) \in Nat
  <2>1. IndexedFrames = IndexedTo(n) /\ IndexedTo(n) \in Nat
    BY IndexedIs
  <2> HIDE DEF n
  <2>2. QED
    BY <2>1
<1> HIDE DEF n
<1>3. ASSUME NEW k, SoughtIn(n, k, position)
      PROVE  /\ k \in 1 .. n /\ k \in 1 .. Count(file) /\ file.parts[k].hasEssence
             /\ Before(file, k) \in Nat /\ NumOf(file, k) \in Nat
             /\ Place(file, k, position) \in Nat /\ position <= Before(file, k) + NumOf(file, k)
             /\ position < Before(file, k) + NumOf(file, k) =>
                   /\ FrameStart(position) = Place(file, k, position) /\ position < AllFrames
                   /\ KLAt(Place(file, k, position)).key = StartKey
             /\ position = Before(file, k) + NumOf(file, k) =>
                   /\ Place(file, k, position) = EndOf(file, k)
                   /\ EssenceIn(file, k + 1, n) # {}
                   /\ KLAt(Place(file, k, position)).key = "pack"
                   /\ FrameStart(position) < written /\ EndOf(file, k) < FrameStart(position)
                   /\ FrameStart(position) \in Nat
  <2>1. k \in 1 .. n /\ k \in 1 .. Count(file) /\ file.parts[k].hasEssence
    BY <1>1, <1>3, KnownFacts DEF SoughtIn
  <2>2. Before(file, k) \in Nat /\ NumOf(file, k) \in Nat
    BY <1>1, <2>1, UntilStart, EssencePlaces
  <2>3. /\ Place(file, k, position) \in Nat /\ position <= Before(file, k) + NumOf(file, k)
        /\ position < Before(file, k) + NumOf(file, k) =>
              /\ FrameStart(position) = Place(file, k, position) /\ position < AllFrames
              /\ KLAt(Place(file, k, position)).key = StartKey
        /\ position = Before(file, k) + NumOf(file, k) => Place(file, k, position) = EndOf(file, k)
        /\ position = Before(file, k) + NumOf(file, k) /\ k < Count(file) =>
              KLAt(Place(file, k, position)).key = "pack"
        /\ position = Before(file, k) + NumOf(file, k) => EssenceIn(file, k + 1, n) # {}
    BY <1>1, <1>2, <1>3, SoughtPlace
  <2>4. ASSUME position = Before(file, k) + NumOf(file, k)
        PROVE  /\ k < Count(file) /\ FrameStart(position) < written /\ EndOf(file, k) < FrameStart(position)
               /\ FrameStart(position) \in Nat
    <3> DEFINE C == EssenceIn(file, k + 1, n)
               j == First(C)
    <3>1. C # {}
      BY <2>3, <2>4
    <3> HIDE DEF C
    <3>2. /\ StartOf(file, j) \in Nat /\ StartOf(file, j) < written /\ FrameStart(position) = StartOf(file, j)
          /\ EndOf(file, k) < StartOf(file, j)
      BY <1>1, <2>1, <2>4, <3>1, NextPartition DEF C
    <3>3. PICK c \in C : TRUE
      BY <3>1
    <3>4. k < Count(file)
      BY <1>1, <2>1, <3>3 DEF C, EssenceIn
    <3>5. QED
      BY <3>2, <3>4
  <2>5. QED
    BY <2>1, <2>2, <2>3, <2>4
<1>4. CASE \E k : SoughtIn(n, k, position) /\ Place(file, k, position) < written /\ found = FoundAt(ix, k, position)
  <2>1. PICK k : SoughtIn(n, k, position) /\ Place(file, k, position) < written /\ found = FoundAt(ix, k, position)
    BY <1>4
  <2> DEFINE P == Place(file, k, position)
             i == Moved(ix, k, position, KLAt(P))
             C == EssenceIn(file, k + 1, n)
  <2>2. found.result = "done" /\ found.ix = i /\ found.at = P + 1
    BY <2>1 DEF FoundAt, Done
  <2>3. /\ k \in 1 .. n /\ file.parts[k].hasEssence
        /\ Before(file, k) \in Nat /\ NumOf(file, k) \in Nat
        /\ P \in Nat /\ position <= Before(file, k) + NumOf(file, k)
    BY <1>3, <2>1
  <2>4. KLAt(P) \in KLs
    <3>1. P + 1 \in 1 .. Len(file.cells)
      BY <1>1, <2>1, <2>3
    <3>2. QED
      BY <1>1, <3>1, FileIs DEF KLAt, File, KLs
  <2> HIDE DEF P, i
  <2>5. InIndex(i, file, n) /\ i.currentPartition = k /\ i.currentPosition = position /\ i.next = KLAt(P)
    <3>1. i = Moved(ix, k, position, KLAt(P))
      BY DEF i
    <3>2. Known(file, n, written) /\ RightIndex(ix, file, n) /\ position \in Nat /\ SoughtIn(n, k, position)
      BY <1>1, <1>2, <2>1
    <3>3. QED
      BY <2>4, <3>1, <3>2, InIndexMoved
  <2>6. /\ i.next.key = StartKey => read = Done(i, P + 1)
        /\ i.next.key = "pack" /\ C # {} => read = Arrived(i, First(C))
    <3>1. read = SetPosition(i, P + 1, i.currentPosition) /\ C = EssenceIn(file, i.currentPartition + 1, n)
      BY <2>2, <2>5
    <3>2. Known(file, n, written) /\ InIndex(i, file, n)
      BY <1>1, <2>5
    <3> HIDE DEF C
    <3>3. QED
      BY <3>1, <3>2, HereIs
  <2>7. CASE position < Before(file, k) + NumOf(file, k)
    <3>1. FrameStart(position) = P /\ position < AllFrames /\ KLAt(P).key = StartKey
      BY <1>3, <2>1, <2>7 DEF P
    <3>2. read = Done(i, P + 1)
      BY <2>5, <2>6, <3>1
    <3>3. read.result = "done" /\ read.ix = i /\ read.at = P + 1
      BY <3>2 DEF Done
    <3>4. AtFrame(read.ix, read.at, position)
      BY <2>5, <3>1, <3>3 DEF AtFrame
    <3>5. ~(FrameStart(position) >= written)
      <4>1. P < written
        BY <2>1 DEF P
      <4>2. QED
        BY <1>1, <2>3, <3>1, <4>1
    <3>6. QED
      BY <2>2, <3>3, <3>4, <3>5
  <2>8. CASE position = Before(file, k) + NumOf(file, k)
    <3> DEFINE j == First(C)
               S == StartOf(file, j)
               m == [i EXCEPT !.currentPartition = j, !.next = KLAt(S)]
    <3>1. C # {} /\ KLAt(P).key = "pack" /\ FrameStart(position) < written /\ FrameStart(position) \in Nat
      BY <1>3, <2>1, <2>8 DEF P
    <3>2. FrameStart(position) = S /\ position < AllFrames
      <4> HIDE DEF C
      <4>1. QED
        BY <1>1, <2>3, <2>8, <3>1, NextPartition DEF C
    <3>3. read = Arrived(i, j)
      BY <2>5, <2>6, <3>1
    <3> HIDE DEF j, S, C
    <3>4. read.result = "done" /\ read.ix = m /\ read.at = S + 1
      BY <3>3 DEF Arrived, Done, S
    <3>5. m.next = KLAt(S)
      <4>1. i \in Indexes
        BY <2>5 DEF InIndex, RightIndex
      <4>2. QED
        BY <4>1 DEF Indexes
    <3> HIDE DEF m
    <3>6. AtFrame(read.ix, read.at, position)
      BY <3>2, <3>4, <3>5 DEF AtFrame
    <3>7. ~(FrameStart(position) >= written)
      BY <1>1, <3>1
    <3>8. QED
      BY <2>2, <3>4, <3>6, <3>7
  <2>9. QED
    BY <1>2, <2>3, <2>7, <2>8
<1>5. CASE \E k : SoughtIn(n, k, position) /\ ~(Place(file, k, position) < written) /\ found = NotThere(ix, filePosition)
  <2>1. PICK k : SoughtIn(n, k, position) /\ ~(Place(file, k, position) < written) /\ found = NotThere(ix, filePosition)
    BY <1>5
  <2>2. found.result = "failed"
    BY <2>1 DEF NotThere
  <2>3. FrameStart(position) >= written
    <3> DEFINE P == Place(file, k, position)
    <3>1. P \in Nat /\ ~(P < written) /\ position <= Before(file, k) + NumOf(file, k)
          /\ Before(file, k) \in Nat /\ NumOf(file, k) \in Nat
      BY <1>3, <2>1
    <3>2. CASE position < Before(file, k) + NumOf(file, k)
      <4>1. FrameStart(position) = P
        BY <1>3, <2>1, <3>2
      <4> HIDE DEF P
      <4>2. QED
        BY <1>1, <3>1, <4>1
    <3>3. CASE position = Before(file, k) + NumOf(file, k)
      <4>1. P = EndOf(file, k) /\ FrameStart(position) < written /\ EndOf(file, k) < FrameStart(position)
            /\ FrameStart(position) \in Nat
        BY <1>3, <2>1, <3>3
      <4> HIDE DEF P
      <4>2. QED
        BY <1>1, <3>1, <4>1
    <3>4. QED
      BY <1>2, <3>1, <3>2, <3>3
  <2>4. QED
    BY <2>2, <2>3
<1>6. QED
  <2>1. \/ \E k : SoughtIn(n, k, position) /\ Place(file, k, position) < written /\ found = FoundAt(ix, k, position)
        \/ /\ found = NotThere(ix, filePosition)
           /\ position < IndexedTo(n) => \E k : SoughtIn(n, k, position) /\ ~(Place(file, k, position) < written)
        \/ found = Crashed /\ ~(position < IndexedTo(n))
    BY <1>1, <1>2, ElsewhereIs
  <2>2. QED
    BY <1>2, <1>4, <1>5, <2>1

(* Every frame is in some partition.                                       *)
LEMMA InSome ==
    ASSUME FilesProper, NEW f \in Files, NEW n \in Nat, n < Cardinality(Frames(f.cells))
    PROVE  \E k \in 1 .. Count(f) : f.parts[k].hasEssence /\ Before(f, k) <= n /\ n < Before(f, k) + NumOf(f, k)
<1> DEFINE E == EssenceIn(f, 1, Count(f))
           T == {k \in E : Before(f, k) <= n}
<1>1. Count(f) \in Nat /\ Count(f) \in 1 .. Count(f) /\ E \in SUBSET (1 .. Count(f)) /\ E \in SUBSET Nat
  BY FileIs DEF EssenceIn
<1>2. E # {}
  <2>1. Frames(f.cells) # {}
    BY FS_EmptySet
  <2>2. PICK q \in Frames(f.cells) : TRUE
    BY <2>1
  <2>3. PICK k \in 1 .. Count(f) : f.parts[k].hasEssence
    BY <2>2, FrameSomewhere
  <2>4. k \in E
    BY <2>3 DEF EssenceIn
  <2>5. QED
    BY <2>4
<1>3. T # {}
  <2> DEFINE x == First(E)
  <2>1. x \in E /\ \A c \in E : x <= c
    <3> HIDE DEF E
    <3>1. QED
      BY <1>1, <1>2, FirstIs
  <2>2. x \in 1 .. Count(f)
    BY <1>1, <2>1
  <2>3. ASSUME NEW c \in 1 .. x - 1, f.parts[c].hasEssence PROVE FALSE
    <3>1. c \in E /\ c < x
      BY <1>1, <2>2, <2>3 DEF EssenceIn
    <3> HIDE DEF E
    <3>2. x <= c
      BY <2>1, <3>1
    <3> HIDE DEF x
    <3>3. x \in Nat /\ c \in Nat
      BY <1>1, <2>2
    <3>4. QED
      BY <3>1, <3>2, <3>3
  <2>4. Before(f, x) = 0
    BY <2>2, <2>3, BeforeFirst
  <2>5. x \in T
    BY <2>1, <2>4
  <2>6. QED
    BY <2>5
<1>4. PICK k \in T : \A c \in T : c <= k
  <2>1. T \in SUBSET Nat /\ \A c \in T : c <= Count(f)
    BY <1>1
  <2> HIDE DEF T
  <2>2. QED
    BY <1>1, <1>3, <2>1, LastIs
<1>5. k \in 1 .. Count(f) /\ f.parts[k].hasEssence /\ Before(f, k) <= n /\ k \in Nat
  BY <1>1 DEF EssenceIn
<1>6. Before(f, k) \in Nat /\ NumOf(f, k) \in Nat
  BY <1>5, UntilStart, EssencePlaces
<1>7. ASSUME ~(n < Before(f, k) + NumOf(f, k)) PROVE FALSE
  <2> DEFINE C == EssenceIn(f, k + 1, Count(f))
  <2>1. CASE C = {}
    <3>1. Count(f) \in k .. Count(f)
      BY <1>1, <1>5
    <3>2. Until(f, EndOf(f, Count(f))) = Before(f, k) + NumOf(f, k)
      BY <1>5, <2>1, <3>1, NoneBehind
    <3>3. Until(f, EndOf(f, Count(f))) = Cardinality(Frames(f.cells))
      BY <1>1, AllAre
    <3>4. QED
      BY <1>6, <1>7, <3>2, <3>3
  <2>2. CASE C # {}
    <3>1. /\ First(C) \in k + 1 .. Count(f) /\ f.parts[First(C)].hasEssence
          /\ Before(f, First(C)) = Before(f, k) + NumOf(f, k)
      BY <1>1, <1>5, <2>2, NextBefore
    <3> HIDE DEF C
    <3>2. First(C) \in 1 .. Count(f) /\ First(C) > k
      BY <1>1, <1>5, <3>1
    <3>3. Before(f, First(C)) <= n
      BY <1>6, <1>7, <3>1
    <3>4. First(C) \in T
      BY <3>1, <3>2, <3>3 DEF EssenceIn
    <3>5. First(C) <= k
      BY <1>4, <3>4
    <3>6. QED
      BY <1>1, <1>5, <3>2, <3>5
  <2>3. QED
    BY <2>1, <2>2
<1>8. QED
  BY <1>5, <1>7

(* How many frames of the first partition are there.                       *)
LEMMA FramesThere ==
    ASSUME NEW S \in Nat, NEW w \in Nat, S <= w, NEW d \in Nat \ {0}, NEW m \in Nat, w <= S + m * d,
           NEW n \in Nat
    PROVE  /\ (w - S) \div d \in Nat /\ (w - S) \div d <= m
           /\ S + n * d + d <= w <=> n <= (w - S) \div d - 1
<1> DEFINE x == w - S
           q == x \div d
           r == x % d
<1>1. x \in Nat /\ w = S + x
  OBVIOUS
<1>2. q \in Nat /\ r \in 0 .. d - 1 /\ x = d * q + r
  <2> HIDE DEF x
  <2>1. QED
    BY <1>1, Quotient
<1> HIDE DEF x, q, r
<1>3. q <= m
  <2>1. CASE q > m
    <3>1. PICK y \in Nat : q = m + 1 + y
      <4>1. q - m - 1 \in Nat /\ q = m + 1 + (q - m - 1)
        BY <1>2, <2>1
      <4>2. QED
        BY <4>1
    <3>2. d * q = m * d + d + d * y /\ d * y \in Nat /\ m * d \in Nat
      BY <3>1
    <3>3. PICK a \in Nat, b \in Nat : a = m * d /\ b = d * y
      BY <3>2
    <3>4. x = a + d + b + r /\ w <= S + a
      BY <1>2, <3>2, <3>3
    <3>5. QED
      BY <1>1, <1>2, <3>4
  <2>2. QED
    BY <1>2, <2>1
<1>4. ASSUME n <= q - 1 PROVE S + n * d + d <= w
  <2>1. PICK y \in Nat : q = n + 1 + y
    <3>1. q - n - 1 \in Nat /\ q = n + 1 + (q - n - 1)
      BY <1>2, <1>4
    <3>2. QED
      BY <3>1
  <2>2. d * q = n * d + d + d * y /\ d * y \in Nat /\ n * d \in Nat
    BY <2>1
  <2>3. PICK a \in Nat, b \in Nat : a = n * d /\ b = d * y
    BY <2>2
  <2>4. x = a + d + b + r
    BY <1>2, <2>2, <2>3
  <2>5. S + a + d <= w
    BY <1>1, <1>2, <2>4
  <2>6. QED
    BY <2>3, <2>5
<1>5. ASSUME ~(n <= q - 1) PROVE ~(S + n * d + d <= w)
  <2>1. PICK y \in Nat : n = q + y
    <3>1. n - q \in Nat /\ n = q + (n - q)
      BY <1>2, <1>5
    <3>2. QED
      BY <3>1
  <2>2. n * d = d * q + d * y /\ d * y \in Nat /\ d * q \in Nat
    BY <1>2, <2>1
  <2>3. PICK a \in Nat, b \in Nat : a = d * q /\ b = d * y
    BY <2>2
  <2>4. x = a + r /\ n * d = a + b
    BY <1>2, <2>2, <2>3
  <2>5. ~(S + (a + b) + d <= w)
    BY <1>1, <1>2, <2>4
  <2>6. QED
    BY <2>4, <2>5
<1>6. QED
  BY <1>2, <1>3, <1>4, <1>5 DEF q, x

(* From the invariant, the last frame is the last.                         *)
LEMMA LastIsLast ==
    ASSUME FilesProper, FootersWritten, Inv
    PROVE  LastWrittenIsLast
<1> SUFFICES ASSUME pc = "idle", ix.isComplete \/ written <= FrameStart(0) + IndexedFrames * FrameLen,
                    NEW m \in 0 .. AllFrames - 1
             PROVE  FrameThere(m) <=> m <= LastWrittenFrame
  BY DEF LastWrittenIsLast, LastWrittenTold
<1> DEFINE n == Len(ix.partitions)
           k == ix.currentPartition
           position == ix.currentPosition
<1>1. /\ file \in Files /\ Known(file, n, written) /\ RightIndex(ix, file, n) /\ position \in Nat
      /\ k \in 1 .. n /\ k \in 1 .. Count(file) /\ file.parts[k].hasEssence
      /\ written \in Nat /\ written <= Len(file.cells) /\ Len(file.cells) \in Nat /\ Count(file) \in Nat
      /\ n \in 1 .. Count(file) /\ duration \in {-1, Cardinality(Frames(file.cells))}
      /\ duration >= 0 => position <= duration
  BY InvFacts
<1>2. /\ IndexedFrames = IndexedTo(n) /\ IndexedTo(n) \in Nat /\ IndexedTo(n) <= AllFrames /\ AllFrames \in Nat
      /\ AllFrames = Cardinality(Frames(file.cells))
  BY IndexedIs DEF AllFrames, File
<1>3. m \in Nat /\ m < AllFrames /\ AllFrames > 0
  BY <1>2
<1>4. LastWrittenFrame = LastInIndex /\ duration # 0
  <2>1. ~(duration >= 0 /\ ix.currentPosition > duration)
    BY <1>1, <1>2
  <2>2. duration # 0
    BY <1>1, <1>2, <1>3
  <2>3. QED
    BY <2>1, <2>2 DEF LastWrittenFrame
<1>5. PICK c \in 1 .. Count(file) :
         file.parts[c].hasEssence /\ Before(file, c) <= m /\ m < Before(file, c) + NumOf(file, c)
  BY <1>1, <1>2, <1>3, InSome
<1>6. /\ FrameStart(m) = Place(file, c, m) /\ FrameStart(m) \in Nat
      /\ FrameStart(m) + FrameLen <= EndOf(file, c) /\ StartOf(file, c) <= FrameStart(m)
      /\ FrameLen \in Nat /\ FrameLen >= 1
  BY <1>1, <1>3, <1>5, FrameStartIs, ElementPlaces
<1>7. FrameThere(m) <=> FrameStart(m) + FrameLen <= written
  BY DEF FrameThere
<1> HIDE DEF n, k, position
<1>8. CASE ix.isComplete
  <2>1. file.parts[n].kind = "footer"
    BY <1>1, <1>8 DEF RightIndex
  <2>2. n = Count(file) /\ ~file.parts[n].hasEssence
    BY <1>1, <2>1, PartIs
  <2>3. written = Len(file.cells)
    BY <1>1, <2>2 DEF Known
  <2>4. ix.indexedDuration = AllFrames
    <3>1. ix.indexedDuration = Before(file, n)
      BY <1>1 DEF RightIndex
    <3>2. Until(file, EndOf(file, n)) = Before(file, n) /\ Until(file, EndOf(file, n)) = AllFrames
      BY <1>1, <1>2, <2>2, UntilStart, AllAre
    <3>3. QED
      BY <3>1, <3>2
  <2>5. LastInIndex = AllFrames - 1
    BY <1>4, <1>8, <2>4 DEF LastInIndex
  <2>6. FrameStart(m) + FrameLen <= written
    <3>1. EndOf(file, c) <= Len(file.cells) /\ EndOf(file, c) \in Nat
      BY <1>1, <1>5, EssencePlaces
    <3>2. QED
      BY <1>1, <1>6, <2>3, <3>1
  <2>7. m <= AllFrames - 1
    BY <1>2, <1>3
  <2>8. QED
    BY <1>4, <1>7, <2>5, <2>6, <2>7
<1>9. CASE ~ix.isComplete
  <2>1. n = 1
    <3>1. CASE Count(file) > 1
      <4>1. file.parts[Count(file)].kind = "footer"
        BY <1>1, <3>1 DEF FootersWritten, Count
      <4>2. n # Count(file)
        BY <1>1, <1>9, <4>1 DEF RightIndex
      <4>3. QED
        BY <1>1, <4>2, KnownFacts
    <3>2. QED
      BY <1>1, <3>1
  <2>2. k = 1 /\ file.parts[1].hasEssence
    BY <1>1, <2>1
  <2> DEFINE S == StartOf(file, 1)
             num == NumOf(file, 1)
             q == (written - S) \div FrameLen
  <2>3. 1 \in 1 .. Count(file) /\ FilesProper
    BY <1>1, <2>1
  <2>4. Before(file, 1) = 0
    <3>1. \A x \in 1 .. 1 - 1 : ~file.parts[x].hasEssence
      OBVIOUS
    <3>2. QED
      BY <1>1, <2>3, <3>1, BeforeFirst
  <2>5. num \in Nat /\ num >= 1 /\ S \in Nat /\ EndOf(file, 1) = S + num * FrameLen /\ EndOf(file, 1) \in Nat
    BY <1>1, <2>2, <2>3, EssencePlaces
  <2>6. FrameStart(0) = S
    <3>1. 0 \in Nat /\ Before(file, 1) <= 0 /\ 0 < Before(file, 1) + NumOf(file, 1) /\ 0 = Before(file, 1)
      BY <2>4, <2>5
    <3>2. FrameStart(0) = Place(file, 1, 0)
      BY <1>1, <2>2, <2>3, <3>1, FrameStartIs
    <3>3. Place(file, 1, 0) = S
      BY <1>1, <2>2, <2>3, <3>1, PlaceIs
    <3>4. QED
      BY <3>2, <3>3
  <2>7. IndexedFrames = num
    <3>1. Until(file, EndOf(file, 1)) = Before(file, 1) + num
      BY <1>1, <2>2, <2>3, UntilEnd
    <3>2. QED
      BY <1>2, <2>1, <2>4, <2>5, <3>1 DEF IndexedTo
  <2>8. S <= written /\ written <= S + num * FrameLen
    <3>1. S + FrameLen <= written
      BY <1>1, <2>2 DEF Known, There
    <3>2. S <= written
      BY <1>1, <1>6, <2>5, <3>1
    <3>3. QED
      BY <1>9, <2>6, <2>7, <3>2
  <2>9. ix.partitions[1].startPosition = 0 /\ ix.partitions[1].essenceStartPos = S /\ ix.contentPackageLen = FrameLen
    <3>1. 1 \in 1 .. n
      BY <2>1
    <3>2. ix.partitions[1] = Entry(file, 1)
      BY <1>1, <3>1, IndexFacts
    <3>3. QED
      BY <1>1, <2>2, <2>4, <3>2 DEF Entry, RightIndex
  <2>10. TargetPosition(ix.partitions[k]) = 0 + q - 1
    BY <2>2, <2>9 DEF TargetPosition
  <2> HIDE DEF S, num
  <2>11. /\ q \in Nat /\ q <= num
         /\ S + m * FrameLen + FrameLen <= written <=> m <= q - 1
    <3>1. FrameLen \in Nat \ {0}
      BY <1>6
    <3>2. QED
      BY <1>1, <1>3, <2>5, <2>8, <3>1, FramesThere
  <2> HIDE DEF q
  <2>12. LastInIndex = q - 1
    <3>1. TargetPosition(ix.partitions[k]) = q - 1
      BY <2>10, <2>11
    <3>2. ~(duration >= 0 /\ q - 1 >= duration)
      BY <1>1, <1>2, <2>5, <2>7, <2>11
    <3>3. QED
      BY <1>4, <1>9, <2>1, <3>1, <3>2 DEF LastInIndex, n, k
  <2>13. CASE c = 1
    <3>1. m - Before(file, 1) = m
      BY <1>3, <2>4
    <3>2. FrameStart(m) = S + m * FrameLen
      BY <1>6, <2>13, <3>1 DEF Place, S
    <3>3. QED
      BY <1>4, <1>7, <2>11, <2>12, <3>2
  <2>14. CASE c # 1
    <3>1. 1 \in 1 .. c - 1
      BY <1>1, <2>14
    <3>2. EndOf(file, 1) <= file.parts[c].at
      BY <1>1, <2>3, <3>1, PartsFollow
    <3>3. file.parts[c].at \in Nat /\ StartOf(file, c) \in Nat /\ file.parts[c].at + 2 <= StartOf(file, c)
      BY <1>1, FileIs
    <3>4. ~(FrameStart(m) + FrameLen <= written)
      <4>1. written <= EndOf(file, 1)
        BY <2>5, <2>8
      <4>2. /\ EndOf(file, 1) \in Nat /\ written \in Nat
            /\ StartOf(file, c) <= FrameStart(m) /\ FrameStart(m) \in Nat /\ FrameLen \in Nat /\ FrameLen >= 1
        BY <1>1, <1>6, <2>5
      <4>3. QED
        BY <3>2, <3>3, <4>1, <4>2
    <3>5. ~(m <= q - 1)
      <4>1. num <= m
        <5>1. /\ EndOf(file, 1) \in Nat /\ FrameStart(m) \in Nat /\ EndOf(file, 1) <= FrameStart(m)
          BY <1>6, <2>5, <3>2, <3>3
        <5>2. Until(file, EndOf(file, 1)) <= Until(file, FrameStart(m))
          BY <1>1, <5>1, UntilGrows
        <5>3. Until(file, FrameStart(m)) = m
          BY <1>1, <1>3, <1>5, <1>6, <2>3, FramePlaced
        <5>4. Until(file, EndOf(file, 1)) = Before(file, 1) + num
          BY <1>1, <2>2, <2>3, UntilEnd DEF num
        <5>5. QED
          BY <1>3, <2>4, <2>5, <5>2, <5>3, <5>4
      <4>2. QED
        BY <1>3, <2>5, <2>11, <4>1
    <3>6. QED
      BY <1>4, <1>7, <2>12, <3>4, <3>5
  <2>15. QED
    BY <2>13, <2>14
<1>10. QED
  BY <1>8, <1>9

-----------------------------------------------------------------------------
(* The reader knows where it is, whatever was read and looked for: the     *)
(* invariant that the theorems below follow from.                          *)
THEOREM ReaderKnowsPlace ==
    ASSUME FilesProper, Opened = "frame", "retry" \notin Clients
    PROVE  Spec => []Inv
<1>1. Init => Inv
  BY Starts
<1>2. Inv /\ [Next]_vars => Inv'
  BY StepKeeps
<1>3. QED
  BY <1>1, <1>2, PTL DEF Spec

(* What is delivered as frame n is frame n: the file position and the KL   *)
(* read last are always those of the frame that the reader says it is at,  *)
(* of any file whose first frame is there when it is opened, while the     *)
(* file grows; as long as clients do not read on after a read that failed. *)
THEOREM ReaderIsInStep ==
    ASSUME FilesProper, Opened = "frame", "retry" \notin Clients
    PROVE  Spec => []InStep
<1>1. Inv => InStep
  BY InStepIs
<1>2. QED
  BY <1>1, ReaderKnowsPlace, PTL

(* From wherever the reader is, every frame that has begun in a partition  *)
(* that the index knows is found by set_position, and no other.            *)
THEOREM EveryFrameIsFound ==
    ASSUME FilesProper, Opened = "frame", "retry" \notin Clients
    PROVE  Spec => []FramesAreFound
<1>1. Inv => FramesAreFound
  BY FoundIs
<1>2. QED
  BY <1>1, ReaderKnowsPlace, PTL

(* A read that has begun succeeds if the frame is there and something is   *)
(* written behind it, and fails otherwise, whatever came before it and     *)
(* however the file grows meanwhile.                                       *)
THEOREM ReadsAreAsFollowed ==
    ASSUME FilesProper, Opened = "frame", "retry" \notin Clients
    PROVE  Spec => ReadsWhatIsFollowed
<1>1. Inv /\ [Next]_vars =>
        [ReadOfFrame /\ ix.currentPosition < IndexedFrames => (~lost' <=> Followed(ix.currentPosition))]_vars
  BY ReadEnds
<1>2. QED
  BY <1>1, ReaderKnowsPlace, PTL DEF Spec, ReadsWhatIsFollowed

(* The frame that get_last_written_frame_number gives is the last of those *)
(* that are there, of files that end with a footer partition.              *)
THEOREM LastWrittenIsRight ==
    ASSUME FilesProper, FootersWritten, Opened = "frame", "retry" \notin Clients
    PROVE  Spec => []LastWrittenIsLast
<1>1. Inv => LastWrittenIsLast
  BY LastIsLast
<1>2. QED
  BY <1>1, ReaderKnowsPlace, PTL

-----------------------------------------------------------------------------
(* Index table segments.                                                   *)

(* What has been read after each of the first n items.                     *)
ReadTo(w, reader, n, f) ==
    f = [k \in 0 .. n |-> IF k = 0 THEN Unread ELSE ReadItem(f[k - 1], w.items[k], w.segmentLen, reader)]

(* Every segment can be read: the induction that the recursive function of *)
(* ReadSegment stands for.                                                 *)
LEMMA ReadingGoesOn == ASSUME NEW w, NEW reader, NEW m \in Nat PROVE \E f : ReadTo(w, reader, m, f)
<1> DEFINE Bad == {n \in Nat : ~\E f : ReadTo(w, reader, n, f)}
<1>1. Bad = {}
  <2> SUFFICES ASSUME Bad # {} PROVE FALSE
    OBVIOUS
  <2>1. PICK n \in Bad : \A k \in Bad : n <= k
    BY Least
  <2>2. n # 0
    <3>1. ReadTo(w, reader, 0, [k \in 0 .. 0 |-> Unread])
      BY DEF ReadTo
    <3>2. QED
      BY <3>1, <2>1
  <2>3. n - 1 \in Nat /\ n - 1 \notin Bad /\ n \in Nat
    BY <2>1, <2>2
  <2>4. PICK f : ReadTo(w, reader, n - 1, f)
    BY <2>3
  <2> DEFINE Item(k) == ReadItem(f[k - 1], w.items[k], w.segmentLen, reader)
             g == [k \in 0 .. n |-> IF k = n THEN Item(n) ELSE f[k]]
  <2>5. \A k \in 0 .. n - 1 : f[k] = IF k = 0 THEN Unread ELSE Item(k)
    BY <2>4 DEF ReadTo
  <2>6. \A k \in 0 .. n : k # 0 => k - 1 \in 0 .. n - 1 /\ g[k - 1] = f[k - 1]
    BY <2>3
  <2> HIDE DEF Item
  <2>7. \A k \in 0 .. n : g[k] = IF k = 0 THEN Unread ELSE Item(k)
    BY <2>2, <2>3, <2>5
  <2>8. \A k \in 0 .. n : k # 0 => Item(k) = ReadItem(g[k - 1], w.items[k], w.segmentLen, reader)
    BY <2>6 DEF Item
  <2>9. g = [k \in 0 .. n |-> g[k]]
    OBVIOUS
  <2> HIDE DEF g
  <2>10. ReadTo(w, reader, n, g)
    BY <2>7, <2>8, <2>9, Zenon DEF ReadTo
  <2>11. QED
    BY <2>1, <2>10
<1>2. QED
  BY <1>1

(* What ReadSegment returns.                                               *)
LEMMA ReadSegmentIs ==
    ASSUME NEW w, NEW reader, Len(w.items) \in Nat
    PROVE  \E f : LET r == f[Len(w.items)]
                  IN  /\ ReadTo(w, reader, Len(w.items), f)
                      /\ ReadSegment(w, reader) = IF r.ok /\ r.totalLen # w.segmentLen THEN Refused(r, FALSE) ELSE r
<1> DEFINE Is(f) == ReadTo(w, reader, Len(w.items), f)
           f == CHOOSE g : Is(g)
           r == f[Len(w.items)]
<1>1. \E g : Is(g)
  BY ReadingGoesOn
<1>2. Is(f)
  BY <1>1, Zenon
<1>3. ReadSegment(w, reader) = IF r.ok /\ r.totalLen # w.segmentLen THEN Refused(r, FALSE) ELSE r
  BY Zenon DEF ReadSegment, ReadTo
<1> HIDE DEF Is
<1>4. QED
  BY <1>2, <1>3, Zenon DEF Is

(* The segments that clients make.                                         *)
Segment == [common : Nat, sliceCount : Nat, posTableCount : Nat, forceWriteSliceCount : BOOLEAN,
            options : SUBSET DOMAIN OptionLen, deltas : Seq(Nat), entries : Seq(Nat)]

(* What is read of a piece that may be empty.                              *)
Then(r, Q, x, n, reader) == IF Q = <<>> THEN r ELSE ReadItem(r, x, n, reader)
Piece(Q, x) == Q = <<>> \/ Q = <<x>>
Begins(w, P) == Len(P) <= Len(w.items) /\ \A k \in 1 .. Len(P) : w.items[k] = P[k]

Joined(S, P, Q, PQ, x) == P \in Seq(S) /\ Q \in Seq(S) /\ PQ = P \o Q /\ Piece(Q, x)

Reads(w, reader, f) == Len(w.items) \in Nat /\ ReadTo(w, reader, Len(w.items), f)
After(f, P) == f[Len(P)]

(* The item behind P is read next, if there is one.                        *)
LEMMA NextPiece ==
    ASSUME NEW S, NEW P, NEW Q, NEW PQ, NEW x, Joined(S, P, Q, PQ, x),
           NEW w, NEW reader, NEW f, Reads(w, reader, f), Begins(w, PQ)
    PROVE  Begins(w, P) /\ After(f, PQ) = Then(After(f, P), Q, x, w.segmentLen, reader)
<1>0. P \in Seq(S) /\ Q \in Seq(S) /\ PQ = P \o Q /\ Piece(Q, x)
  BY Zenon DEF Joined
<1> DEFINE items == w.items
<1>1. Len(PQ) = Len(P) + Len(Q) /\ Len(P) \in Nat /\ Len(Q) \in Nat
  BY <1>0
<1>2. \A k \in 1 .. Len(P) : PQ[k] = P[k]
  BY <1>0
<1>3. Begins(w, P)
  BY <1>1, <1>2 DEF Begins
<1>4. CASE Q = <<>>
  <2>1. PQ = P
    BY <1>0, <1>4
  <2>2. QED
    BY <1>3, <1>4, <2>1, Zenon DEF Then, After
<1>5. CASE Q # <<>>
  <2>1. Q = <<x>>
    BY <1>0, <1>5 DEF Piece
  <2>2. Len(Q) = 1 /\ Q[1] = x
    BY <2>1
  <2>3. PQ[Len(P) + 1] = x
    BY <1>0, <1>1, <2>2
  <2> DEFINE n == Len(P) + 1
  <2>4. n \in 0 .. Len(items) /\ n # 0 /\ n - 1 = Len(P) /\ n = Len(PQ) /\ n \in 1 .. Len(PQ)
    BY <1>1, <2>2 DEF Begins, Reads
  <2>5. items[n] = x
    BY <2>3, <2>4 DEF Begins
  <2>6. f[n] = ReadItem(f[n - 1], items[n], w.segmentLen, reader)
    <3> HIDE DEF n
    <3>1. f = [k \in 0 .. Len(items) |-> IF k = 0 THEN Unread
                                         ELSE ReadItem(f[k - 1], items[k], w.segmentLen, reader)]
      BY Zenon DEF ReadTo, Reads
    <3>2. QED
      BY <2>4, <3>1, Zenon
  <2> HIDE DEF n, items
  <2>7. f[Len(PQ)] = ReadItem(f[Len(P)], x, w.segmentLen, reader)
    BY <2>4, <2>5, <2>6
  <2>8. QED
    BY <1>3, <1>5, <2>7, Zenon DEF Then, After
<1>6. QED
  BY <1>4, <1>5

(* A reader that has met nothing wrong, and what it may have of a segment. *)
Fine(t, g) == [ok |-> TRUE, crashed |-> FALSE, totalLen |-> t, segment |-> g]
Part(c, slices, tables, set, ds, es) ==
    [common |-> c, sliceCount |-> slices, posTableCount |-> tables,
     forceWriteSliceCount |-> NewSegment.forceWriteSliceCount, options |-> set, deltas |-> ds, entries |-> es]

Put(g, name, v) == [g EXCEPT ![name] = v]

LEMMA GoingThrough ==
    ASSUME NEW t \in Nat, NEW l \in Nat, NEW g, NEW name, NEW v
    PROVE  Through(Fine(t, g), l, name, v) = Fine(t + TagLen + l, Put(g, name, v))
BY DEF Through, Fine, TagLen, Put

LEMMA PartsAdded ==
    ASSUME NEW c, NEW a, NEW b, NEW set, NEW ds, NEW es, NEW v
    PROVE  /\ Put(Part(c, a, b, set, ds, es), "common", v) = Part(v, a, b, set, ds, es)
           /\ Put(Part(c, a, b, set, ds, es), "sliceCount", v) = Part(c, v, b, set, ds, es)
           /\ Put(Part(c, a, b, set, ds, es), "posTableCount", v) = Part(c, a, v, set, ds, es)
           /\ Put(Part(c, a, b, set, ds, es), "deltas", v) = Part(c, a, b, set, v, es)
           /\ Put(Part(c, a, b, set, ds, es), "entries", v) = Part(c, a, b, set, ds, v)
           /\ Put(Part(c, a, b, set, ds, es), "options", v) = Part(c, a, b, v, ds, es)
<1> DEFINE p == Part(c, a, b, set, ds, es)
<1>1. Put(p, "common", v) = Part(v, a, b, set, ds, es)
  BY DEF Part, Put
<1>2. Put(p, "sliceCount", v) = Part(c, v, b, set, ds, es)
  BY DEF Part, Put
<1>3. Put(p, "posTableCount", v) = Part(c, a, v, set, ds, es)
  BY DEF Part, Put
<1>4. Put(p, "deltas", v) = Part(c, a, b, set, v, es)
  BY DEF Part, Put
<1>5. Put(p, "entries", v) = Part(c, a, b, set, ds, v)
  BY DEF Part, Put
<1>6. Put(p, "options", v) = Part(c, a, b, v, ds, es)
  BY DEF Part, Put
<1>7. QED
  BY <1>1, <1>2, <1>3, <1>4, <1>5, <1>6

(* What each item does to it.                                              *)
LEMMA PlainRead ==
    ASSUME NEW n \in Nat, NEW t \in Nat, t < n, NEW reader, NEW g, NEW l \in Nat, NEW v,
           NEW tag \in {"common", "sliceCount", "posTableCount"}
    PROVE  ReadItem(Fine(t, g), LocalItem(tag, l, l, v), n, reader) = Fine(t + TagLen + l, Put(g, tag, v))
<1> DEFINE x == LocalItem(tag, l, l, v)
           r == Fine(t, g)
<1>1. x.tag = tag /\ x.localLen = l /\ x.value = v /\ r.ok /\ r.totalLen = t /\ r.segment = g
  BY DEF LocalItem, Fine
<1>2. tag # "deltas" /\ tag # "entries" /\ tag \notin DOMAIN OptionLen
  BY DEF OptionLen
<1> HIDE DEF x, r
<1>3. ReadItem(r, x, n, reader) = Through(r, l, tag, v)
  BY <1>1, <1>2 DEF ReadItem
<1>4. QED
  BY <1>3, GoingThrough DEF x, r

LEMMA OptionRead ==
    ASSUME NEW n \in Nat, NEW t \in Nat, t < n, NEW reader, NEW c, NEW a, NEW b, NEW set, NEW ds, NEW es,
           NEW o \in DOMAIN OptionLen, NEW x, x.tag = o, x.localLen = OptionLen[o]
    PROVE  ReadItem(Fine(t, Part(c, a, b, set, ds, es)), x, n, reader)
               = Fine(t + TagLen + OptionLen[o], Part(c, a, b, set \cup {o}, ds, es))
<1> DEFINE l == OptionLen[o]
           g == Part(c, a, b, set, ds, es)
           r == Fine(t, g)
           more == set \cup {o}
<1>1. r.ok /\ r.totalLen = t /\ r.segment = g
  BY DEF Fine
<1>2. o # "deltas" /\ o # "entries" /\ l \in Nat
  BY DEF OptionLen
<1>3. g.options = set
  BY DEF Part
<1> HIDE DEF more
<1>4. Put(g, "options", more) = Part(c, a, b, more, ds, es)
  BY DEF Part, Put
<1> HIDE DEF r, g
<1>5. ReadItem(r, x, n, reader) = Through(r, l, "options", more)
  BY <1>1, <1>2, <1>3 DEF ReadItem, more
<1>6. ReadItem(r, x, n, reader) = Fine(t + TagLen + l, Part(c, a, b, more, ds, es))
  <2> HIDE DEF l
  <2>1. QED
    BY <1>2, <1>4, <1>5, GoingThrough DEF r
<1>7. QED
  BY <1>6, Zenon DEF r, l, g, more

(* Reading goes no further when something was wrong.                       *)
LEMMA RefusedStays ==
    ASSUME NEW r, ~r.ok, NEW x, NEW n, NEW reader PROVE ReadItem(r, x, n, reader) = r
BY DEF ReadItem

LEMMA RefusedIs == ASSUME NEW r PROVE /\ ~Refused(r, FALSE).ok /\ ~Refused(r, FALSE).crashed
                                       /\ ~Refused(r, TRUE).ok /\ Refused(r, TRUE).crashed
BY DEF Refused

LEMMA DeltasRead ==
    ASSUME NEW n \in Nat, NEW t \in Nat, t < n, NEW reader, NEW g, NEW x, x.tag = "deltas", x.len \in Nat
    PROVE  /\ x.localLen # x.len
                  => ~ReadItem(Fine(t, g), x, n, reader).ok /\ ~ReadItem(Fine(t, g), x, n, reader).crashed
           /\ x.localLen = x.len /\ MayAdd(Len(x.value) - 1, DeltaEntryLen)
                  => ReadItem(Fine(t, g), x, n, reader) = Fine(t + TagLen + x.len, Put(g, "deltas", x.value))
<1> DEFINE r == Fine(t, g)
           h == Put(g, "deltas", x.value)
           w == ReadItem(r, x, n, reader)
<1>1. r.ok /\ r.totalLen = t /\ r.segment = g /\ ~(t >= n)
  BY DEF Fine
<1>2. Through(r, x.len, "deltas", x.value) = Fine(t + TagLen + x.len, h)
  BY DEF Through, Fine, TagLen, Put
<1>3. w = ReadItem(r, x, n, reader)
  OBVIOUS
<1> HIDE DEF r, h, w
<1>4. w = WithEntries(r, x, "deltas", TRUE, TRUE, DeltaEntryLen)
  BY <1>1, <1>3, Zenon DEF ReadItem
<1>5. x.localLen # x.len => w = Refused(r, FALSE)
  BY <1>1, <1>4, Zenon DEF WithEntries
<1>6. x.localLen = x.len /\ MayAdd(Len(x.value) - 1, DeltaEntryLen) => w = Through(r, x.len, "deltas", x.value)
  BY <1>1, <1>4, Zenon DEF WithEntries
<1>7. QED
  BY <1>2, <1>5, <1>6, RefusedIs, Zenon DEF h, w, r

LEMMA EntriesRead ==
    ASSUME NEW n \in Nat, NEW t \in Nat, t < n, NEW reader, reader.avid \in BOOLEAN, reader.default \in BOOLEAN,
           NEW g, NEW x, x.tag = "entries", x.len \in Nat
    PROVE  /\ ~reader.avid /\ x.localLen # x.len
                  => ~ReadItem(Fine(t, g), x, n, reader).ok /\ ~ReadItem(Fine(t, g), x, n, reader).crashed
           /\ (reader.avid \/ x.localLen = x.len) /\ reader.default /\ ~MayAdd(Len(x.value) - 1, EntryLen(g))
                  => ~ReadItem(Fine(t, g), x, n, reader).ok /\ ReadItem(Fine(t, g), x, n, reader).crashed
           /\ (reader.avid \/ x.localLen = x.len) /\ (reader.default => MayAdd(Len(x.value) - 1, EntryLen(g)))
                  => ReadItem(Fine(t, g), x, n, reader) = Fine(t + TagLen + x.len, Put(g, "entries", x.value))
<1> DEFINE r == Fine(t, g)
           h == Put(g, "entries", x.value)
           w == ReadItem(r, x, n, reader)
           avid == reader.avid
           default == reader.default
<1>1. r.ok /\ r.totalLen = t /\ r.segment = g /\ ~(t >= n) /\ "entries" # "deltas"
  BY DEF Fine
<1>2. Through(r, x.len, "entries", x.value) = Fine(t + TagLen + x.len, h)
  BY DEF Through, Fine, TagLen, Put
<1>3. w = ReadItem(r, x, n, reader)
  OBVIOUS
<1> HIDE DEF r, h, w
<1>4. w = WithEntries(r, x, "entries", ~avid, default, EntryLen(g))
  BY <1>1, <1>3, Zenon DEF ReadItem
<1>5. ~avid /\ x.localLen # x.len => w = Refused(r, FALSE)
  BY <1>1, <1>4, Zenon DEF WithEntries
<1>6. (avid \/ x.localLen = x.len) /\ default /\ ~MayAdd(Len(x.value) - 1, EntryLen(g)) => w = Refused(r, TRUE)
  BY <1>1, <1>4, Zenon DEF WithEntries
<1>7. (avid \/ x.localLen = x.len) /\ (default => MayAdd(Len(x.value) - 1, EntryLen(g)))
          => w = Through(r, x.len, "entries", x.value)
  BY <1>1, <1>4, Zenon DEF WithEntries
<1>8. QED
  BY <1>2, <1>5, <1>6, <1>7, RefusedIs, Zenon DEF h, w, r

(* The pieces that a segment is written in, one after the other.           *)
Tags == {"common", "sliceCount", "posTableCount", "deltas", "entries"} \cup DOMAIN OptionLen
ItemSet(V) == [tag : Tags, localLen : Nat, len : Nat, value : V]

LEMMA Concatenation ==
    ASSUME NEW S, NEW P \in Seq(S), NEW Q \in Seq(S), NEW R \in Seq(S)
    PROVE  P \o Q \in Seq(S) /\ P \o (Q \o R) = (P \o Q) \o R
OBVIOUS

LEMMA OneItem == ASSUME NEW S, NEW x \in S PROVE <<x>> \in Seq(S) /\ <<>> \in Seq(S)
OBVIOUS

LEMMA ItemIfIs ==
    ASSUME NEW V, NEW v \in V, NEW present \in BOOLEAN, NEW tag \in Tags, NEW l \in Nat
    PROVE  /\ ItemIf(present, tag, l, v) \in Seq(ItemSet(V))
           /\ ItemIf(present, tag, l, v) = IF present THEN <<LocalItem(tag, l, l, v)>> ELSE <<>>
<1>1. LocalItem(tag, l, l, v) \in ItemSet(V)
  BY DEF LocalItem, ItemSet
<1>2. ItemIf(present, tag, l, v) = IF present THEN <<LocalItem(tag, l, l, v)>> ELSE <<>>
  BY Zenon DEF ItemIf
<1>3. QED
  BY <1>1, <1>2, OneItem, Zenon

LEMMA ArrayItemIs ==
    ASSUME NEW V, NEW v \in V, NEW tag \in Tags, NEW ll \in Nat, NEW l \in Nat
    PROVE  /\ ArrayItem(tag, ll, l, v) \in Seq(ItemSet(V))
           /\ ArrayItem(tag, ll, l, v) = IF v = <<>> THEN <<>> ELSE <<LocalItem(tag, ll, l, v)>>
<1>1. LocalItem(tag, ll, l, v) \in ItemSet(V)
  BY DEF LocalItem, ItemSet
<1>2. ArrayItem(tag, ll, l, v) = IF v = <<>> THEN <<>> ELSE <<LocalItem(tag, ll, l, v)>>
  BY Zenon DEF ArrayItem
<1>3. QED
  BY <1>1, <1>2, OneItem, Zenon

(* The lengths that a segment has.                                         *)
LEMMA LengthsAre ==
    ASSUME NEW s \in Segment
    PROVE  /\ EntryLen(s) \in Nat /\ DeltasLen(s) \in Nat /\ EntriesLen(s) \in Nat
           /\ DeltasLen(s) = 8 + Len(s.deltas) * 6 /\ Len(s.deltas) \in Nat
           /\ EntriesLen(s) = 8 + Len(s.entries) * EntryLen(s) /\ Len(s.entries) \in Nat
           /\ \A l \in Nat : PlainLen(l) \in Nat /\ AvidLen(l) \in Nat
           /\ \A l \in Nat : /\ PlainLen(l) = l <=> l < LenLimit
                             /\ AvidLen(l) = l <=> l < LenLimit
<1>1. EntryLen(s) \in Nat
  BY DEF EntryLen, Segment
<1>2. Len(s.deltas) \in Nat /\ Len(s.entries) \in Nat
  BY DEF Segment
<1>3. Len(s.entries) * EntryLen(s) \in Nat
  BY <1>1, <1>2
<1>4. DeltasLen(s) = 8 + Len(s.deltas) * 6 /\ EntriesLen(s) = 8 + Len(s.entries) * EntryLen(s)
  BY DEF DeltasLen, EntriesLen, ArrayLen, ArrayHeaderLen, DeltaEntryLen
<1>5. LenLimit \in Nat /\ 8 < LenLimit
  BY LocalBitsAssumption DEF ArrayHeaderLen
<1>6. ASSUME NEW l \in Nat
      PROVE  /\ PlainLen(l) \in Nat /\ AvidLen(l) \in Nat
             /\ PlainLen(l) = l <=> l < LenLimit
             /\ AvidLen(l) = l <=> l < LenLimit
  <2>1. l % LenLimit \in 0 .. LenLimit - 1 /\ (l < LenLimit => l % LenLimit = l)
    BY <1>5
  <2>2. QED
    BY <1>5, <2>1 DEF PlainLen, AvidLen
<1>7. 8 + Len(s.deltas) * 6 \in Nat /\ 8 + Len(s.entries) * EntryLen(s) \in Nat
  BY <1>2, <1>3
<1>8. QED
  BY <1>1, <1>2, <1>4, <1>6, <1>7, Zenon

LEMMA OptionStage ==
    ASSUME NEW s \in Segment, NEW n \in Nat, NEW t \in Nat, NEW reader, NEW c, NEW a, NEW b, NEW set, NEW ds, NEW es,
           NEW o \in DOMAIN OptionLen, t + OptionAdds(s, o) <= n,
           NEW x, x.tag = o, x.localLen = OptionLen[o], NEW Q, Q = <<>> <=> o \notin s.options
    PROVE  /\ OptionAdds(s, o) \in Nat
           /\ Then(Fine(t, Part(c, a, b, set, ds, es)), Q, x, n, reader)
               = Fine(t + OptionAdds(s, o), Part(c, a, b, set \cup (s.options \cap {o}), ds, es))
<1> DEFINE l == OptionLen[o]
           g == Part(c, a, b, set, ds, es)
           h == Part(c, a, b, set \cup {o}, ds, es)
<1>1. l \in {1, 8}
  BY DEF OptionLen
<1>2. CASE o \in s.options
  <2>1. OptionAdds(s, o) = TagLen + l /\ TagLen + l \in Nat
    BY <1>1, <1>2 DEF OptionAdds, TagLen
  <2>2. t < n /\ t + TagLen + l = t + OptionAdds(s, o)
    BY <1>1, <2>1 DEF TagLen
  <2>3. ReadItem(Fine(t, g), x, n, reader) = Fine(t + TagLen + l, h)
    BY <2>2, OptionRead
  <2>4. s.options \cap {o} = {o}
    BY <1>2
  <2> HIDE DEF g, h, l
  <2>5. Then(Fine(t, g), Q, x, n, reader) = Fine(t + OptionAdds(s, o), h)
    BY <1>2, <2>2, <2>3, Zenon DEF Then
  <2>6. QED
    BY <2>1, <2>4, <2>5, Zenon DEF g, h
<1>3. CASE o \notin s.options
  <2>1. OptionAdds(s, o) = 0 /\ t + OptionAdds(s, o) = t /\ OptionAdds(s, o) \in Nat
    BY <1>3 DEF OptionAdds
  <2>2. set \cup (s.options \cap {o}) = set
    BY <1>3
  <2> HIDE DEF g, h, l
  <2>3. Then(Fine(t, g), Q, x, n, reader) = Fine(t + OptionAdds(s, o), g)
    BY <1>3, <2>1, Zenon DEF Then
  <2>4. QED
    BY <2>1, <2>2, <2>3, Zenon DEF g
<1>4. QED
  BY <1>2, <1>3

(* An array that fits does not meet the assertion.                         *)
LEMMA MayAddLast ==
    ASSUME NEW k \in Nat, k # 0, NEW e \in Nat, 8 + k * e < LenLimit, LenLimit \in Nat
    PROVE  MayAdd(k - 1, e)
<1>1. (k - 1 - 1) * e <= k * e
  <2>1. (k - 1 - 1) * e = k * e - 2 * e
    OBVIOUS
  <2>2. k * e \in Nat /\ 2 * e \in Nat
    OBVIOUS
  <2> DEFINE p == k * e
  <2> HIDE DEF p
  <2>3. p - 2 * e <= p
    BY <2>2 DEF p
  <2>4. QED
    BY <2>1, <2>3 DEF p
<1>2. (k - 1 - 1) * e \in Int /\ k * e \in Nat
  OBVIOUS
<1>3. 8 + (k - 1 - 1) * e < LenLimit
  BY <1>1, <1>2
<1>4. QED
  BY <1>3 DEF MayAdd, ArrayHeaderLen

(* An array, its items of length e, is read if there is one.               *)
LEMMA ArrayIs ==
    ASSUME NEW es \in Seq(Nat), NEW e \in Nat, NEW l, l = 8 + Len(es) * e, NEW t \in Nat, NEW n \in Nat,
           t + (IF es = <<>> THEN 0 ELSE 4 + l) <= n
    PROVE  /\ es = <<>> => Fits(l)
           /\ es # <<>> => t < n
           /\ es # <<>> /\ Fits(l) => MayAdd(Len(es) - 1, e)
           /\ l \in Nat
<1>1. Len(es) \in Nat /\ (es # <<>> => Len(es) # 0) /\ (es = <<>> => Len(es) = 0)
  OBVIOUS
<1>2. Len(es) * e \in Nat /\ 0 * e = 0
  BY <1>1
<1>3. LenLimit \in Nat /\ 8 < LenLimit
  BY LocalBitsAssumption DEF ArrayHeaderLen
<1>4. es = <<>> => l = 8
  BY <1>1, <1>2
<1>5. es # <<>> => t < n
  BY <1>2
<1>6. ASSUME es # <<>>, Fits(l) PROVE MayAdd(Len(es) - 1, e)
  BY <1>1, <1>3, <1>6, MayAddLast DEF Fits
<1>7. l \in Nat
  BY <1>2
<1>8. QED
  BY <1>3, <1>4, <1>5, <1>6, <1>7 DEF Fits

LEMMA DeltasStage ==
    ASSUME NEW s \in Segment, NEW n \in Nat, NEW t \in Nat, NEW reader, NEW c, NEW a, NEW b, NEW set,
           t + DeltasAdd(s) <= n, NEW x, x.tag = "deltas", x.localLen = PlainLen(DeltasLen(s)),
           x.len = DeltasLen(s), x.value = s.deltas, NEW Q, Q = <<>> <=> s.deltas = <<>>, NEW es, NEW w,
           w = Then(Fine(t, Part(c, a, b, set, NewSegment.deltas, es)), Q, x, n, reader)
    PROVE  /\ DeltasAdd(s) \in Nat
           /\ ~Fits(DeltasLen(s)) => ~w.ok /\ ~w.crashed
           /\ Fits(DeltasLen(s)) => w = Fine(t + DeltasAdd(s), Part(c, a, b, set, s.deltas, es))
<1> DEFINE l == DeltasLen(s)
           g == Part(c, a, b, set, NewSegment.deltas, es)
           h == Part(c, a, b, set, s.deltas, es)
<1>1. l \in Nat /\ (PlainLen(l) = l <=> Fits(l)) /\ l = 8 + Len(s.deltas) * 6 /\ Len(s.deltas) \in Nat
  BY LengthsAre DEF Fits
<1>2. s.deltas \in Seq(Nat)
  BY DEF Segment
<1>3. DeltasAdd(s) = IF s.deltas = <<>> THEN 0 ELSE 4 + l
  <2> HIDE DEF l
  <2>1. QED
    BY <1>1 DEF DeltasAdd, DeltaEntryLen
<1>4. /\ s.deltas = <<>> => Fits(l)
      /\ s.deltas # <<>> => t < n
      /\ s.deltas # <<>> /\ Fits(l) => MayAdd(Len(s.deltas) - 1, DeltaEntryLen)
  <2>1. t + (IF s.deltas = <<>> THEN 0 ELSE 4 + l) <= n
    BY <1>3
  <2>2. QED
    BY <1>1, <1>2, <2>1, ArrayIs DEF DeltaEntryLen
<1>5. CASE s.deltas = <<>>
  <2>1. DeltasAdd(s) = 0 /\ t + DeltasAdd(s) = t /\ DeltasAdd(s) \in Nat
    BY <1>3, <1>5
  <2>2. w = Fine(t, g)
    BY <1>5, Zenon DEF Then
  <2>3. g = h
    BY <1>5 DEF NewSegment
  <2> HIDE DEF g, h, l
  <2>4. QED
    BY <1>4, <1>5, <2>1, <2>2, <2>3, Zenon DEF g, h, l
<1>6. CASE s.deltas # <<>>
  <2>1. DeltasAdd(s) = 4 + l /\ DeltasAdd(s) \in Nat /\ t + TagLen + l = t + DeltasAdd(s) /\ t < n
    <3>1. l \in Nat /\ DeltasAdd(s) = 4 + l /\ t < n
      BY <1>1, <1>3, <1>4, <1>6
    <3> HIDE DEF l
    <3>2. QED
      BY <3>1 DEF TagLen
  <2>2. Put(g, "deltas", s.deltas) = h
    BY DEF Part, Put
  <2>3. w = ReadItem(Fine(t, g), x, n, reader)
    BY <1>6, Zenon DEF Then
  <2> HIDE DEF l, g, h
  <2>4. x.len \in Nat
    BY <1>1 DEF l
  <2>5. /\ x.localLen # x.len => ~w.ok /\ ~w.crashed
        /\ x.localLen = x.len /\ MayAdd(Len(x.value) - 1, DeltaEntryLen)
               => w = Fine(t + TagLen + x.len, Put(g, "deltas", x.value))
    BY <2>1, <2>3, <2>4, DeltasRead
  <2>6. QED
    BY <1>1, <1>4, <1>6, <2>1, <2>2, <2>5, Zenon DEF l, h
<1>7. QED
  BY <1>5, <1>6

(* What the counts and the index entries add to the length.                *)
EntriesAdd(s) == IF s.entries = <<>> THEN 0 ELSE 4 + EntriesLen(s)

LEMMA EntriesStage ==
    ASSUME NEW s \in Segment, NEW n \in Nat, NEW t \in Nat, NEW reader, NEW c, NEW a, NEW b, NEW set, NEW ds,
           reader.avid \in BOOLEAN, reader.default \in BOOLEAN, s.entries # <<>> => a = s.sliceCount /\ b = s.posTableCount,
           t + EntriesAdd(s) <= n, NEW x, x.tag = "entries",
           Fits(EntriesLen(s)) <=> x.localLen = EntriesLen(s),
           x.len = EntriesLen(s), x.value = s.entries, NEW Q, Q = <<>> <=> s.entries = <<>>, NEW w,
           w = Then(Fine(t, Part(c, a, b, set, ds, NewSegment.entries)), Q, x, n, reader)
    PROVE  LET may == reader.default => MayAdd(Len(s.entries) - 1, EntryLen(s))
           IN  /\ EntriesAdd(s) \in Nat
               /\ ~Fits(EntriesLen(s)) => s.entries # <<>>
               /\ ~Fits(EntriesLen(s)) /\ ~reader.avid => ~w.ok /\ ~w.crashed
               /\ ~Fits(EntriesLen(s)) /\ reader.avid /\ ~may => ~w.ok /\ w.crashed
               /\ Fits(EntriesLen(s)) \/ (reader.avid /\ may)
                      => w = Fine(t + EntriesAdd(s), Part(c, a, b, set, ds, s.entries))
<1> DEFINE l == EntriesLen(s)
           e == EntryLen(s)
           g == Part(c, a, b, set, ds, NewSegment.entries)
           h == Part(c, a, b, set, ds, s.entries)
           may == reader.default => MayAdd(Len(s.entries) - 1, e)
<1>1. l \in Nat /\ l = 8 + Len(s.entries) * e /\ Len(s.entries) \in Nat /\ e \in Nat
  BY LengthsAre
<1>2. s.entries \in Seq(Nat)
  BY DEF Segment
<1>3. EntriesAdd(s) = IF s.entries = <<>> THEN 0 ELSE 4 + l
  BY DEF EntriesAdd
<1>4. /\ s.entries = <<>> => Fits(l)
      /\ s.entries # <<>> => t < n
      /\ s.entries # <<>> /\ Fits(l) => MayAdd(Len(s.entries) - 1, e)
  <2>1. t + (IF s.entries = <<>> THEN 0 ELSE 4 + l) <= n
    BY <1>3
  <2>2. QED
    BY <1>1, <1>2, <2>1, ArrayIs
<1>5. s.entries # <<>> => EntryLen(g) = e
  BY DEF EntryLen, Part
<1>6. CASE s.entries = <<>>
  <2>1. EntriesAdd(s) = 0 /\ t + EntriesAdd(s) = t /\ EntriesAdd(s) \in Nat
    BY <1>3, <1>6
  <2>2. w = Fine(t, g)
    BY <1>6, Zenon DEF Then
  <2>3. g = h
    BY <1>6 DEF NewSegment
  <2> HIDE DEF g, h, l, e
  <2>4. QED
    BY <1>4, <1>6, <2>1, <2>2, <2>3, Zenon DEF g, h, l
<1>7. CASE s.entries # <<>>
  <2>1. EntriesAdd(s) = 4 + l /\ EntriesAdd(s) \in Nat /\ t + TagLen + l = t + EntriesAdd(s) /\ t < n
    <3>1. l \in Nat /\ EntriesAdd(s) = 4 + l /\ t < n
      BY <1>1, <1>3, <1>4, <1>7
    <3> HIDE DEF l
    <3>2. QED
      BY <3>1 DEF TagLen
  <2>2. Put(g, "entries", s.entries) = h
    BY DEF Part, Put
  <2>3. w = ReadItem(Fine(t, g), x, n, reader)
    BY <1>7, Zenon DEF Then
  <2>4. Fits(l) <=> x.localLen = l
    OBVIOUS
  <2> HIDE DEF l, g, h, e
  <2>5. x.len \in Nat
    BY <1>1 DEF l
  <2>6. /\ ~reader.avid /\ x.localLen # x.len => ~w.ok /\ ~w.crashed
        /\ (reader.avid \/ x.localLen = x.len) /\ reader.default /\ ~MayAdd(Len(x.value) - 1, EntryLen(g))
               => ~w.ok /\ w.crashed
        /\ (reader.avid \/ x.localLen = x.len) /\ (reader.default => MayAdd(Len(x.value) - 1, EntryLen(g)))
               => w = Fine(t + TagLen + x.len, Put(g, "entries", x.value))
    BY <2>1, <2>3, <2>5, EntriesRead
  <2>7. x.len = l /\ x.value = s.entries /\ EntryLen(g) = e
    BY <1>5, <1>7 DEF l
  <2>8. /\ ~Fits(l) /\ ~reader.avid => ~w.ok /\ ~w.crashed
        /\ ~Fits(l) /\ reader.avid /\ ~may => ~w.ok /\ w.crashed
        /\ Fits(l) \/ (reader.avid /\ may) => w = Fine(t + EntriesAdd(s), h)
    BY <1>4, <1>7, <2>1, <2>2, <2>4, <2>6, <2>7, Zenon
  <2>9. QED
    BY <1>7, <2>1, <2>8, Zenon DEF l, h, e
<1>8. QED
  BY <1>6, <1>7

(* What was written in pieces, each of one item or none, is read piece by  *)
(* piece.                                                                  *)
Ready(S, Q, x) == Q \in Seq(S) /\ Piece(Q, x)

LEMMA JoinedIs ==
    ASSUME NEW S, NEW P \in Seq(S), NEW Q, NEW x, Ready(S, Q, x)
    PROVE  Joined(S, P, Q, P \o Q, x) /\ P \o Q \in Seq(S)
BY DEF Ready, Joined

Join(P, Q) == P \o Q

LEMMA JoinAssociates ==
    ASSUME NEW S, NEW P \in Seq(S), NEW Q \in Seq(S), NEW R \in Seq(S)
    PROVE  Join(P, Q) \in Seq(S) /\ Join(P, Join(Q, R)) = Join(Join(P, Q), R)
BY DEF Join

(* The ten pieces of a segment and what is in each of them.                *)
ItemValues == Nat \cup BOOLEAN \cup Seq(Nat)
HasSlices(s) == s.entries # <<>> \/ s.forceWriteSliceCount
HasTables(s) == s.entries # <<>>
CommonItem(s) == LocalItem("common", CommonLen - TagLen, CommonLen - TagLen, s.common)
SliceItem(s) == LocalItem("sliceCount", 1, 1, s.sliceCount)
TableItem(s) == LocalItem("posTableCount", 1, 1, s.posTableCount)
TheOption(o) == LocalItem(o, OptionLen[o], OptionLen[o], TRUE)
DeltasItem(s) == LocalItem("deltas", PlainLen(DeltasLen(s)), DeltasLen(s), s.deltas)
EntriesLocalLen(s, avid) == IF avid THEN AvidLen(EntriesLen(s)) ELSE PlainLen(EntriesLen(s))
EntriesItem(s, avid) == LocalItem("entries", EntriesLocalLen(s, avid), EntriesLen(s), s.entries)

CommonPiece(s) == ItemIf(TRUE, "common", CommonLen - TagLen, s.common)
SlicePiece(s) == ItemIf(HasSlices(s), "sliceCount", 1, s.sliceCount)
TablePiece(s) == ItemIf(HasTables(s), "posTableCount", 1, s.posTableCount)
DeltasPiece(s) == ArrayItem("deltas", PlainLen(DeltasLen(s)), DeltasLen(s), s.deltas)
EntriesPiece(s, avid) == ArrayItem("entries", EntriesLocalLen(s, avid), EntriesLen(s), s.entries)

LEMMA CountsReady ==
    ASSUME NEW s \in Segment
    PROVE  /\ Ready(ItemSet(ItemValues), CommonPiece(s), CommonItem(s))
           /\ Ready(ItemSet(ItemValues), SlicePiece(s), SliceItem(s))
           /\ Ready(ItemSet(ItemValues), TablePiece(s), TableItem(s))
<1>1. /\ s.common \in ItemValues /\ s.sliceCount \in ItemValues /\ s.posTableCount \in ItemValues
      /\ HasSlices(s) \in BOOLEAN /\ HasTables(s) \in BOOLEAN /\ TRUE \in BOOLEAN
      /\ CommonLen - TagLen \in Nat /\ 1 \in Nat
  BY DEF Segment, ItemValues, HasSlices, HasTables, CommonLen, TagLen
<1> DEFINE c == s.common
           a == s.sliceCount
           b == s.posTableCount
           k == CommonLen - TagLen
           V == ItemValues
<1>2. "common" \in Tags /\ "sliceCount" \in Tags /\ "posTableCount" \in Tags
  BY Zenon DEF Tags
<1> HIDE DEF c, a, b, k, V
<1>3. /\ ItemIf(TRUE, "common", k, c) \in Seq(ItemSet(V))
      /\ ItemIf(HasSlices(s), "sliceCount", 1, a) \in Seq(ItemSet(V))
      /\ ItemIf(HasTables(s), "posTableCount", 1, b) \in Seq(ItemSet(V))
  BY <1>1, <1>2, ItemIfIs DEF c, a, b, k, V
<1>4. QED
  BY <1>3, Zenon DEF Ready, Piece, ItemIf, CommonPiece, SlicePiece, TablePiece, CommonItem, SliceItem, TableItem,
                     c, a, b, k, V

LEMMA OptionReady ==
    ASSUME NEW s \in Segment, NEW o \in DOMAIN OptionLen
    PROVE  /\ Ready(ItemSet(ItemValues), OptionItem(s, o), TheOption(o))
           /\ OptionItem(s, o) = <<>> <=> o \notin s.options
           /\ TheOption(o).tag = o /\ TheOption(o).localLen = OptionLen[o]
<1>1. o \in Tags
  BY Zenon DEF Tags
<1>2. OptionLen[o] \in Nat
  BY DEF OptionLen
<1> DEFINE present == o \in s.options
           yes == TRUE
           l == OptionLen[o]
           V == ItemValues
<1>3. yes \in V /\ present \in BOOLEAN /\ l \in Nat
  BY <1>2 DEF ItemValues
<1> HIDE DEF present, yes, l, V
<1>4. /\ ItemIf(present, o, l, yes) \in Seq(ItemSet(V))
      /\ ItemIf(present, o, l, yes) = IF present THEN <<LocalItem(o, l, l, yes)>> ELSE <<>>
  BY <1>1, <1>3, ItemIfIs
<1> DEFINE x == LocalItem(o, l, l, yes)
<1>5. <<x>> # <<>> /\ x.tag = o /\ x.localLen = l
  BY DEF LocalItem
<1>6. QED
  BY <1>4, <1>5, Zenon DEF Ready, Piece, OptionItem, TheOption, present, yes, l, V

LEMMA ArraysReady ==
    ASSUME NEW s \in Segment, NEW avid \in BOOLEAN
    PROVE  /\ Ready(ItemSet(ItemValues), DeltasPiece(s), DeltasItem(s))
           /\ Ready(ItemSet(ItemValues), EntriesPiece(s, avid), EntriesItem(s, avid))
           /\ DeltasPiece(s) = <<>> <=> s.deltas = <<>>
           /\ EntriesPiece(s, avid) = <<>> <=> s.entries = <<>>
           /\ Fits(EntriesLen(s)) <=> EntriesItem(s, avid).localLen = EntriesLen(s)
<1> DEFINE d == DeltasLen(s)
           e == EntriesLen(s)
           dl == PlainLen(d)
           el == EntriesLocalLen(s, avid)
           ds == s.deltas
           es == s.entries
           V == ItemValues
<1>1. d \in Nat /\ e \in Nat /\ dl \in Nat /\ el \in Nat /\ (Fits(e) <=> el = e)
  <2>1. d \in Nat /\ e \in Nat
    BY LengthsAre
  <2>2. \A l \in Nat : /\ PlainLen(l) \in Nat /\ AvidLen(l) \in Nat
                       /\ PlainLen(l) = l <=> Fits(l)
                       /\ AvidLen(l) = l <=> Fits(l)
    BY LengthsAre DEF Fits
  <2>3. el = IF avid THEN AvidLen(e) ELSE PlainLen(e)
    BY Zenon DEF EntriesLocalLen
  <2> HIDE DEF d, e, el
  <2>4. QED
    BY <2>1, <2>2, <2>3
<1>2. ds \in V /\ es \in V
  BY DEF Segment, ItemValues
<1>0. "deltas" \in Tags /\ "entries" \in Tags
  BY Zenon DEF Tags
<1> DEFINE x == LocalItem("deltas", dl, d, ds)
           y == LocalItem("entries", el, e, es)
<1>3. <<x>> # <<>> /\ <<y>> # <<>> /\ y.localLen = el
  BY DEF LocalItem
<1> HIDE DEF d, e, dl, el, ds, es, V
<1>4. /\ ArrayItem("deltas", dl, d, ds) \in Seq(ItemSet(V))
      /\ ArrayItem("entries", el, e, es) \in Seq(ItemSet(V))
  BY <1>0, <1>1, <1>2, ArrayItemIs
<1>5. ArrayItem("deltas", dl, d, ds) = <<x>> \/ ArrayItem("deltas", dl, d, ds) = <<>>
  BY Zenon DEF ArrayItem
<1>6. ArrayItem("entries", el, e, es) = <<y>> \/ ArrayItem("entries", el, e, es) = <<>>
  BY Zenon DEF ArrayItem
<1>7. ArrayItem("deltas", dl, d, ds) = <<>> <=> ds = <<>>
  BY <1>3, Zenon DEF ArrayItem
<1>8. ArrayItem("entries", el, e, es) = <<>> <=> es = <<>>
  BY <1>3, Zenon DEF ArrayItem
<1>9. DeltasPiece(s) = ArrayItem("deltas", dl, d, ds) /\ DeltasItem(s) = x
  BY Zenon DEF DeltasPiece, DeltasItem, dl, d, ds
<1>10. EntriesPiece(s, avid) = ArrayItem("entries", el, e, es) /\ EntriesItem(s, avid) = y
  BY Zenon DEF EntriesPiece, EntriesItem, el, e, es
<1> HIDE DEF x, y
<1>11. Ready(ItemSet(V), DeltasPiece(s), DeltasItem(s)) /\ Ready(ItemSet(V), EntriesPiece(s, avid), EntriesItem(s, avid))
  BY <1>4, <1>5, <1>6, <1>9, <1>10, Zenon DEF Ready, Piece
<1>12. QED
  BY <1>1, <1>3, <1>7, <1>8, <1>9, <1>10, <1>11, Zenon DEF V, ds, es, e

(* What has been read after the counts, and after the optional items.      *)
CountsAdd(s) == (IF HasSlices(s) THEN 5 ELSE 0) + (IF HasTables(s) THEN 5 ELSE 0)
SlicesRead(s) == IF HasSlices(s) THEN s.sliceCount ELSE NewSegment.sliceCount
TablesRead(s) == IF HasTables(s) THEN s.posTableCount ELSE NewSegment.posTableCount

LEMMA CountsRead ==
    ASSUME NEW s \in Segment, NEW n \in Nat, CommonLen + CountsAdd(s) <= n, NEW reader
    PROVE  LET T(r, Q, x) == Then(r, Q, x, n, reader)
           IN  T(T(T(Unread, CommonPiece(s), CommonItem(s)), SlicePiece(s), SliceItem(s)), TablePiece(s), TableItem(s))
                   = Fine(CommonLen + CountsAdd(s), Part(s.common, SlicesRead(s), TablesRead(s), NewSegment.options, NewSegment.deltas,
                             NewSegment.entries))
<1> DEFINE T(r, Q, x) == Then(r, Q, x, n, reader)
           a0 == NewSegment.sliceCount
           b0 == NewSegment.posTableCount
           zero == NewSegment.options
           ds == NewSegment.deltas
           es == NewSegment.entries
           g0 == Part(NewSegment.common, a0, b0, zero, ds, es)
           g1 == Part(s.common, a0, b0, zero, ds, es)
           g2 == Part(s.common, SlicesRead(s), b0, zero, ds, es)
           g3 == Part(s.common, SlicesRead(s), TablesRead(s), zero, ds, es)
           t2 == CommonLen + (IF HasSlices(s) THEN 5 ELSE 0)
           t3 == CommonLen + CountsAdd(s)
           k == CommonLen - TagLen
<1>1. Unread = Fine(0, g0)
  BY DEF Unread, Fine, Part, NewSegment
<1>2. HasSlices(s) \in BOOLEAN /\ HasTables(s) \in BOOLEAN
  BY DEF HasSlices, HasTables, Segment
<1>3. /\ Put(g0, "common", s.common) = g1
      /\ Put(g1, "sliceCount", s.sliceCount) = Part(s.common, s.sliceCount, b0, zero, ds, es)
      /\ Put(g2, "posTableCount", s.posTableCount) = Part(s.common, SlicesRead(s), s.posTableCount, zero, ds, es)
  <2> HIDE DEF a0, b0, zero, ds, es
  <2>1. QED
    BY PartsAdded
<1>4. /\ k \in Nat /\ 0 + TagLen + k = CommonLen /\ CommonLen \in Nat /\ CommonLen <= n /\ 1 \in Nat
      /\ t2 \in Nat /\ t3 \in Nat /\ t2 <= t3 /\ t3 <= n
      /\ HasSlices(s) => t2 = CommonLen + TagLen + 1
      /\ ~HasSlices(s) => t2 = CommonLen
      /\ HasTables(s) => t3 = t2 + TagLen + 1
      /\ ~HasTables(s) => t3 = t2
  BY <1>2 DEF CommonLen, TagLen, CountsAdd
<1> HIDE DEF g0, g1, g2, g3, a0, b0, t2, t3, k, zero, ds, es
<1>5. T(Unread, CommonPiece(s), CommonItem(s)) = Fine(CommonLen, g1)
  <2> DEFINE x == CommonItem(s)
             Q == CommonPiece(s)
             v == s.common
  <2>1. <<x>> # <<>>
    OBVIOUS
  <2> HIDE DEF x
  <2>2. Q = <<x>>
    BY Zenon DEF x, CommonPiece, CommonItem, ItemIf
  <2>3. 0 \in Nat /\ 0 < n /\ "common" \in {"common", "sliceCount", "posTableCount"}
    BY <1>4 DEF CommonLen
  <2> HIDE DEF Q, v
  <2>4. ReadItem(Fine(0, g0), LocalItem("common", k, k, v), n, reader) = Fine(0 + TagLen + k, Put(g0, "common", v))
    BY <1>4, <2>3, PlainRead
  <2>5. QED
    BY <1>1, <1>3, <1>4, <2>1, <2>2, <2>4, Zenon DEF Then, Q, v, k, x, CommonItem
<1>6. T(Fine(CommonLen, g1), SlicePiece(s), SliceItem(s)) = Fine(t2, g2)
  <2> DEFINE x == SliceItem(s)
             Q == SlicePiece(s)
             v == s.sliceCount
  <2>1. CASE HasSlices(s)
    <3>1. <<x>> # <<>>
      OBVIOUS
    <3> HIDE DEF x
    <3>2. Q = <<x>>
      BY <2>1, Zenon DEF x, SlicePiece, SliceItem, ItemIf
    <3>3. CommonLen < n /\ "sliceCount" \in {"common", "sliceCount", "posTableCount"}
      BY <1>4, <2>1 DEF TagLen
    <3> HIDE DEF Q, v
    <3>4. ReadItem(Fine(CommonLen, g1), LocalItem("sliceCount", 1, 1, v), n, reader) = Fine(CommonLen + TagLen + 1, Put(g1, "sliceCount", v))
      BY <1>4, <3>3, PlainRead
    <3>5. Put(g1, "sliceCount", v) = g2
      BY <1>3, <2>1, Zenon DEF g2, SlicesRead, v
    <3>6. QED
      BY <1>4, <2>1, <3>1, <3>2, <3>4, <3>5, Zenon DEF Then, Q, v, x, SliceItem
  <2>2. CASE ~HasSlices(s)
    <3>1. g1 = g2
      BY <2>2, Zenon DEF g1, g2, SlicesRead, a0
    <3>2. Q = <<>>
      BY <2>2, Zenon DEF SlicePiece, ItemIf
    <3>3. QED
      BY <1>4, <2>2, <3>1, <3>2, Zenon DEF Then
  <2>3. QED
    BY <2>1, <2>2
<1>7. T(Fine(t2, g2), TablePiece(s), TableItem(s)) = Fine(t3, g3)
  <2> DEFINE x == TableItem(s)
             Q == TablePiece(s)
             v == s.posTableCount
  <2>1. CASE HasTables(s)
    <3>1. <<x>> # <<>>
      OBVIOUS
    <3> HIDE DEF x
    <3>2. Q = <<x>>
      BY <2>1, Zenon DEF x, TablePiece, TableItem, ItemIf
    <3>3. t2 < n /\ "posTableCount" \in {"common", "sliceCount", "posTableCount"}
      BY <1>4, <2>1 DEF TagLen
    <3> HIDE DEF Q, v
    <3>4. ReadItem(Fine(t2, g2), LocalItem("posTableCount", 1, 1, v), n, reader) = Fine(t2 + TagLen + 1, Put(g2, "posTableCount", v))
      BY <1>4, <3>3, PlainRead
    <3>5. Put(g2, "posTableCount", v) = g3
      BY <1>3, <2>1, Zenon DEF g3, TablesRead, v
    <3>6. QED
      BY <1>4, <2>1, <3>1, <3>2, <3>4, <3>5, Zenon DEF Then, Q, v, x, TableItem
  <2>2. CASE ~HasTables(s)
    <3>1. g2 = g3
      BY <2>2, Zenon DEF g2, g3, TablesRead, b0
    <3>2. Q = <<>>
      BY <2>2, Zenon DEF TablePiece, ItemIf
    <3>3. QED
      BY <1>4, <2>2, <3>1, <3>2, Zenon DEF Then
  <2>3. QED
    BY <2>1, <2>2
<1>8. QED
  BY <1>5, <1>6, <1>7, Zenon DEF g3, t3, zero, ds, es

LEMMA OneOptionRead ==
    ASSUME NEW s \in Segment, NEW n \in Nat, NEW t \in Nat, NEW reader, NEW c, NEW a, NEW b, NEW set, NEW ds, NEW es,
           NEW o \in DOMAIN OptionLen, t + OptionAdds(s, o) <= n
    PROVE  Then(Fine(t, Part(c, a, b, set, ds, es)), OptionItem(s, o), TheOption(o), n, reader)
               = Fine(t + OptionAdds(s, o), Part(c, a, b, set \cup (s.options \cap {o}), ds, es))
<1> DEFINE x == TheOption(o)
           Q == OptionItem(s, o)
<1>1. x.tag = o /\ x.localLen = OptionLen[o] /\ (Q = <<>> <=> o \notin s.options)
  BY OptionReady
<1> HIDE DEF x, Q
<1>2. Then(Fine(t, Part(c, a, b, set, ds, es)), Q, x, n, reader)
          = Fine(t + OptionAdds(s, o), Part(c, a, b, set \cup (s.options \cap {o}), ds, es))
  BY <1>1, OptionStage
<1>3. QED
  BY <1>2, Zenon DEF x, Q

WithOptions(q, s, n, reader) ==
    LET T(r, o) == Then(r, OptionItem(s, o), TheOption(o), n, reader)
    IN  T(T(T(T(T(q, "extStartOffset"), "vbeByteCount"), "singleIndexLocation"), "singleEssenceLocation"),
          "forwardIndexDirection")

LEMMA OptionsRead ==
    ASSUME NEW s \in Segment, NEW n \in Nat, NEW t \in Nat, t + OptionsAdd(s) <= n, NEW reader,
           NEW c, NEW a, NEW b, NEW ds, NEW es
    PROVE  WithOptions(Fine(t, Part(c, a, b, NewSegment.options, ds, es)), s, n, reader)
               = Fine(t + OptionsAdd(s), Part(c, a, b, s.options, ds, es))
<1> DEFINE T(r, o) == Then(r, OptionItem(s, o), TheOption(o), n, reader)
           o1 == "extStartOffset"
           o2 == "vbeByteCount"
           o3 == "singleIndexLocation"
           o4 == "singleEssenceLocation"
           o5 == "forwardIndexDirection"
           S0 == NewSegment.options
           S1 == S0 \cup (s.options \cap {o1})
           S2 == S1 \cup (s.options \cap {o2})
           S3 == S2 \cup (s.options \cap {o3})
           S4 == S3 \cup (s.options \cap {o4})
           S5 == S4 \cup (s.options \cap {o5})
           t1 == t + OptionAdds(s, o1)
           t2 == t1 + OptionAdds(s, o2)
           t3 == t2 + OptionAdds(s, o3)
           t4 == t3 + OptionAdds(s, o4)
           t5 == t4 + OptionAdds(s, o5)
<1>1. S5 = s.options
  BY DEF Segment, OptionLen, NewSegment
<1>2. /\ o1 \in DOMAIN OptionLen /\ o2 \in DOMAIN OptionLen /\ o3 \in DOMAIN OptionLen
      /\ o4 \in DOMAIN OptionLen /\ o5 \in DOMAIN OptionLen
  BY DEF OptionLen
<1>3. \A o \in DOMAIN OptionLen : OptionAdds(s, o) \in Nat
  BY DEF OptionLen, OptionAdds
<1>4. OptionsAdd(s) = OptionAdds(s, o1) + OptionAdds(s, o2) + OptionAdds(s, o3) + OptionAdds(s, o4) + OptionAdds(s, o5)
  BY Zenon DEF OptionsAdd
<1> HIDE DEF o1, o2, o3, o4, o5, S0
<1>5. /\ t1 \in Nat /\ t2 \in Nat /\ t3 \in Nat /\ t4 \in Nat /\ t5 = t + OptionsAdd(s)
      /\ t1 <= n /\ t2 <= n /\ t3 <= n /\ t4 <= n /\ t5 <= n /\ OptionsAdd(s) \in Nat
  <2>1. /\ OptionAdds(s, o1) \in Nat /\ OptionAdds(s, o2) \in Nat /\ OptionAdds(s, o3) \in Nat
        /\ OptionAdds(s, o4) \in Nat /\ OptionAdds(s, o5) \in Nat
    BY <1>2, <1>3
  <2>2. QED
    BY <1>4, <2>1
<1>6. T(Fine(t, Part(c, a, b, S0, ds, es)), o1) = Fine(t1, Part(c, a, b, S1, ds, es))
  BY <1>2, <1>5, OneOptionRead
<1> HIDE DEF t1, S1
<1>7. T(Fine(t1, Part(c, a, b, S1, ds, es)), o2) = Fine(t2, Part(c, a, b, S2, ds, es))
  BY <1>2, <1>5, OneOptionRead
<1> HIDE DEF t2, S2
<1>8. T(Fine(t2, Part(c, a, b, S2, ds, es)), o3) = Fine(t3, Part(c, a, b, S3, ds, es))
  BY <1>2, <1>5, OneOptionRead
<1> HIDE DEF t3, S3
<1>9. T(Fine(t3, Part(c, a, b, S3, ds, es)), o4) = Fine(t4, Part(c, a, b, S4, ds, es))
  BY <1>2, <1>5, OneOptionRead
<1> HIDE DEF t4, S4
<1>10. T(Fine(t4, Part(c, a, b, S4, ds, es)), o5) = Fine(t5, Part(c, a, b, S5, ds, es))
  BY <1>2, <1>5, OneOptionRead
<1> HIDE DEF t5, S5
<1>11. T(T(T(T(T(Fine(t, Part(c, a, b, S0, ds, es)), o1), o2), o3), o4), o5)
           = Fine(t + OptionsAdd(s), Part(c, a, b, s.options, ds, es))
  BY <1>1, <1>5, <1>6, <1>7, <1>8, <1>9, <1>10, Zenon
<1>12. QED
  BY <1>11, Zenon DEF WithOptions, o1, o2, o3, o4, o5, S0

(* What a reader has of a segment when it has been through all its items.  *)
LEMMA ItemsRead ==
    ASSUME NEW s \in Segment, NEW avid \in BOOLEAN, NEW w, w = Written(s, avid), NEW reader
    PROVE  /\ Len(w.items) \in Nat
           /\ \A f : Reads(w, reader, f) =>
                  LET T(r, Q, x) == Then(r, Q, x, w.segmentLen, reader)
                      counts == T(T(T(Unread, CommonPiece(s), CommonItem(s)), SlicePiece(s), SliceItem(s)),
                                  TablePiece(s), TableItem(s))
                      options == WithOptions(counts, s, w.segmentLen, reader)
                  IN  f[Len(w.items)]
                          = T(T(options, DeltasPiece(s), DeltasItem(s)), EntriesPiece(s, avid), EntriesItem(s, avid))
<1> DEFINE S == ItemSet(ItemValues)
           o3 == "extStartOffset"
           o4 == "vbeByteCount"
           o5 == "singleIndexLocation"
           o6 == "singleEssenceLocation"
           o7 == "forwardIndexDirection"
           Q0 == CommonPiece(s)
           Q1 == SlicePiece(s)
           Q2 == TablePiece(s)
           Q3 == OptionItem(s, o3)
           Q4 == OptionItem(s, o4)
           Q5 == OptionItem(s, o5)
           Q6 == OptionItem(s, o6)
           Q7 == OptionItem(s, o7)
           Q8 == DeltasPiece(s)
           Q9 == EntriesPiece(s, avid)
           x0 == CommonItem(s)
           x1 == SliceItem(s)
           x2 == TableItem(s)
           x3 == TheOption(o3)
           x4 == TheOption(o4)
           x5 == TheOption(o5)
           x6 == TheOption(o6)
           x7 == TheOption(o7)
           x8 == DeltasItem(s)
           x9 == EntriesItem(s, avid)
           P0 == <<>>
           P2 == Q0 \o Q1
           P3 == P2 \o Q2
           P4 == P3 \o Q3
           P5 == P4 \o Q4
           P6 == P5 \o Q5
           P7 == P6 \o Q6
           P8 == P7 \o Q7
           P9 == P8 \o Q8
           P10 == P9 \o Q9
<1>1. Ready(S, Q0, x0) /\ Ready(S, Q1, x1) /\ Ready(S, Q2, x2) /\ Ready(S, Q8, x8) /\ Ready(S, Q9, x9)
  BY CountsReady, ArraysReady, Zenon
<1>2. /\ o3 \in DOMAIN OptionLen /\ o4 \in DOMAIN OptionLen /\ o5 \in DOMAIN OptionLen
      /\ o6 \in DOMAIN OptionLen /\ o7 \in DOMAIN OptionLen
  BY DEF OptionLen
<1>3. Ready(S, Q3, x3) /\ Ready(S, Q4, x4) /\ Ready(S, Q5, x5) /\ Ready(S, Q6, x6) /\ Ready(S, Q7, x7)
  BY <1>2, OptionReady, Zenon
<1>4. Written(s, avid).items = Q0 \o (Q1 \o Q2) \o (Q3 \o Q4 \o Q5 \o Q6 \o Q7) \o Q8 \o Q9
  BY DEF Written, CountItems, OptionItems, CommonPiece, SlicePiece, TablePiece, DeltasPiece, EntriesPiece,
         HasSlices, HasTables, EntriesLocalLen
<1> HIDE DEF S, Q0, Q1, Q2, Q3, Q4, Q5, Q6, Q7, Q8, Q9, x0, x1, x2, x3, x4, x5, x6, x7, x8, x9
<1>5. /\ Q0 \in Seq(S) /\ Q1 \in Seq(S) /\ Q2 \in Seq(S) /\ Q3 \in Seq(S) /\ Q4 \in Seq(S)
      /\ Q5 \in Seq(S) /\ Q6 \in Seq(S) /\ Q7 \in Seq(S)
  BY <1>1, <1>3, Zenon DEF Ready
<1>6. Q0 \o (Q1 \o Q2) \o (Q3 \o Q4 \o Q5 \o Q6 \o Q7) = P8
  <2>1. Join(Join(Q0, Join(Q1, Q2)), Join(Join(Join(Join(Q3, Q4), Q5), Q6), Q7))
            = Join(Join(Join(Join(Join(Join(Join(Q0, Q1), Q2), Q3), Q4), Q5), Q6), Q7)
    <3> HIDE DEF P0, P2, P3, P4, P5, P6, P7, P8, P9, P10
    <3> DEFINE R == Join(Join(Q0, Q1), Q2)
               O4 == Join(Q3, Q4)
               O5 == Join(O4, Q5)
               O6 == Join(O5, Q6)
    <3>1. Join(Q0, Join(Q1, Q2)) = R /\ R \in Seq(S)
      BY <1>5, JoinAssociates
    <3>2. O4 \in Seq(S) /\ O5 \in Seq(S) /\ O6 \in Seq(S)
      BY <1>5, JoinAssociates
    <3> HIDE DEF R
    <3>3. Join(R, O4) = Join(Join(R, Q3), Q4)
      BY <1>5, <3>1, JoinAssociates
    <3> HIDE DEF O4
    <3>4. Join(R, O5) = Join(Join(R, O4), Q5)
      BY <1>5, <3>1, <3>2, JoinAssociates
    <3> HIDE DEF O5
    <3>5. Join(R, O6) = Join(Join(R, O5), Q6)
      BY <1>5, <3>1, <3>2, JoinAssociates
    <3> HIDE DEF O6
    <3>6. Join(R, Join(O6, Q7)) = Join(Join(R, O6), Q7)
      BY <1>5, <3>1, <3>2, JoinAssociates
    <3>7. Join(Join(Q0, Join(Q1, Q2)), Join(O6, Q7)) = Join(Join(Join(Join(Join(R, Q3), Q4), Q5), Q6), Q7)
      BY <3>1, <3>3, <3>4, <3>5, <3>6, Zenon
    <3>8. QED
      BY <3>7, Zenon DEF R, O6, O5, O4
  <2>2. QED
    BY <2>1, Zenon DEF Join
<1>7. w.items = P10
  BY <1>4, <1>6, Zenon
<1>8. Joined(S, P0, Q0, Q0, x0)
  BY <1>1 DEF Joined, Ready
<1>9. Joined(S, Q0, Q1, P2, x1) /\ P2 \in Seq(S)
  BY <1>1, <1>5, JoinedIs
<1> HIDE DEF P2
<1>10. Joined(S, P2, Q2, P3, x2) /\ P3 \in Seq(S)
  BY <1>1, <1>9, JoinedIs
<1> HIDE DEF P3
<1>11. Joined(S, P3, Q3, P4, x3) /\ P4 \in Seq(S)
  BY <1>3, <1>10, JoinedIs
<1> HIDE DEF P4
<1>12. Joined(S, P4, Q4, P5, x4) /\ P5 \in Seq(S)
  BY <1>3, <1>11, JoinedIs
<1> HIDE DEF P5
<1>13. Joined(S, P5, Q5, P6, x5) /\ P6 \in Seq(S)
  BY <1>3, <1>12, JoinedIs
<1> HIDE DEF P6
<1>14. Joined(S, P6, Q6, P7, x6) /\ P7 \in Seq(S)
  BY <1>3, <1>13, JoinedIs
<1> HIDE DEF P7
<1>15. Joined(S, P7, Q7, P8, x7) /\ P8 \in Seq(S)
  BY <1>3, <1>14, JoinedIs
<1> HIDE DEF P8
<1>16. Joined(S, P8, Q8, P9, x8) /\ P9 \in Seq(S)
  BY <1>1, <1>15, JoinedIs
<1> HIDE DEF P9
<1>17. Joined(S, P9, Q9, P10, x9) /\ P10 \in Seq(S)
  BY <1>1, <1>16, JoinedIs
<1> HIDE DEF P10
<1>18. Len(w.items) \in Nat
  BY <1>7, <1>17
<1>19. P0 = <<>>
  OBVIOUS
<1> HIDE DEF P0
<1>20. ASSUME NEW f, Reads(w, reader, f)
       PROVE  LET T(r, Q, x) == Then(r, Q, x, w.segmentLen, reader)
              IN  f[Len(w.items)]
                      = T(T(T(T(T(T(T(T(T(T(Unread, Q0, x0), Q1, x1), Q2, x2), Q3, x3), Q4, x4), Q5, x5), Q6, x6),
                              Q7, x7), Q8, x8), Q9, x9)
  <2> DEFINE T(r, Q, x) == Then(r, Q, x, w.segmentLen, reader)
             A(P) == After(f, P)
  <2>1. Begins(w, P10)
    BY <1>7, <1>20 DEF Begins, Reads
  <2>2. Begins(w, P9) /\ A(P10) = T(A(P9), Q9, x9)
    BY <1>20, <1>17, <2>1, NextPiece
  <2>3. Begins(w, P8) /\ A(P9) = T(A(P8), Q8, x8)
    BY <1>20, <1>16, <2>2, NextPiece
  <2>4. Begins(w, P7) /\ A(P8) = T(A(P7), Q7, x7)
    BY <1>20, <1>15, <2>3, NextPiece
  <2>5. Begins(w, P6) /\ A(P7) = T(A(P6), Q6, x6)
    BY <1>20, <1>14, <2>4, NextPiece
  <2>6. Begins(w, P5) /\ A(P6) = T(A(P5), Q5, x5)
    BY <1>20, <1>13, <2>5, NextPiece
  <2>7. Begins(w, P4) /\ A(P5) = T(A(P4), Q4, x4)
    BY <1>20, <1>12, <2>6, NextPiece
  <2>8. Begins(w, P3) /\ A(P4) = T(A(P3), Q3, x3)
    BY <1>20, <1>11, <2>7, NextPiece
  <2>9. Begins(w, P2) /\ A(P3) = T(A(P2), Q2, x2)
    BY <1>20, <1>10, <2>8, NextPiece
  <2>10. Begins(w, Q0) /\ A(P2) = T(A(Q0), Q1, x1)
    BY <1>20, <1>9, <2>9, NextPiece
  <2>11. Begins(w, P0) /\ A(Q0) = T(A(P0), Q0, x0)
    BY <1>20, <1>8, <2>10, NextPiece
  <2>12. A(P0) = Unread
    <3>1. 0 \in 0 .. Len(w.items) /\ Len(P0) = 0
      BY <1>19, <1>20 DEF Reads
    <3>2. f = [k \in 0 .. Len(w.items) |-> IF k = 0 THEN Unread
                                           ELSE ReadItem(f[k - 1], w.items[k], w.segmentLen, reader)]
      BY <1>20, Zenon DEF ReadTo, Reads
    <3>3. f[0] = Unread
      BY <3>1, <3>2, Zenon
    <3>4. QED
      BY <3>1, <3>3, Zenon DEF After
  <2>13. A(P10) = f[Len(w.items)]
    BY <1>7, Zenon DEF After
  <2> HIDE DEF A
  <2>14. QED
    BY <2>2, <2>3, <2>4, <2>5, <2>6, <2>7, <2>8, <2>9, <2>10, <2>11, <2>12, <2>13, Zenon
<1>21. QED
  BY <1>18, <1>20, Zenon DEF WithOptions, Q0, Q1, Q2, Q3, Q4, Q5, Q6, Q7, Q8, Q9, x0, x1, x2, x3, x4, x5, x6, x7, x8, x9

(* What a segment keeps, and how much all the items add.                   *)
LEMMA KeptIs ==
    ASSUME NEW s \in Segment
    PROVE  Part(s.common, SlicesRead(s), TablesRead(s), s.options, s.deltas, s.entries) = Kept(s)
<1>1. NewSegment.forceWriteSliceCount = FALSE
  BY DEF NewSegment
<1>2. /\ SlicesRead(s) = IF s.entries # <<>> \/ s.forceWriteSliceCount THEN s.sliceCount ELSE 0
      /\ TablesRead(s) = IF s.entries # <<>> THEN s.posTableCount ELSE 0
  BY DEF SlicesRead, TablesRead, HasSlices, HasTables, NewSegment, Segment
<1> DEFINE a == SlicesRead(s)
           b == TablesRead(s)
<1> HIDE DEF a, b
<1>3. Kept(s) = [common |-> s.common, options |-> s.options, deltas |-> s.deltas, entries |-> s.entries,
                 forceWriteSliceCount |-> NewSegment.forceWriteSliceCount, sliceCount |-> a, posTableCount |-> b]
  BY <1>1, <1>2, Zenon DEF Kept, a, b
<1>4. Kept(s) = Part(s.common, a, b, s.options, s.deltas, s.entries)
  BY <1>3 DEF Part
<1>5. QED
  BY <1>4, Zenon DEF a, b

LEMMA LengthsAddUp ==
    ASSUME NEW s \in Segment
    PROVE  /\ CommonLen + CountsAdd(s) + OptionsAdd(s) + DeltasAdd(s) + EntriesAdd(s) = SegmentLen(s)
           /\ CommonLen \in Nat /\ CountsAdd(s) \in Nat /\ OptionsAdd(s) \in Nat /\ DeltasAdd(s) \in Nat
           /\ EntriesAdd(s) \in Nat
<1> DEFINE l == Len(s.entries) * EntryLen(s)
<1>1. l \in Nat /\ EntriesLen(s) = 8 + l /\ Len(s.deltas) \in Nat
  <2>1. EntryLen(s) \in Nat /\ Len(s.entries) \in Nat /\ EntriesLen(s) = 8 + l /\ Len(s.deltas) \in Nat
    BY LengthsAre
  <2>2. QED
    BY <2>1
<1> HIDE DEF l
<1>2. OptionsAdd(s) \in Nat
  <2>1. \A o \in DOMAIN OptionLen : OptionAdds(s, o) \in Nat
    BY DEF OptionLen, OptionAdds
  <2>2. QED
    BY <2>1 DEF OptionsAdd, OptionLen
<1>3. DeltasAdd(s) \in Nat
  BY <1>1 DEF DeltasAdd, DeltaEntryLen
<1>4. EntriesAdd(s) = IF s.entries = <<>> THEN 0 ELSE 12 + l
  BY <1>1 DEF EntriesAdd
<1>5. SegmentLen(s) = CommonLen + DeltasAdd(s) + OptionsAdd(s)
                          + (IF s.entries # <<>> THEN 22 + l ELSE IF s.forceWriteSliceCount THEN 5 ELSE 0)
  BY Zenon DEF SegmentLen, l
<1>6. CountsAdd(s) = IF s.entries # <<>> THEN 10 ELSE IF s.forceWriteSliceCount THEN 5 ELSE 0
  BY DEF CountsAdd, HasSlices, HasTables, Segment
<1>7. CountsAdd(s) + EntriesAdd(s) = IF s.entries # <<>> THEN 22 + l ELSE IF s.forceWriteSliceCount THEN 5 ELSE 0
  BY <1>1, <1>4, <1>6
<1>8. CommonLen \in Nat /\ CountsAdd(s) \in Nat /\ EntriesAdd(s) \in Nat
  BY <1>1, <1>4, <1>6 DEF CommonLen
<1>9. QED
  BY <1>2, <1>3, <1>5, <1>7, <1>8

(* A segment is read back whole, or not at all.                            *)
LEMMA SegmentRead ==
    ASSUME NEW s \in Segment, NEW avid \in BOOLEAN, NEW reader, reader.avid \in BOOLEAN, reader.default \in BOOLEAN,
           NEW r, r = ReadSegment(Written(s, avid), reader)
    PROVE  LET may == reader.default => MayAdd(Len(s.entries) - 1, EntryLen(s))
           IN  /\ ~Fits(EntriesLen(s)) => s.entries # <<>>
               /\ ~Fits(DeltasLen(s)) => ~r.ok /\ ~r.crashed
               /\ Fits(DeltasLen(s)) /\ ~Fits(EntriesLen(s)) /\ ~reader.avid => ~r.ok /\ ~r.crashed
               /\ Fits(DeltasLen(s)) /\ ~Fits(EntriesLen(s)) /\ reader.avid /\ ~may => ~r.ok /\ r.crashed
               /\ Fits(DeltasLen(s)) /\ (Fits(EntriesLen(s)) \/ (reader.avid /\ may))
                      => r.ok /\ ~r.crashed /\ r.segment = Kept(s)
<1> DEFINE w == Written(s, avid)
           n == w.segmentLen
           T(q, Q, x) == Then(q, Q, x, n, reader)
           counts == T(T(T(Unread, CommonPiece(s), CommonItem(s)), SlicePiece(s), SliceItem(s)),
                       TablePiece(s), TableItem(s))
           options == WithOptions(counts, s, n, reader)
           deltas == T(options, DeltasPiece(s), DeltasItem(s))
           all == T(deltas, EntriesPiece(s, avid), EntriesItem(s, avid))
           c == s.common
           a == SlicesRead(s)
           b == TablesRead(s)
           t1 == CommonLen + CountsAdd(s)
           t2 == t1 + OptionsAdd(s)
           t3 == t2 + DeltasAdd(s)
           t4 == t3 + EntriesAdd(s)
           set == s.options
           ds == s.deltas
           may == reader.default => MayAdd(Len(s.entries) - 1, EntryLen(s))
<1>1. n = SegmentLen(s)
  BY DEF Written
<1>2. /\ t1 \in Nat /\ t2 \in Nat /\ t3 \in Nat /\ t4 \in Nat /\ n \in Nat
      /\ t1 <= n /\ t2 <= n /\ t3 <= n /\ t4 = n
  <2> HIDE DEF n
  <2>1. QED
    BY <1>1, LengthsAddUp
<1>3. /\ Len(w.items) \in Nat
      /\ \A f : Reads(w, reader, f) => f[Len(w.items)] = all
  BY ItemsRead
<1> HIDE DEF w, n
<1>4. PICK f : /\ ReadTo(w, reader, Len(w.items), f)
               /\ ReadSegment(w, reader)
                      = IF f[Len(w.items)].ok /\ f[Len(w.items)].totalLen # w.segmentLen
                        THEN Refused(f[Len(w.items)], FALSE) ELSE f[Len(w.items)]
  BY <1>3, ReadSegmentIs
<1>5. r = IF all.ok /\ all.totalLen # n THEN Refused(all, FALSE) ELSE all
  <2>1. f[Len(w.items)] = all
    BY <1>3, <1>4, Zenon DEF Reads
  <2>2. QED
    BY <1>4, <2>1, Zenon DEF w, n
<1>6. counts = Fine(t1, Part(c, a, b, NewSegment.options, NewSegment.deltas, NewSegment.entries))
  BY <1>2, CountsRead, Zenon
<1> HIDE DEF counts
<1>7. options = Fine(t2, Part(c, a, b, set, NewSegment.deltas, NewSegment.entries))
  <2> DEFINE ds0 == NewSegment.deltas
             es0 == NewSegment.entries
             q == Fine(t1, Part(c, a, b, NewSegment.options, ds0, es0))
  <2>1. WithOptions(q, s, n, reader) = Fine(t2, Part(c, a, b, set, ds0, es0))
    <3> HIDE DEF t1, c, a, b, ds0, es0
    <3>1. QED
      BY <1>2, OptionsRead
  <2>2. QED
    BY <1>6, <2>1, Zenon
<1> HIDE DEF options
<1> DEFINE x == DeltasItem(s)
           Q == DeltasPiece(s)
           es0 == NewSegment.entries
           y == EntriesItem(s, avid)
           R == EntriesPiece(s, avid)
<1>8. /\ x.tag = "deltas" /\ x.localLen = PlainLen(DeltasLen(s)) /\ x.len = DeltasLen(s) /\ x.value = s.deltas
      /\ y.tag = "entries" /\ y.len = EntriesLen(s) /\ y.value = s.entries
  BY DEF DeltasItem, EntriesItem, LocalItem
<1>9. (Q = <<>> <=> s.deltas = <<>>) /\ (R = <<>> <=> s.entries = <<>>)
      /\ (Fits(EntriesLen(s)) <=> y.localLen = EntriesLen(s))
  BY ArraysReady
<1>10. deltas = Then(Fine(t2, Part(c, a, b, set, NewSegment.deltas, es0)), Q, x, n, reader)
  BY <1>7, Zenon
<1>11. all = Then(deltas, R, y, n, reader)
  BY Zenon
<1> HIDE DEF x, Q, es0, y, R, deltas, all, c, a, b, set, t1, t2
<1>12. /\ ~Fits(DeltasLen(s)) => ~deltas.ok /\ ~deltas.crashed
       /\ Fits(DeltasLen(s)) => deltas = Fine(t3, Part(c, a, b, set, ds, es0))
  BY <1>2, <1>8, <1>9, <1>10, DeltasStage
<1>13. s.entries # <<>> => a = s.sliceCount /\ b = s.posTableCount
  BY DEF a, b, SlicesRead, TablesRead, HasSlices, HasTables
<1> HIDE DEF t3, ds
<1>14. LET v == Then(Fine(t3, Part(c, a, b, set, ds, NewSegment.entries)), R, y, n, reader)
       IN  /\ ~Fits(EntriesLen(s)) => s.entries # <<>>
           /\ ~Fits(EntriesLen(s)) /\ ~reader.avid => ~v.ok /\ ~v.crashed
           /\ ~Fits(EntriesLen(s)) /\ reader.avid /\ ~may => ~v.ok /\ v.crashed
           /\ Fits(EntriesLen(s)) \/ (reader.avid /\ may) => v = Fine(t4, Part(c, a, b, set, ds, s.entries))
  <2> DEFINE v == Then(Fine(t3, Part(c, a, b, set, ds, NewSegment.entries)), R, y, n, reader)
  <2>1. v = Then(Fine(t3, Part(c, a, b, set, ds, NewSegment.entries)), R, y, n, reader) /\ t4 <= n
    BY <1>2
  <2> HIDE DEF v
  <2>2. /\ ~Fits(EntriesLen(s)) => s.entries # <<>>
        /\ ~Fits(EntriesLen(s)) /\ ~reader.avid => ~v.ok /\ ~v.crashed
        /\ ~Fits(EntriesLen(s)) /\ reader.avid /\ ~may => ~v.ok /\ v.crashed
        /\ Fits(EntriesLen(s)) \/ (reader.avid /\ may) => v = Fine(t4, Part(c, a, b, set, ds, s.entries))
    BY <1>2, <1>8, <1>9, <1>13, <2>1, EntriesStage
  <2>3. QED
    BY <2>2, Zenon DEF v
<1>15. ~all.ok => r = all
  BY <1>5, Zenon
<1>16. CASE ~Fits(DeltasLen(s))
  <2>1. ~deltas.ok /\ ~deltas.crashed
    BY <1>12, <1>16
  <2>2. all = deltas
    BY <1>11, <2>1, RefusedStays, Zenon DEF Then
  <2>3. ~r.ok /\ ~r.crashed
    BY <1>15, <2>1, <2>2, Zenon
  <2>4. QED
    BY <1>14, <1>16, <2>3, Zenon
<1>17. CASE Fits(DeltasLen(s))
  <2>1. all = Then(Fine(t3, Part(c, a, b, set, ds, NewSegment.entries)), R, y, n, reader)
    BY <1>11, <1>12, <1>17, Zenon DEF es0
  <2>2. /\ ~Fits(EntriesLen(s)) => s.entries # <<>>
        /\ ~Fits(EntriesLen(s)) /\ ~reader.avid => ~all.ok /\ ~all.crashed
        /\ ~Fits(EntriesLen(s)) /\ reader.avid /\ ~may => ~all.ok /\ all.crashed
        /\ Fits(EntriesLen(s)) \/ (reader.avid /\ may) => all = Fine(t4, Part(c, a, b, set, ds, s.entries))
    BY <1>14, <2>1, Zenon
  <2>3. ASSUME Fits(EntriesLen(s)) \/ (reader.avid /\ may)
        PROVE  r.ok /\ ~r.crashed /\ r.segment = Kept(s)
    <3>1. all = Fine(n, Kept(s))
      <4>1. Part(c, a, b, set, ds, s.entries) = Kept(s)
        BY KeptIs DEF c, a, b, set, ds
      <4>2. QED
        BY <1>2, <2>2, <2>3, <4>1
    <3>2. all.ok /\ ~all.crashed /\ all.totalLen = n /\ all.segment = Kept(s)
      BY <3>1 DEF Fine
    <3>3. r = all
      BY <1>5, <3>2, Zenon
    <3>4. QED
      BY <3>2, <3>3
  <2>4. QED
    BY <1>15, <1>17, <2>2, <2>3, Zenon
<1>18. QED
  BY <1>16, <1>17

-----------------------------------------------------------------------------
(* The client only makes segments that an assertion let grow, and what it  *)
(* writes is the segment that it still has.                                *)
TableInv ==
    /\ segment \in Segment /\ list \in BOOLEAN
    /\ list /\ segment.entries # <<>> => MayAdd(Len(segment.entries) - 1, EntryLen(segment))
    /\ segmentFile # Nothing => \E avid \in BOOLEAN : segmentFile = Written(segment, avid)
    /\ SegmentsReadBack

LEMMA TableBegins == NoTable => TableInv
<1> SUFFICES ASSUME NoTable PROVE TableInv
  OBVIOUS
<1>1. segment \in Segment /\ list \in BOOLEAN /\ segment.entries = <<>>
  <2>1. <<>> \in Seq(Nat)
    OBVIOUS
  <2>2. NewSegment \in Segment /\ NewSegment.entries = <<>>
    BY <2>1 DEF NewSegment, Segment
  <2>3. segment = NewSegment /\ list = FALSE
    BY Zenon DEF NoTable
  <2>4. QED
    BY <2>2, <2>3
<1>2. segmentFile = Nothing
  BY DEF NoTable
<1>3. QED
  BY <1>1, <1>2, Zenon DEF TableInv, SegmentsReadBack

LEMMA TableStands == TableInv /\ UNCHANGED tableVars => TableInv'
<1> SUFFICES ASSUME TableInv, UNCHANGED tableVars PROVE TableInv'
  OBVIOUS
<1>1. segment' = segment /\ list' = list /\ segmentFile' = segmentFile /\ result' = result
  BY DEF tableVars
<1>2. QED
  BY <1>1, Zenon DEF TableInv, SegmentsReadBack

LEMMA CreateKeeps == TableInv /\ CreateSegment => TableInv'
<1> SUFFICES ASSUME TableInv, CreateSegment PROVE TableInv'
  OBVIOUS
<1>1. segmentFile' = Nothing /\ list' \in BOOLEAN
  BY DEF CreateSegment, NoTable
<1>2. segment' \in Segment /\ segment'.entries = <<>>
  <2>1. PICK slices \in SliceCounts, tables \in PosTableCounts, force \in BOOLEAN, set \in OptionSets :
            segment' = [NewSegment EXCEPT !.common = 1, !.sliceCount = slices, !.posTableCount = tables,
                                          !.forceWriteSliceCount = force, !.options = set]
    BY Zenon DEF CreateSegment
  <2>2. segment' = [common |-> 1, sliceCount |-> slices, posTableCount |-> tables, forceWriteSliceCount |-> force,
                    options |-> set, deltas |-> <<>>, entries |-> <<>>]
    BY <2>1 DEF NewSegment
  <2>3. slices \in Nat /\ tables \in Nat /\ set \subseteq DOMAIN OptionLen
    BY TableAssumption
  <2>4. <<>> \in Seq(Nat)
    OBVIOUS
  <2>5. QED
    BY <2>2, <2>3, <2>4 DEF Segment
<1>3. QED
  BY <1>1, <1>2, Zenon DEF TableInv, SegmentsReadBack

LEMMA AddDeltaKeeps == TableInv /\ AddDeltaEntry => TableInv'
<1> SUFFICES ASSUME TableInv, AddDeltaEntry PROVE TableInv'
  OBVIOUS
<1>1. segmentFile' = Nothing /\ list' = list
  BY DEF AddDeltaEntry, Making
<1>2. segment \in Segment /\ list \in BOOLEAN
      /\ (list /\ segment.entries # <<>> => MayAdd(Len(segment.entries) - 1, EntryLen(segment)))
  BY Zenon DEF TableInv
<1>3. segment' = segment \/ segment' = [segment EXCEPT !.deltas = Append(@, Len(segment.deltas) + 1)]
  BY Zenon DEF AddDeltaEntry, Add
<1>4. segment' \in Segment /\ segment'.entries = segment.entries /\ EntryLen(segment') = EntryLen(segment)
  <2>1. CASE segment' = segment
    BY <1>2, <2>1
  <2>2. CASE segment' = [segment EXCEPT !.deltas = Append(@, Len(segment.deltas) + 1)]
    <3>1. Append(segment.deltas, Len(segment.deltas) + 1) \in Seq(Nat)
      BY <1>2 DEF Segment
    <3>2. QED
      BY <1>2, <2>2, <3>1 DEF Segment, EntryLen
  <2>3. QED
    BY <1>3, <2>1, <2>2
<1>5. QED
  BY <1>1, <1>2, <1>4, Zenon DEF TableInv, SegmentsReadBack

LEMMA AddIndexKeeps == TableInv /\ AddIndexEntry => TableInv'
<1> SUFFICES ASSUME TableInv, AddIndexEntry PROVE TableInv'
  OBVIOUS
<1>1. segmentFile' = Nothing /\ list' = list
  BY DEF AddIndexEntry, Making
<1>2. segment \in Segment /\ list \in BOOLEAN
      /\ (list /\ segment.entries # <<>> => MayAdd(Len(segment.entries) - 1, EntryLen(segment)))
  BY Zenon DEF TableInv
<1> DEFINE n == Len(segment.entries)
<1>3. \/ segment' = segment
      \/ /\ segment' = [segment EXCEPT !.entries = Append(@, n + 1)]
         /\ list => MayAdd(n, EntryLen(segment))
  BY Zenon DEF AddIndexEntry, Add
<1>4. /\ segment' \in Segment
      /\ list /\ segment'.entries # <<>> => MayAdd(Len(segment'.entries) - 1, EntryLen(segment'))
  <2>1. CASE segment' = segment
    BY <1>2, <2>1
  <2>2. CASE segment' = [segment EXCEPT !.entries = Append(@, n + 1)] /\ (list => MayAdd(n, EntryLen(segment)))
    <3> DEFINE es == Append(segment.entries, n + 1)
    <3>1. es \in Seq(Nat) /\ Len(es) - 1 = n
      BY <1>2 DEF Segment
    <3> HIDE DEF es
    <3>2. segment' \in Segment /\ segment'.entries = es /\ EntryLen(segment') = EntryLen(segment)
      BY <1>2, <2>2, <3>1 DEF Segment, EntryLen, es
    <3>3. QED
      BY <2>2, <3>1, <3>2, Zenon
  <2>3. QED
    BY <1>3, <2>1, <2>2
<1>5. QED
  BY <1>1, <1>2, <1>4, Zenon DEF TableInv, SegmentsReadBack

LEMMA WriteKeeps == TableInv /\ WriteSegment => TableInv'
<1> SUFFICES ASSUME TableInv, WriteSegment PROVE TableInv'
  OBVIOUS
<1>1. result' = Nothing /\ segment' = segment /\ list' = list
  BY DEF WriteSegment, Making
<1>2. \E avid \in BOOLEAN : segmentFile' = Written(segment, avid)
  BY Zenon DEF WriteSegment
<1>3. QED
  BY <1>1, <1>2, Zenon DEF TableInv, SegmentsReadBack

LEMMA ReadBackKeeps == TableInv /\ ReadBack => TableInv'
<1> SUFFICES ASSUME TableInv, ReadBack PROVE TableInv'
  OBVIOUS
<1>1. /\ segment' = segment /\ list' = list /\ segmentFile' = segmentFile /\ segment \in Segment /\ list \in BOOLEAN
      /\ list /\ segment.entries # <<>> => MayAdd(Len(segment.entries) - 1, EntryLen(segment))
  BY Zenon DEF ReadBack, TableInv
<1>2. PICK avid \in BOOLEAN : segmentFile = Written(segment, avid)
  BY Zenon DEF ReadBack, TableInv
<1>3. PICK byAvid \in BOOLEAN, default \in BOOLEAN :
          LET r == ReadSegment(segmentFile, [avid |-> byAvid, default |-> default])
          IN  result' = [ok |-> r.ok, crashed |-> r.crashed, segment |-> r.segment,
                         avid |-> byAvid, default |-> default]
  BY Zenon DEF ReadBack
<1> DEFINE reader == [avid |-> byAvid, default |-> default]
           r == ReadSegment(segmentFile, reader)
<1>4. reader.avid = byAvid /\ reader.default = default
  OBVIOUS
<1> HIDE DEF reader
<1>5. r = ReadSegment(Written(segment, avid), reader)
  BY <1>2
<1> HIDE DEF r
<1>6. /\ (result'.ok <=> r.ok) /\ (result'.crashed <=> r.crashed) /\ result'.segment = r.segment
      /\ (result'.avid <=> reader.avid) /\ (result'.default <=> reader.default)
  BY <1>3 DEF r, reader
<1>7. LET may == reader.default => MayAdd(Len(segment.entries) - 1, EntryLen(segment))
      IN  /\ ~Fits(EntriesLen(segment)) => segment.entries # <<>>
          /\ ~Fits(DeltasLen(segment)) => ~r.ok /\ ~r.crashed
          /\ Fits(DeltasLen(segment)) /\ ~Fits(EntriesLen(segment)) /\ ~reader.avid => ~r.ok /\ ~r.crashed
          /\ Fits(DeltasLen(segment)) /\ ~Fits(EntriesLen(segment)) /\ reader.avid /\ ~may => ~r.ok /\ r.crashed
          /\ Fits(DeltasLen(segment)) /\ (Fits(EntriesLen(segment)) \/ (reader.avid /\ may))
                 => r.ok /\ ~r.crashed /\ r.segment = Kept(segment)
  BY <1>1, <1>4, <1>5, SegmentRead
<1>8. /\ result'.ok <=> /\ Fits(DeltasLen(segment))
                        /\ \/ Fits(EntriesLen(segment))
                           \/ result'.avid /\ ~result'.crashed
      /\ result'.ok => result'.segment = Kept(segment)
      /\ result'.crashed => ~list /\ result'.avid /\ result'.default /\ ~Fits(EntriesLen(segment))
  <2> DEFINE D == Fits(DeltasLen(segment))
             E == Fits(EntriesLen(segment))
             may == MayAdd(Len(segment.entries) - 1, EntryLen(segment))
             some == segment.entries # <<>>
             kept == r.segment = Kept(segment)
  <2>1. /\ list /\ some => may
        /\ ~E => some
        /\ ~D => ~r.ok /\ ~r.crashed
        /\ D /\ ~E /\ ~reader.avid => ~r.ok /\ ~r.crashed
        /\ D /\ ~E /\ reader.avid /\ ~(reader.default => may) => ~r.ok /\ r.crashed
        /\ D /\ (E \/ (reader.avid /\ (reader.default => may))) => r.ok /\ ~r.crashed /\ kept
    BY <1>1, <1>7, Zenon
  <2> HIDE DEF D, E, may, some, kept
  <2>2. /\ r.ok <=> D /\ (E \/ (reader.avid /\ ~r.crashed))
        /\ r.ok => kept
        /\ r.crashed => ~list /\ reader.avid /\ reader.default /\ ~E
    BY <2>1
  <2>3. QED
    BY <1>6, <2>2, Zenon DEF D, E, kept
<1>9. SegmentsReadBack'
  BY <1>1, <1>8, Zenon DEF SegmentsReadBack
<1>10. QED
  BY <1>1, <1>9, Zenon DEF TableInv

(* A segment is read back as it was made, whenever the lengths of its      *)
(* arrays fit, or is not read at all, however long it is and with however  *)
(* many bits for a length.                                                 *)
THEOREM SegmentsAreReadBack == TableSpec => []SegmentsReadBack
<1>1. TableInv /\ [NextTable]_tableVars => TableInv'
  BY TableStands, CreateKeeps, AddDeltaKeeps, AddIndexKeeps, WriteKeeps, ReadBackKeeps, Zenon DEF NextTable
<1>2. TableInv => SegmentsReadBack
  BY Zenon DEF TableInv
<1>3. QED
  BY TableBegins, <1>1, <1>2, PTL DEF TableSpec
=============================================================================
