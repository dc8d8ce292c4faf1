--------------------------- MODULE PartitionProofs ---------------------------
(***************************************************************************)
(* Proofs that files stay walkable and on the KAG, and that a reader finds *)
(* every partition or the first alone, for every size of KLVs, KAG and     *)
(* header, and any number of partitions; that an updated file counts its   *)
(* bytes as they are; and behind them, that a reader with nothing but      *)
(* bytes to go by finds the header and the footer of every file that is    *)
(* put together as it should be, for keys and windows of any length:       *)
(* behind a run-in of any length, and across the windows in which the file *)
(* is read backwards.                                                      *)
(***************************************************************************)
EXTENDS Partition, PartitionSearch, SequenceTheorems, WellFoundedInduction, TLAPS

-----------------------------------------------------------------------------
(* Every set of naturals has a least one.                                  *)
LEMMA Least == \A S : S \subseteq Nat /\ S # {} => \E n \in S : \A m \in S : n <= m
  <1> SUFFICES ASSUME NEW S, S \subseteq Nat, S # {}
               PROVE  \E n \in S : \A m \in S : n <= m
    OBVIOUS
  <1>1. IsWellFoundedOn(OpToRel(<, Nat), Nat)
    BY NatLessThanWellFounded, Zenon
  <1>2. PICK n \in S : \A m \in S : ~(<<m, n>> \in OpToRel(<, Nat))
    BY <1>1, WFMin, Zenon
  <1>3. \A m \in S : ~(m < n)
    BY <1>2, Zenon DEF OpToRel
  <1> QED BY <1>3

-----------------------------------------------------------------------------
(* What a file is, as a function k of its KLVs and a size s.               *)
Apart(k, s) ==
    /\ DOMAIN k \subseteq Nat /\ s \in Nat
    /\ \A p \in DOMAIN k : k[p].len \in Nat /\ k[p].len >= KeyLen + MinLLen /\ p + k[p].len <= s
    /\ \A p, q \in DOMAIN k : p < q => p + k[p].len <= q

(* From one position to another there is one KLV after the other.          *)
Tiled(k, from, to) ==
    /\ from < to => from \in DOMAIN k
    /\ \A p \in DOMAIN k : from <= p /\ p < to =>
          p + k[p].len = to \/ (p + k[p].len < to /\ p + k[p].len \in DOMAIN k)

(* The file after klv was written at a position, as Write makes it.        *)
WithKLV(k, at, klv) ==
    [p \in {q \in DOMAIN k : q + k[q].len <= at \/ q >= at + klv.len} \cup {at} |->
        IF p = at THEN klv ELSE k[p]]

IsKLV(klv) == klv.len \in Nat /\ klv.len >= KeyLen + MinLLen

LEMMA Lengths == KeyLen \in Nat /\ KeyLen > 0 /\ MinLLen \in 1 .. 9 /\ PackLen \in Nat
  BY PartitionAssumption

LEMMA WriteIs ==
    ASSUME NEW klv, Write(klv)
    PROVE  /\ klvs' = WithKLV(klvs, position, klv)
           /\ position' = position + klv.len
           /\ size' = Larger(size, position + klv.len)
  BY DEF Write, WithKLV, Untouched

LEMMA WithKLVIs ==
    ASSUME NEW k, NEW s, Apart(k, s), NEW at \in Nat, NEW klv, IsKLV(klv), NEW new, new = WithKLV(k, at, klv)
    PROVE  /\ at \in DOMAIN new /\ new[at] = klv
           /\ \A p \in DOMAIN new : p # at => /\ p \in DOMAIN k /\ new[p] = k[p]
                                              /\ p + k[p].len <= at \/ p >= at + klv.len
           /\ \A p \in DOMAIN k : p + k[p].len <= at \/ p >= at + klv.len =>
                                      p \in DOMAIN new /\ new[p] = k[p]
  <1>1. \A p \in DOMAIN k : p + k[p].len <= at \/ p >= at + klv.len => p # at
    BY Lengths DEF Apart, IsKLV
  <1> QED BY <1>1 DEF WithKLV

LEMMA ApartAfter ==
    ASSUME NEW k, NEW s, Apart(k, s), NEW at \in Nat, NEW klv, IsKLV(klv), NEW new, new = WithKLV(k, at, klv)
    PROVE  Apart(new, Larger(s, at + klv.len))
  <1> DEFINE t == Larger(s, at + klv.len)
  <1>1. t \in Nat /\ t >= s /\ t >= at + klv.len /\ klv.len \in Nat
    BY DEF Larger, Apart, IsKLV
  <1> HIDE DEF t
  <1>2. DOMAIN new \subseteq Nat
    BY WithKLVIs DEF Apart
  <1>3. ASSUME NEW p \in DOMAIN new
        PROVE  new[p].len \in Nat /\ new[p].len >= KeyLen + MinLLen /\ p + new[p].len <= t
    <2>1. CASE p = at
      BY <1>1, <2>1, WithKLVIs DEF IsKLV
    <2>2. CASE p # at
      <3>1. p \in DOMAIN k /\ new[p] = k[p]
        BY <2>2, WithKLVIs
      <3>2. p \in Nat /\ k[p].len \in Nat /\ k[p].len >= KeyLen + MinLLen /\ p + k[p].len <= s /\ s \in Nat
        BY <3>1 DEF Apart
      <3> QED BY <1>1, <3>1, <3>2
    <2> QED BY <2>1, <2>2
  <1>4. ASSUME NEW p \in DOMAIN new, NEW q \in DOMAIN new, p < q
        PROVE  p + new[p].len <= q
    <2>1. \A r \in DOMAIN new : r # at => /\ r \in DOMAIN k /\ new[r] = k[r]
                                          /\ r + k[r].len <= at \/ r >= at + klv.len
      BY WithKLVIs
    <2>2. new[at] = klv
      BY WithKLVIs
    <2>3. p \in Nat /\ q \in Nat
      BY <1>2
    <2>4. CASE p = at
      <3>1. q # at /\ q \in DOMAIN k /\ k[q].len \in Nat /\ k[q].len > 0
        BY <2>1, <2>3, <2>4, <1>4, Lengths DEF Apart
      <3> QED BY <2>1, <2>2, <2>3, <2>4, <3>1, <1>1, <1>4
    <2>5. CASE p # at /\ q = at
      <3>1. p \in DOMAIN k /\ new[p] = k[p] /\ (p + k[p].len <= at \/ p >= at + klv.len)
        BY <2>1, <2>5
      <3> QED BY <3>1, <2>3, <2>5, <1>1, <1>4
    <2>6. CASE p # at /\ q # at
      BY <2>1, <2>6, <1>4 DEF Apart
    <2> QED BY <2>4, <2>5, <2>6
  <1>5. Apart(new, t)
    BY <1>1, <1>2, <1>3, <1>4 DEF Apart
  <1> QED BY <1>5 DEF t

(* What was one KLV after the other up to a position still is, with the    *)
(* one that is written there.                                              *)
LEMMA TiledBefore ==
    ASSUME NEW k, NEW s, Apart(k, s), NEW at \in Nat, NEW klv, IsKLV(klv), NEW new, new = WithKLV(k, at, klv),
           Tiled(k, 0, at)
    PROVE  Tiled(new, 0, at + klv.len)
  <1>1. klv.len \in Nat /\ klv.len > 0
    BY Lengths DEF IsKLV
  <1>2. 0 < at => 0 \in DOMAIN new
    <2>1. SUFFICES ASSUME 0 < at PROVE 0 \in DOMAIN new
      OBVIOUS
    <2>2. 0 \in DOMAIN k
      BY <2>1 DEF Tiled
    <2>3. 0 + k[0].len <= at
      BY <2>1, <2>2 DEF Tiled, Apart
    <2> QED BY <2>2, <2>3, WithKLVIs
  <1>3. 0 \in DOMAIN new
    <2>1. at \in DOMAIN new
      BY WithKLVIs
    <2> QED BY <1>2, <2>1
  <1>4. ASSUME NEW p \in DOMAIN new, p < at + klv.len
        PROVE  p + new[p].len = at + klv.len \/ (p + new[p].len < at + klv.len /\ p + new[p].len \in DOMAIN new)
    <2>1. CASE p = at
      BY <2>1, WithKLVIs
    <2>2. CASE p # at
      <3>0. p \in DOMAIN k /\ new[p] = k[p] /\ (p + k[p].len <= at \/ p >= at + klv.len)
        BY <2>2, WithKLVIs
      <3>1. p \in DOMAIN k /\ new[p] = k[p] /\ (p + k[p].len <= at \/ p >= at + klv.len) /\ p \in Nat
        BY <3>0 DEF Apart
      <3>2. k[p].len \in Nat /\ k[p].len > 0
        BY <3>1, Lengths DEF Apart
      <3>3. p + k[p].len <= at /\ p < at
        BY <3>1, <3>2, <1>4, <1>1
      <3>4. CASE p + k[p].len = at
        <4>1. at \in DOMAIN new
          BY WithKLVIs
        <4> QED BY <3>1, <3>4, <4>1, <1>1
      <3>5. CASE p + k[p].len # at
        <4> DEFINE q == p + k[p].len
        <4>1. q < at /\ q \in DOMAIN k /\ q \in Nat
          BY <3>1, <3>2, <3>3, <3>5 DEF Tiled
        <4> HIDE DEF q
        <4>2. q + k[q].len <= at
          BY <4>1 DEF Tiled, Apart
        <4>3. q \in DOMAIN new
          BY <4>1, <4>2, WithKLVIs
        <4> QED BY <3>1, <3>2, <4>1, <4>3, <1>1 DEF q
      <3> QED BY <3>4, <3>5
    <2> QED BY <2>1, <2>2
  <1> QED BY <1>3, <1>4 DEF Tiled

(* What comes after the KLV that is written stays as it is.                *)
LEMMA TiledBehind ==
    ASSUME NEW k, NEW s, Apart(k, s), NEW at \in Nat, NEW klv, IsKLV(klv), NEW new, new = WithKLV(k, at, klv),
           NEW b \in Nat, at + klv.len <= b, Tiled(k, b, s)
    PROVE  Tiled(new, b, s)
  <1>1. klv.len \in Nat /\ klv.len > 0 /\ s \in Nat
    BY Lengths DEF IsKLV, Apart
  <1>2. \A p \in DOMAIN k : p >= b => p \in DOMAIN new /\ new[p] = k[p]
    <2>1. \A p \in DOMAIN k : p >= b => p >= at + klv.len
      BY <1>1 DEF Apart
    <2> QED BY <2>1, WithKLVIs
  <1>3. \A p \in DOMAIN new : p >= b => p \in DOMAIN k /\ new[p] = k[p] /\ p \in Nat /\ k[p].len \in Nat
    <2>1. \A p \in DOMAIN new : p >= b => p # at
      BY <1>1
    <2>2. \A p \in DOMAIN new : p >= b => p \in DOMAIN k /\ new[p] = k[p]
      BY <2>1, WithKLVIs
    <2> QED BY <2>2 DEF Apart
  <1>4. b < s => b \in DOMAIN new
    BY <1>2 DEF Tiled
  <1>5. ASSUME NEW p \in DOMAIN new, b <= p, p < s
        PROVE  p + new[p].len = s \/ (p + new[p].len < s /\ p + new[p].len \in DOMAIN new)
    <2>1. p \in DOMAIN k /\ new[p] = k[p] /\ p \in Nat /\ k[p].len \in Nat
      BY <1>3, <1>5
    <2>2. CASE p + k[p].len = s
      BY <2>1, <2>2
    <2>3. CASE p + k[p].len # s
      <3>1. p + k[p].len < s /\ p + k[p].len \in DOMAIN k /\ p + k[p].len >= b
        BY <2>1, <2>3, <1>5 DEF Tiled
      <3> QED BY <2>1, <3>1, <1>2
    <2> QED BY <2>2, <2>3
  <1> QED BY <1>4, <1>5 DEF Tiled

(* A KLV in the place of one that is as long changes nothing else.         *)
LEMMA TiledAround ==
    ASSUME NEW k, NEW s, Apart(k, s), NEW at \in DOMAIN k, NEW klv, klv.len = k[at].len, NEW new, new = WithKLV(k, at, klv),
           NEW from \in Nat, NEW to \in Nat, Tiled(k, from, to)
    PROVE  /\ DOMAIN new = DOMAIN k
           /\ \A p \in DOMAIN k : p # at => new[p] = k[p]
           /\ Tiled(new, from, to)
  <1>1. at \in Nat /\ IsKLV(klv)
    BY DEF Apart, IsKLV
  <1>2. \A p \in DOMAIN k : p # at => p + k[p].len <= at \/ p >= at + klv.len
    <2> SUFFICES ASSUME NEW p \in DOMAIN k, p # at PROVE p + k[p].len <= at \/ p >= at + klv.len
      OBVIOUS
    <2>1. p \in Nat
      BY DEF Apart
    <2>2. p < at \/ at < p
      BY <1>1, <2>1
    <2> QED BY <2>2 DEF Apart
  <1>3. at \in DOMAIN new /\ new[at] = klv
    BY <1>1, WithKLVIs
  <1>4. \A p \in DOMAIN k : p # at => p \in DOMAIN new /\ new[p] = k[p]
    BY <1>1, <1>2, WithKLVIs
  <1>5. \A p \in DOMAIN new : p # at => p \in DOMAIN k
    BY <1>1, WithKLVIs
  <1>6. DOMAIN new = DOMAIN k
    BY <1>3, <1>4, <1>5
  <1>7. \A p \in DOMAIN k : new[p].len = k[p].len
    BY <1>3, <1>4
  <1> QED BY <1>4, <1>6, <1>7 DEF Tiled

LEMMA TiledJoin ==
    ASSUME NEW k, NEW s, Apart(k, s), NEW b \in Nat, b <= s, Tiled(k, 0, b), Tiled(k, b, s)
    PROVE  Tiled(k, 0, s)
  <1>1. s \in Nat /\ \A p \in DOMAIN k : p \in Nat /\ k[p].len \in Nat
    BY DEF Apart
  <1>2. 0 < s => 0 \in DOMAIN k
    BY <1>1 DEF Tiled
  <1>3. ASSUME NEW p \in DOMAIN k, p < s
        PROVE  p + k[p].len = s \/ (p + k[p].len < s /\ p + k[p].len \in DOMAIN k)
    <2>1. CASE p >= b
      BY <1>3, <2>1 DEF Tiled
    <2>2. CASE ~(p >= b)
      BY <1>1, <1>3, <2>2 DEF Tiled
    <2> QED BY <2>1, <2>2
  <1> QED BY <1>2, <1>3 DEF Tiled

LEMMA TiledSplit ==
    ASSUME NEW k, NEW s, Apart(k, s), NEW p \in Nat, p <= s, p < s => p \in DOMAIN k, Tiled(k, 0, s)
    PROVE  Tiled(k, 0, p) /\ Tiled(k, p, s)
  <1>1. s \in Nat /\ \A q \in DOMAIN k : q \in Nat /\ k[q].len \in Nat
    BY DEF Apart
  <1>2. Tiled(k, p, s)
    BY <1>1 DEF Tiled
  <1>3. ASSUME NEW q \in DOMAIN k, q < p
        PROVE  q + k[q].len = p \/ (q + k[q].len < p /\ q + k[q].len \in DOMAIN k)
    <2>1. q + k[q].len <= p
      BY <1>1, <1>3 DEF Apart
    <2> QED BY <1>1, <1>3, <2>1 DEF Tiled
  <1> QED BY <1>1, <1>2, <1>3 DEF Tiled
-----------------------------------------------------------------------------
(* Lengths of fill.                                                        *)
LEMMA LLenIs == \A n \in Int : LLen(n) \in 1 .. 9 /\ LLen(n) >= MinLLen
  BY PartitionAssumption DEF LLen, Larger

LEMMA AtLeast ==
    ASSUME NEW a \in Nat, NEW b \in Nat \ {0}
    PROVE  a * b \in Nat /\ a * b >= a
  <1>1. a * b = a * (b - 1) + a
    OBVIOUS
  <1>2. a * (b - 1) \in Nat
    OBVIOUS
  <1> QED BY <1>1, <1>2

LEMMA DivMod ==
    ASSUME NEW a \in Nat, NEW m \in Nat \ {0}
    PROVE  /\ a % m \in 0 .. m - 1 /\ a \div m \in Nat
           /\ a = m * (a \div m) + (a % m)
  OBVIOUS

LEMMA TimesMod ==
    ASSUME NEW a \in Nat, NEW m \in Nat \ {0}
    PROVE  (m * a) % m = 0
  OBVIOUS

(* There is a whole number of KAG units that makes room, of which FillSize *)
(* takes the smallest.                                                     *)
LEMMA FillSizeIs ==
    ASSUME NEW least \in Int, least >= -KeyLen, NEW kagSize \in Nat \ {0}
    PROVE  /\ FillSize(least, kagSize) \in Nat
           /\ FillSize(least, kagSize) >= MinLLen
           /\ \E n \in Nat : FillSize(least, kagSize) = least + n * kagSize
  <1> DEFINE After(n) == least + n * kagSize
             Fits(n) == After(n) >= 0 /\ After(n) >= LLen(After(n))
             fitting == {n \in 0 .. KeyLen + 10 : Fits(n)}
             last == KeyLen + 10
  <1>1. last \in Nat /\ last * kagSize \in Nat /\ last * kagSize >= last
    BY Lengths, AtLeast
  <1>2. After(last) \in Int /\ After(last) >= 10
    BY <1>1, Lengths
  <1>3. Fits(last)
    <2> HIDE DEF After, last
    <2> QED BY <1>2, LLenIs
  <1>4. \A n \in Nat : n * kagSize \in Nat /\ After(n) \in Int
    BY AtLeast
  <1> HIDE DEF After
  <1>5. last \in fitting
    BY <1>1, <1>3, Lengths
  <1>6. fitting \subseteq Nat
    BY Lengths
  <1>7. PICK n \in fitting : \A m \in fitting : n <= m
    <2> HIDE DEF fitting
    <2> QED BY <1>5, <1>6, Least
  <1>8. n \in 0 .. KeyLen + 10 /\ Fits(n)
    BY <1>7
  <1>9. \A m \in 0 .. n - 1 : ~Fits(m)
    <2> SUFFICES ASSUME NEW m \in 0 .. n - 1, Fits(m) PROVE FALSE
      OBVIOUS
    <2>1. m \in fitting /\ m \in Nat /\ n \in Nat /\ m < n
      BY <1>6, <1>7, <1>8, Lengths
    <2> QED BY <1>7, <2>1
  <1> DEFINE chosen == CHOOSE m \in 0 .. KeyLen + 10 : Fits(m) /\ \A l \in 0 .. m - 1 : ~Fits(l)
  <1>10. chosen \in 0 .. KeyLen + 10 /\ Fits(chosen)
    <2> HIDE DEF Fits
    <2> QED BY <1>8, <1>9
  <1>11. FillSize(least, kagSize) = After(chosen)
    BY DEF FillSize, After
  <1> HIDE DEF chosen
  <1>12. After(chosen) \in Int /\ After(chosen) >= LLen(After(chosen)) /\ LLen(After(chosen)) >= MinLLen
         /\ LLen(After(chosen)) \in Nat /\ After(chosen) >= 0
    BY <1>4, <1>10, LLenIs, Lengths
  <1>13. chosen \in Nat
    BY <1>10, Lengths
  <1>14. FillSize(least, kagSize) = least + chosen * kagSize
    BY <1>11 DEF After
  <1> QED BY <1>11, <1>12, <1>13, <1>14, Lengths

(* What mxf_allocate_space_to_kag does: nothing, or one KLV.  Without a    *)
(* space of its own the position is on the KAG of the partition afterwards.*)
LEMMA Allocating ==
    ASSUME NEW partition, NEW space \in Nat, partition.kagSize \in Nat \ {0},
           partition.thisPartition \in Nat, position \in Nat, partition.thisPartition <= position,
           AllocateSpaceToKag(partition, space)
    PROVE  /\ \/ UNCHANGED fileVars
              \/ \E len \in Nat : len >= KeyLen + MinLLen /\ Write(KLV("fill", len, <<>>))
           /\ space = 0 => \A pos : pos = position' => (pos - partition.thisPartition) % partition.kagSize = 0
  <1> DEFINE kag == partition.kagSize
             this == partition.thisPartition
             off == Misalignment(partition, space)
             toKag == IF kag > 1 THEN kag - off ELSE 0
             least == space - KeyLen + toKag
             fillSize == FillSize(least, kag)
  <1>1. kag \in Nat \ {0} /\ this \in Nat /\ position + space - this \in Nat
    OBVIOUS
  <1>2. off \in 0 .. kag - 1
    BY <1>1, DivMod DEF Misalignment
  <1>3. least \in Int /\ least >= -KeyLen
    BY <1>1, <1>2, Lengths
  <1>4. /\ fillSize \in Nat /\ fillSize >= MinLLen
        /\ \E n \in Nat : fillSize = least + n * kag
    <2> HIDE DEF least, kag
    <2> QED BY <1>1, <1>3, FillSizeIs
  <1>5. CASE space = 0 /\ (kag = 1 \/ off = 0)
    <2>1. UNCHANGED fileVars
      BY <1>5 DEF AllocateSpaceToKag
    <2>2. position' = position /\ position + space - this = position - this
      BY <2>1, <1>1, <1>5 DEF fileVars
    <2>3. kag = 1 => (position - this) % kag = 0
      BY <1>1, <2>2
    <2>4. off = 0 => (position - this) % kag = 0
      BY <2>2 DEF Misalignment
    <2> QED BY <1>5, <2>1, <2>2, <2>3, <2>4
  <1>6. CASE ~(space = 0 /\ (kag = 1 \/ off = 0))
    <2> DEFINE len == KeyLen + fillSize
    <2>1. Write(KLV("fill", len, <<>>))
      BY <1>6 DEF AllocateSpaceToKag
    <2>2. len \in Nat /\ len >= KeyLen + MinLLen
      BY <1>4, Lengths
    <2>3. position' = position + len
      BY <2>1, WriteIs DEF KLV
    <2>4. ASSUME space = 0, NEW pos, pos = position' PROVE (pos - this) % kag = 0
      <3>1. kag > 1 /\ off # 0 /\ toKag = kag - off
        <4>1. kag # 1 /\ off # 0
          BY <1>6, <2>4
        <4> HIDE DEF kag, off
        <4> QED BY <1>1, <4>1
      <3> DEFINE a == position - this
      <3>2. a \in Nat /\ off = a % kag
        BY <1>1, <2>4 DEF Misalignment
      <3> DEFINE q == a \div kag
      <3>3. q \in Nat /\ a = kag * q + off
        <4> HIDE DEF a, kag, off
        <4> QED BY <1>1, <3>2, DivMod
      <3>4. PICK n \in Nat : fillSize = least + n * kag
        BY <1>4
      <3>5. position + len = this + a + kag - off + n * kag
        <4>1. n * kag \in Nat
          BY <1>1, <3>4, AtLeast
        <4> HIDE DEF off, fillSize, kag
        <4> QED BY <2>4, <3>1, <3>4, <4>1, <1>1, <1>2, Lengths
      <3> HIDE DEF q, a, off, kag, this, fillSize, len
      <3>6. (position + len) - this = kag * q + kag + n * kag
        <4>1. n * kag \in Nat /\ kag * q \in Nat
          BY <1>1, <3>3, <3>4, AtLeast
        <4>2. off \in Int
          BY <1>1, <1>2
        <4> DEFINE x == n * kag
                   y == kag * q
        <4>3. x \in Int /\ y \in Int /\ kag \in Int /\ this \in Int /\ a = y + off
              /\ position + len = this + a + kag - off + x
          BY <1>1, <3>3, <3>5, <4>1
        <4>4. position \in Int /\ len \in Int
          BY <2>2
        <4> HIDE DEF x, y
        <4>5. (position + len) - this = y + kag + x
          BY <4>2, <4>3, <4>4
        <4> QED BY <4>5 DEF x, y
      <3>7. kag * q + kag + n * kag = kag * (q + 1 + n)
        BY <1>1, <3>3
      <3>8. (kag * (q + 1 + n)) % kag = 0
        BY <1>1, <3>3, TimesMod
      <3>9. (position + len) - this = kag * (q + 1 + n)
        BY <3>6, <3>7, Zenon
      <3>10. ((position + len) - this) % kag = 0
        BY <3>8, <3>9, Zenon
      <3>11. pos = position + len
        BY <2>3, <2>4
      <3> QED BY <3>10, <3>11, Zenon
    <2> QED BY <2>1, <2>2, <2>4
  <1> QED BY <1>5, <1>6
-----------------------------------------------------------------------------
(* The invariant.                                                          *)
At(e) == partitions[e].thisPartition
PackSize == KLVLen(PackLen)

(* The partitions whose packs are in the file.                             *)
Written == IF pc = "appended" THEN LastPartition - 1 ELSE LastPartition
HasFooter == LastPartition > 0 /\ FooterAppended
Updating == pc \in {"update", "rewrite"}

(* Header metadata that is written over itself has gone beyond its place,  *)
(* or the program has given up.                                            *)
Overrun == pc \in {"failed", "assert"} \/ (InPlace /\ position > BodyOffset)

(* The header partition is complete up to BodyOffset.                      *)
HeaderDone == LastPartition > 1 \/ (LastPartition = 1 /\ (pc = "filled" \/ Updating))
HeaderWritten == cur = 1 /\ (region = "index" \/ (region = "header" /\ stage # "marked"))

PartitionPacks ==
    [kind : {"header", "body", "footer"}, kagSize : KagSizes, thisPartition : Nat,
     previousPartition : Nat, footerPartition : Nat,
     byteCount : [Regions -> Nat], markInPos : [Regions -> Marks]]

KLVsApart == Apart(klvs, size) /\ position \in Nat /\ position <= size

InOrder ==
    /\ partitions \in Seq(PartitionPacks)
    /\ \A e \in 1 .. LastPartition :
          /\ partitions[e].kind = "header" <=> e = 1
          /\ partitions[e].kind = "footer" => e = LastPartition
    /\ LastPartition > 0 => At(1) = 0
    /\ \A e, j \in 1 .. Written : e < j => At(e) + PackSize <= At(j)
    /\ \A e \in 1 .. Written : At(e) + PackSize <= size
    /\ \A e \in 2 .. Written : BodyOffset <= At(e)
    /\ HeaderDone => BodyOffset <= size

Control ==
    /\ pc \in {"filled", "appended", "packed", "content", "rip", "update", "rewrite", "failed", "assert"}
    /\ region \in {"none", "pack", "header", "index", "essence"}
    /\ stage \in {"marked", "written", "filled", "ended"}
    /\ back \in {"filled", "rip"}
    /\ cur \in 0 .. LastPartition /\ next \in 0 .. LastPartition + 1
    /\ stage # "ended" => region \in Regions
    /\ pc \in {"filled", "appended", "packed", "rip"} => stage = "ended" /\ cur = LastPartition
    /\ pc \in {"appended", "packed", "content", "rip", "update", "rewrite"} => LastPartition > 0
    /\ pc = "appended" => At(LastPartition) = 0
    /\ pc = "content" => cur \in {1, LastPartition}
    /\ pc = "rip" \/ back = "rip" => HasFooter
    /\ back = "rip" => Updating \/ InPlace \/ Overrun
    /\ Updating => next > 0 /\ cur = LastPartition /\ stage = "ended"
    /\ Updating /\ HasFooter => back = "rip"
    /\ pc = "rewrite" => next <= LastPartition /\ position = At(next)

Positions ==
    /\ pc \in {"filled", "appended", "packed", "rip"} => position = size
    /\ pc = "content" =>
          /\ cur = LastPartition => position = size
          /\ At(cur) + PackSize <= position
          /\ stage # "ended" => partitions[cur].markInPos[region] \in 0 .. position
    /\ pc = "content" /\ cur = 1 =>
          /\ region \in {"pack", "header", "index"}
          /\ region = "index" => HeaderHasIndex
          /\ stage = "filled" => region = LastOfHeader
          /\ region = LastOfHeader /\ stage \in {"filled", "ended"} => position = BodyOffset

(* What has been written since the last pack is a whole number of units of *)
(* the KAG, whenever another partition may come.                           *)
Aligned ==
    Written > 0 /\ (pc \in {"filled", "appended"} \/ (back = "filled" /\ (Updating \/ (InPlace /\ ~Overrun)))) =>
        (size - At(Written)) % partitions[Written].kagSize = 0

(* Before and behind the place where header metadata is written over       *)
(* itself, and otherwise everywhere, the file is whole.                    *)
Whole ==
    ~Overrun =>
        /\ \A e \in 1 .. Written : At(e) \in Packs
        /\ InPlace => Tiled(klvs, 0, position) /\ Tiled(klvs, BodyOffset, size)
        /\ ~InPlace => Tiled(klvs, 0, size)
        /\ HeaderDone /\ BodyOffset < size => BodyOffset \in DOMAIN klvs
        /\ HeaderDone => \E p \in DOMAIN klvs : klvs[p].what = "header"
        /\ pc = "content" /\ HeaderWritten =>
              \E p \in DOMAIN klvs : klvs[p].what = "header" /\ p + klvs[p].len <= position

(* Whatever is lost, the packs that are in the file are of partitions, and *)
(* the first is there.                                                     *)
PacksTrue ==
    /\ Written > 0 => 0 \in Packs
    /\ \A p \in Packs :
          /\ klvs[p].len = PackSize
          /\ klvs[p].holds.thisPartition = p
          /\ klvs[p].holds.footerPartition # 0 =>
                HasFooter /\ klvs[p].holds.footerPartition = At(LastPartition)
          /\ \E e \in 1 .. Written : p = At(e)

RIPTrue ==
    \A p \in DOMAIN klvs : klvs[p].what = "rip" =>
        /\ HasFooter /\ pc # "appended"
        /\ klvs[p].holds = [e \in 1 .. LastPartition |-> At(e)]

RIPThere == (pc = "rip" \/ back = "rip") /\ ~Overrun => RIPs # {}

(* While the packs are written again those before next are linked; once    *)
(* that is done the header pack leads to the footer, and all of them are.  *)
Previous(e) == IF e = 1 THEN 0 ELSE At(e - 1)
Links ==
    /\ LastPartition > 0 => partitions[1].previousPartition = 0
    /\ \A e \in 1 .. LastPartition :
          partitions[e].footerPartition # 0 =>
              HasFooter /\ partitions[e].footerPartition = At(LastPartition)
    /\ Updating => \A e \in 1 .. LastPartition : partitions[e].previousPartition = Previous(e)
    /\ Updating => \A e \in 1 .. next - 1 : klvs[At(e)].holds.previousPartition = Previous(e)
    /\ Written > 0 /\ ~Updating /\ klvs[0].holds.footerPartition # 0 =>
          \A e \in 1 .. LastPartition :
              At(e) \in Packs => klvs[At(e)].holds.previousPartition = Previous(e)

(* The file has nothing in it before the first pack.                       *)
Empty == Written = 0 => size = 0

IInv ==
    /\ KLVsApart /\ Empty /\ InOrder /\ Control /\ Positions /\ Aligned
    /\ Whole /\ PacksTrue /\ RIPTrue /\ RIPThere /\ Links

(* What the rest says of numbers.                                          *)
Numbers ==
    /\ LastPartition \in Nat /\ Written \in Nat /\ Written <= LastPartition
    /\ LastPartition = 0 => Written = 0
    /\ size \in Nat /\ position \in Nat /\ position <= size /\ BodyOffset \in Nat
    /\ DOMAIN partitions = 1 .. LastPartition
    /\ \A e \in 1 .. LastPartition :
          /\ partitions[e].kind \in {"header", "body", "footer"}
          /\ partitions[e].kagSize \in Nat \ {0}
          /\ At(e) \in Nat /\ partitions[e].previousPartition \in Nat /\ partitions[e].footerPartition \in Nat
          /\ partitions[e].byteCount \in [Regions -> Nat] /\ partitions[e].markInPos \in [Regions -> Marks]
    /\ PackSize \in Nat /\ PackSize >= KeyLen + MinLLen /\ PackSize > 0
    /\ DOMAIN klvs \subseteq Nat
    /\ \A p \in DOMAIN klvs : klvs[p].len \in Nat /\ klvs[p].len > 0 /\ p + klvs[p].len <= size

LEMMA SamePackSize == PackSize' = PackSize
  OBVIOUS

LEMMA NumbersHold == IInv => Numbers
  <1> SUFFICES ASSUME IInv PROVE Numbers
    OBVIOUS
  <1>1. LastPartition \in Nat /\ DOMAIN partitions = 1 .. LastPartition
        /\ \A e \in 1 .. LastPartition : partitions[e] \in PartitionPacks
    BY DEF IInv, InOrder, LastPartition
  <1>2. Written \in Nat /\ Written <= LastPartition /\ (LastPartition = 0 => Written = 0)
    BY <1>1 DEF IInv, Control, Written
  <1>3. \A e \in 1 .. LastPartition :
          /\ partitions[e].kind \in {"header", "body", "footer"}
          /\ partitions[e].kagSize \in Nat \ {0}
          /\ At(e) \in Nat /\ partitions[e].previousPartition \in Nat /\ partitions[e].footerPartition \in Nat
          /\ partitions[e].byteCount \in [Regions -> Nat] /\ partitions[e].markInPos \in [Regions -> Marks]
    BY <1>1, PartitionAssumption DEF PartitionPacks, At
  <1>4. PackSize \in Nat /\ PackSize >= KeyLen + MinLLen /\ PackSize > 0
    BY Lengths, LLenIs DEF PackSize, KLVLen
  <1>5. /\ DOMAIN klvs \subseteq Nat /\ size \in Nat /\ position \in Nat /\ position <= size
        /\ \A p \in DOMAIN klvs : klvs[p].len \in Nat /\ klvs[p].len > 0 /\ p + klvs[p].len <= size
    BY Lengths DEF IInv, KLVsApart, Apart
  <1> QED BY <1>1, <1>2, <1>3, <1>4, <1>5, PartitionAssumption DEF Numbers
-----------------------------------------------------------------------------
(* What steps do to the file.                                              *)

(* Something that is neither a pack nor a RIP is added at the end.         *)
Extended ==
    /\ Apart(klvs', size') /\ position' = size' /\ size' \in Nat /\ size <= size'
    /\ Tiled(klvs', 0, size')
    /\ size < size' => size \in DOMAIN klvs'
    /\ \A p \in DOMAIN klvs : p \in DOMAIN klvs' /\ klvs'[p] = klvs[p]
    /\ \A p \in DOMAIN klvs' : klvs'[p].what \in {"pack", "rip"} => p \in DOMAIN klvs

(* Packs and RIPs may be lost, but for the first pack, and none is new.    *)
OnlyLost ==
    /\ \A p \in DOMAIN klvs' : klvs'[p].what \in {"pack", "rip"} => p \in DOMAIN klvs /\ klvs'[p] = klvs[p]
    /\ 0 \in DOMAIN klvs => 0 \in DOMAIN klvs' /\ klvs'[0] = klvs[0]

PacksOnlyLost ==
    /\ \A p \in DOMAIN klvs' : klvs'[p].what = "pack" => p \in DOMAIN klvs /\ klvs'[p] = klvs[p]
    /\ 0 \in DOMAIN klvs => 0 \in DOMAIN klvs' /\ klvs'[0] = klvs[0]

LEMMA JustPacks == OnlyLost => PacksOnlyLost
  BY DEF OnlyLost, PacksOnlyLost

LEMMA ExtendedOnlyLost == Extended => OnlyLost /\ PacksOnlyLost
  BY DEF Extended, OnlyLost, PacksOnlyLost

(* klv is added at the end, whatever it is.                                *)
Added(klv) ==
    /\ Apart(klvs', size') /\ position' = size' /\ size' \in Nat /\ size < size' /\ size' = size + klv.len
    /\ Tiled(klvs', 0, size')
    /\ size \in DOMAIN klvs' /\ klvs'[size] = klv /\ size \notin DOMAIN klvs
    /\ \A p \in DOMAIN klvs : p \in DOMAIN klvs' /\ klvs'[p] = klvs[p]
    /\ \A p \in DOMAIN klvs' : p # size => p \in DOMAIN klvs

LEMMA Adding ==
    ASSUME IInv, position = size, ~InPlace, ~Overrun, NEW klv, IsKLV(klv), Write(klv)
    PROVE  Added(klv)
  <1>1. klvs' = WithKLV(klvs, position, klv) /\ position' = position + klv.len
        /\ size' = Larger(size, position + klv.len)
    BY WriteIs
  <1>2. klv.len \in Nat /\ klv.len > 0
    BY Lengths DEF IsKLV
  <1>3. size \in Nat /\ Apart(klvs, size) /\ Tiled(klvs, 0, size)
    BY NumbersHold DEF IInv, KLVsApart, Numbers, Whole
  <1>4. size' = size + klv.len /\ position' = size + klv.len /\ size' \in Nat /\ size < size'
    BY <1>1, <1>2, <1>3 DEF Larger
  <1>5. Apart(klvs', size')
    BY <1>1, <1>2, <1>3, ApartAfter
  <1>6. Tiled(klvs', 0, size + klv.len)
    BY <1>1, <1>2, <1>3, TiledBefore
  <1>7. size \in DOMAIN klvs' /\ klvs'[size] = klv
    <2>1. position \in DOMAIN klvs' /\ klvs'[position] = klv
      BY <1>1, <1>2, <1>3, WithKLVIs
    <2> QED BY <2>1
  <1>8. \A p \in DOMAIN klvs' : p # size => p \in DOMAIN klvs
    BY <1>1, <1>2, <1>3, WithKLVIs
  <1>9. \A p \in DOMAIN klvs : p \in DOMAIN klvs' /\ klvs'[p] = klvs[p]
    <2>1. \A p \in DOMAIN klvs : p + klvs[p].len <= size
      BY <1>3 DEF Apart
    <2> QED BY <2>1, <1>1, <1>2, <1>3, WithKLVIs
  <1>10. size \notin DOMAIN klvs
    BY <1>3, NumbersHold DEF Numbers
  <1> QED BY <1>4, <1>5, <1>6, <1>7, <1>8, <1>9, <1>10 DEF Added

LEMMA Extending ==
    ASSUME IInv, position = size, ~InPlace, ~Overrun,
           NEW what, what \notin {"pack", "rip"}, NEW len \in Nat, len >= KeyLen + MinLLen,
           Write(KLV(what, len, <<>>))
    PROVE  Extended /\ size \in DOMAIN klvs' /\ klvs'[size] = KLV(what, len, <<>>) /\ size' = size + len
  <1> DEFINE klv == KLV(what, len, <<>>)
  <1>1. IsKLV(klv) /\ klv.len = len /\ klv.what = what
    BY DEF IsKLV, KLV
  <1> HIDE DEF klv
  <1>2. Added(klv)
    <2>1. Write(klv)
      BY DEF klv
    <2> QED BY <1>1, <2>1, Adding
  <1>3. size \in Nat
    BY NumbersHold DEF Numbers
  <1> QED BY <1>1, <1>2, <1>3 DEF Added, Extended, klv

LEMMA NotExtending ==
    ASSUME IInv, position = size, ~InPlace, ~Overrun, UNCHANGED fileVars
    PROVE  Extended
  BY NumbersHold DEF IInv, KLVsApart, Numbers, Whole, Extended, fileVars

LEMMA Filling ==
    ASSUME IInv, position = size, ~InPlace, ~Overrun, cur \in 1 .. Written, NEW space \in Nat,
           AllocateSpaceToKag(partitions[cur], space)
    PROVE  /\ Extended
           /\ space = 0 => \A pos : pos = position' => (pos - At(cur)) % partitions[cur].kagSize = 0
  <1>1. /\ partitions[cur].kagSize \in Nat \ {0} /\ At(cur) \in Nat /\ position \in Nat /\ At(cur) <= position
    <2>1. Numbers /\ At(cur) + PackSize <= size
      BY NumbersHold DEF IInv, InOrder
    <2> QED BY <2>1 DEF Numbers
  <1>2. partitions[cur].thisPartition \in Nat /\ partitions[cur].thisPartition <= position
    BY <1>1 DEF At
  <1>3. /\ \/ UNCHANGED fileVars
           \/ \E len \in Nat : len >= KeyLen + MinLLen /\ Write(KLV("fill", len, <<>>))
        /\ space = 0 => \A pos : pos = position' =>
                (pos - partitions[cur].thisPartition) % partitions[cur].kagSize = 0
    BY <1>1, <1>2, Allocating
  <1>4. Extended
    <2>1. CASE UNCHANGED fileVars
      BY <2>1, NotExtending
    <2>2. CASE \E len \in Nat : len >= KeyLen + MinLLen /\ Write(KLV("fill", len, <<>>))
      <3>1. PICK len \in Nat : len >= KeyLen + MinLLen /\ Write(KLV("fill", len, <<>>))
        BY <2>2
      <3> QED BY <3>1, Extending
    <2> QED BY <1>3, <2>1, <2>2
  <1> QED BY <1>3, <1>4 DEF At

(* Something is written over header metadata, up to BodyOffset or beyond.  *)
Overwritten ==
    /\ Apart(klvs', size') /\ position' \in Nat /\ position <= position' /\ position' <= size' /\ size <= size'
    /\ OnlyLost
    /\ \A p \in DOMAIN klvs : p + klvs[p].len <= position => p \in DOMAIN klvs' /\ klvs'[p] = klvs[p]
    /\ position' <= BodyOffset =>
          /\ size' = size
          /\ Tiled(klvs', 0, position') /\ Tiled(klvs', BodyOffset, size)
          /\ \A p \in DOMAIN klvs : p >= BodyOffset => p \in DOMAIN klvs' /\ klvs'[p] = klvs[p]

LEMMA Overwriting ==
    ASSUME IInv, InPlace, cur = 1,
           NEW what, what \notin {"pack", "rip"}, NEW len \in Nat, len >= KeyLen + MinLLen,
           Write(KLV(what, len, <<>>))
    PROVE  /\ Overwritten
           /\ position \in DOMAIN klvs' /\ klvs'[position] = KLV(what, len, <<>>) /\ position' = position + len
  <1> DEFINE klv == KLV(what, len, <<>>)
  <1>1. IsKLV(klv) /\ klv.len = len /\ klv.what = what
    BY DEF IsKLV, KLV
  <1>2. klvs' = WithKLV(klvs, position, klv) /\ position' = position + klv.len
        /\ size' = Larger(size, position + klv.len)
    BY WriteIs
  <1> HIDE DEF klv
  <1>3. size \in Nat /\ position \in Nat /\ position <= size /\ BodyOffset \in Nat /\ Apart(klvs, size)
    BY NumbersHold DEF IInv, KLVsApart, Numbers
  <1>4. position' = position + len /\ position' \in Nat /\ size' \in Nat /\ position <= position'
        /\ position' <= size' /\ size <= size' /\ (position' <= size => size' = size)
    BY <1>1, <1>2, <1>3 DEF Larger
  <1>5. Apart(klvs', size')
    BY <1>1, <1>2, <1>3, ApartAfter
  <1>6. position \in DOMAIN klvs' /\ klvs'[position] = klv
    BY <1>1, <1>2, <1>3, WithKLVIs
  <1>7. \A p \in DOMAIN klvs' : p # position => p \in DOMAIN klvs /\ klvs'[p] = klvs[p]
    BY <1>1, <1>2, <1>3, WithKLVIs
  <1>8. \A p \in DOMAIN klvs : p + klvs[p].len <= position \/ p >= position + len =>
            p \in DOMAIN klvs' /\ klvs'[p] = klvs[p]
    BY <1>1, <1>2, <1>3, WithKLVIs
  <1>9. OnlyLost
    <2>1. Written > 0 /\ At(1) = 0 /\ At(cur) + PackSize <= position /\ PacksTrue
      BY NumbersHold DEF IInv, InOrder, Positions, Control, InPlace, Written, Numbers
    <2>2. 0 \in DOMAIN klvs /\ klvs[0].len = PackSize
      BY <2>1 DEF PacksTrue, Packs
    <2>3. PackSize \in Nat
      BY NumbersHold DEF Numbers
    <2>4. 0 + klvs[0].len <= position
      BY <2>1, <2>2, <2>3
    <2>5. 0 \in DOMAIN klvs' /\ klvs'[0] = klvs[0]
      BY <2>2, <2>4, <1>8
    <2> QED BY <2>5, <1>1, <1>6, <1>7 DEF OnlyLost
  <1>10. ASSUME position' <= BodyOffset
         PROVE  /\ size' = size
                /\ Tiled(klvs', 0, position') /\ Tiled(klvs', BodyOffset, size)
                /\ \A p \in DOMAIN klvs : p >= BodyOffset => p \in DOMAIN klvs' /\ klvs'[p] = klvs[p]
    <2>1. ~Overrun
      BY <1>3, <1>4, <1>10 DEF Overrun, InPlace
    <2>2. Tiled(klvs, 0, position) /\ Tiled(klvs, BodyOffset, size)
      BY <2>1 DEF IInv, Whole
    <2>3. BodyOffset <= size
      BY <1>3, NumbersHold DEF IInv, InOrder, HeaderDone, InPlace, Numbers
    <2>4. size' = size
      BY <1>3, <1>4, <1>10, <2>3
    <2>5. position + klv.len <= BodyOffset
      BY <1>2, <1>10
    <2>6. Tiled(klvs', 0, position + klv.len)
      BY <1>1, <1>2, <1>3, <2>2, TiledBefore
    <2>7. Tiled(klvs', BodyOffset, size)
      BY <1>1, <1>2, <1>3, <2>2, <2>5, TiledBehind
    <2>8. \A p \in DOMAIN klvs : p >= BodyOffset => p >= position + len
      BY <1>1, <1>3, <2>5 DEF Apart
    <2> QED BY <2>4, <2>6, <2>7, <2>8, <1>2, <1>8
  <1> QED BY <1>1, <1>4, <1>5, <1>6, <1>8, <1>9, <1>10 DEF Overwritten, klv
-----------------------------------------------------------------------------
(* What stays true when partitions are only marked and packs only lost.    *)
SameMembers ==
    /\ LastPartition' = LastPartition
    /\ partitions' \in Seq(PartitionPacks)
    /\ \A e \in 1 .. LastPartition :
          /\ partitions'[e].kind = partitions[e].kind
          /\ partitions'[e].kagSize = partitions[e].kagSize
          /\ partitions'[e].thisPartition = partitions[e].thisPartition
          /\ partitions'[e].previousPartition = partitions[e].previousPartition
          /\ partitions'[e].footerPartition = partitions[e].footerPartition

SamePlaces ==
    /\ LastPartition' = LastPartition
    /\ partitions' \in Seq(PartitionPacks)
    /\ \A e \in 1 .. LastPartition :
          /\ partitions'[e].kind = partitions[e].kind
          /\ partitions'[e].kagSize = partitions[e].kagSize
          /\ partitions'[e].thisPartition = partitions[e].thisPartition

LEMMA PlacesStay == SameMembers => SamePlaces
  BY DEF SameMembers, SamePlaces

LEMMA UnchangedMembers ==
    ASSUME IInv, UNCHANGED partitions
    PROVE  SameMembers
  BY DEF IInv, InOrder, SameMembers, LastPartition

LEMMA SameAt ==
    ASSUME IInv, SamePlaces
    PROVE  /\ \A e \in 1 .. LastPartition : (At(e))' = At(e)
           /\ HasFooter' = HasFooter
           /\ \A e \in 1 .. LastPartition : (Previous(e))' = Previous(e)
  <1>1. \A e \in 1 .. LastPartition : (At(e))' = At(e)
    BY DEF SamePlaces, At
  <1>2. HasFooter' = HasFooter
    BY NumbersHold DEF SamePlaces, HasFooter, FooterAppended, Numbers
  <1>3. \A e \in 1 .. LastPartition : (Previous(e))' = Previous(e)
    BY <1>1, NumbersHold DEF Previous, Numbers
  <1> QED BY <1>1, <1>2, <1>3

LEMMA KeepOrder ==
    ASSUME IInv, SamePlaces, Written' = Written, size <= size', size' \in Nat,
           HeaderDone' => BodyOffset <= size'
    PROVE  InOrder'
  <1>1. LastPartition' = LastPartition /\ partitions' \in Seq(PartitionPacks)
    BY DEF SamePlaces
  <1>2. \A e \in 1 .. LastPartition : (At(e))' = At(e)
    BY SameAt
  <1>3. Numbers /\ InOrder
    BY NumbersHold DEF IInv
  <1>4. 1 .. Written \subseteq 1 .. LastPartition /\ 2 .. Written \subseteq 1 .. LastPartition
    BY <1>3 DEF Numbers
  <1>5. PackSize' = PackSize /\ PackSize \in Nat
    BY <1>3, SamePackSize DEF Numbers
  <1>6. \A e \in 1 .. LastPartition :
          /\ partitions'[e].kind = "header" <=> e = 1
          /\ partitions'[e].kind = "footer" => e = LastPartition
    BY <1>3 DEF SamePlaces, InOrder
  <1>7. LastPartition > 0 => (At(1))' = 0
    BY <1>2, <1>3 DEF InOrder, Numbers
  <1>8. \A e, j \in 1 .. Written : e < j => (At(e))' + PackSize <= (At(j))'
    BY <1>2, <1>3, <1>4 DEF InOrder
  <1>9. \A e \in 1 .. Written : (At(e))' + PackSize <= size'
    BY <1>2, <1>3, <1>4 DEF InOrder, Numbers
  <1>10. \A e \in 2 .. Written : BodyOffset <= (At(e))'
    BY <1>2, <1>3, <1>4 DEF InOrder
  <1> QED BY <1>1, <1>5, <1>6, <1>7, <1>8, <1>9, <1>10 DEF InOrder

LEMMA KeepPacks ==
    ASSUME IInv, SamePlaces, Written' = Written, PacksOnlyLost
    PROVE  PacksTrue'
  <1>1. Numbers /\ PacksTrue
    BY NumbersHold DEF IInv
  <1>2. PackSize' = PackSize
    BY SamePackSize
  <1>3. \A p \in Packs' : p \in Packs /\ klvs'[p] = klvs[p]
    BY DEF PacksOnlyLost, Packs
  <1>4. Written > 0 => 0 \in Packs'
    BY <1>1 DEF PacksOnlyLost, Packs, PacksTrue
  <1>5. LastPartition' = LastPartition /\ HasFooter' = HasFooter
    BY SameAt DEF SamePlaces
  <1>6. HasFooter => (At(LastPartition))' = At(LastPartition)
    BY <1>1, <1>5, SameAt DEF Numbers, HasFooter
  <1>7. \A e \in 1 .. Written : (At(e))' = At(e)
    BY <1>1, SameAt DEF Numbers
  <1> QED BY <1>1, <1>2, <1>3, <1>4, <1>5, <1>6, <1>7 DEF PacksTrue

LEMMA KeepRIP ==
    ASSUME IInv, SamePlaces, OnlyLost, pc' = "appended" => pc = "appended"
    PROVE  RIPTrue'
  <1>1. HasFooter' = HasFooter /\ LastPartition' = LastPartition
    BY SameAt DEF SamePlaces
  <1>2. [e \in 1 .. LastPartition |-> At(e)]' = [e \in 1 .. LastPartition |-> At(e)]
    BY <1>1, SameAt
  <1>3. RIPTrue
    BY DEF IInv
  <1> QED BY <1>1, <1>2, <1>3 DEF RIPTrue, OnlyLost

LEMMA KeepLinks ==
    ASSUME IInv, SameMembers, Written' = Written, PacksOnlyLost, ~Updating, ~Updating'
    PROVE  Links'
  <1>1. Numbers /\ Links /\ PacksTrue
    BY NumbersHold DEF IInv
  <1>2. LastPartition' = LastPartition /\ HasFooter' = HasFooter
    BY PlacesStay, SameAt DEF SameMembers
  <1>3. /\ \A e \in 1 .. LastPartition : (At(e))' = At(e)
        /\ \A e \in 1 .. LastPartition : (Previous(e))' = Previous(e)
    BY PlacesStay, SameAt
  <1>4. LastPartition > 0 => partitions'[1].previousPartition = 0
    BY <1>1 DEF SameMembers, Links, Numbers
  <1>5. ASSUME NEW e \in 1 .. LastPartition, partitions'[e].footerPartition # 0
        PROVE  HasFooter /\ partitions'[e].footerPartition = At(LastPartition)
    BY <1>1, <1>5 DEF SameMembers, Links
  <1>6. HasFooter => (At(LastPartition))' = At(LastPartition)
    BY <1>1, <1>2, <1>3 DEF Numbers, HasFooter
  <1>7. Written > 0 => klvs'[0] = klvs[0]
    BY <1>1 DEF PacksTrue, Packs, PacksOnlyLost
  <1>8. \A p \in Packs' : p \in Packs /\ klvs'[p] = klvs[p]
    BY DEF PacksOnlyLost, Packs
  <1>9. ASSUME Written > 0, klvs'[0].holds.footerPartition # 0, NEW e \in 1 .. LastPartition, (At(e))' \in Packs'
        PROVE  klvs'[(At(e))'].holds.previousPartition = (Previous(e))'
    <2>1. At(e) \in Packs' /\ At(e) \in Packs /\ klvs'[At(e)] = klvs[At(e)]
      BY <1>3, <1>8, <1>9
    <2> QED BY <1>1, <1>3, <1>7, <1>9, <2>1 DEF Links
  <1> QED BY <1>2, <1>4, <1>5, <1>6, <1>9 DEF Links
-----------------------------------------------------------------------------
(* Steps that add something to the end.                                    *)
LEMMA WholeAfter ==
    ASSUME IInv, Extended, SameMembers, Written' = Written,
           ~Overrun, ~InPlace, ~Overrun', ~InPlace',
           HeaderDone' => HeaderDone \/ (pc = "content" /\ HeaderWritten /\ BodyOffset = size),
           pc' = "content" /\ HeaderWritten' =>
              \/ pc = "content" /\ HeaderWritten
              \/ \E p \in DOMAIN klvs' : klvs'[p].what = "header" /\ p + klvs'[p].len <= size'
    PROVE  Whole' /\ (HeaderDone' => BodyOffset <= size')
  <1>1. Numbers /\ Whole /\ InOrder
    BY NumbersHold DEF IInv
  <1>2. /\ size' \in Nat /\ size <= size' /\ position' = size'
        /\ Tiled(klvs', 0, size')
        /\ size < size' => size \in DOMAIN klvs'
        /\ \A p \in DOMAIN klvs : p \in DOMAIN klvs' /\ klvs'[p] = klvs[p]
    BY DEF Extended
  <1>3. \A e \in 1 .. Written : (At(e))' \in Packs'
    BY <1>1, <1>2, PlacesStay, SameAt DEF Whole, Packs, Numbers
  <1>4. HeaderDone => BodyOffset <= size
    BY <1>1 DEF InOrder
  <1>5. HeaderDone' => BodyOffset <= size'
    BY <1>1, <1>2, <1>4 DEF Numbers
  <1>6. HeaderDone' /\ BodyOffset < size' => BodyOffset \in DOMAIN klvs'
    <2> SUFFICES ASSUME HeaderDone', BodyOffset < size' PROVE BodyOffset \in DOMAIN klvs'
      OBVIOUS
    <2>1. CASE BodyOffset = size
      BY <1>2, <2>1
    <2>2. CASE BodyOffset # size
      <3>1. HeaderDone /\ BodyOffset < size
        BY <1>1, <1>4, <2>2 DEF Numbers
      <3> QED BY <1>1, <1>2, <3>1 DEF Whole
    <2> QED BY <2>1, <2>2
  <1>7. pc = "content" /\ HeaderWritten =>
            \E p \in DOMAIN klvs' : klvs'[p].what = "header" /\ p + klvs'[p].len <= size'
    <2> SUFFICES ASSUME pc = "content", HeaderWritten
                 PROVE  \E p \in DOMAIN klvs' : klvs'[p].what = "header" /\ p + klvs'[p].len <= size'
      OBVIOUS
    <2>1. PICK p \in DOMAIN klvs : klvs[p].what = "header" /\ p + klvs[p].len <= position
      BY <1>1 DEF Whole
    <2>2. p \in DOMAIN klvs' /\ klvs'[p] = klvs[p]
      BY <1>2
    <2>3. p + klvs[p].len <= size'
      BY <1>1, <1>2, <2>1 DEF Numbers
    <2> QED BY <2>1, <2>2, <2>3
  <1>8. HeaderDone' => \E p \in DOMAIN klvs' : klvs'[p].what = "header"
    <2>1. HeaderDone => \E p \in DOMAIN klvs : klvs[p].what = "header"
      BY <1>1 DEF Whole
    <2> QED BY <1>2, <1>7, <2>1
  <1>9. pc' = "content" /\ HeaderWritten' =>
            \E p \in DOMAIN klvs' : klvs'[p].what = "header" /\ p + klvs'[p].len <= position'
    BY <1>2, <1>7
  <1> QED BY <1>2, <1>3, <1>5, <1>6, <1>8, <1>9 DEF Whole

LEMMA ExtendedKeeps ==
    ASSUME IInv, Extended, UNCHANGED partitions, LastPartition > 0, pc \notin {"appended", "update", "rewrite"},
           pc' \notin {"appended", "update", "rewrite"},
           ~Overrun, ~InPlace, ~Overrun', ~InPlace',
           HeaderDone' => HeaderDone \/ (pc = "content" /\ HeaderWritten /\ BodyOffset = size),
           pc' = "content" /\ HeaderWritten' =>
              \/ pc = "content" /\ HeaderWritten
              \/ \E p \in DOMAIN klvs' : klvs'[p].what = "header" /\ p + klvs'[p].len <= size'
    PROVE  KLVsApart' /\ InOrder' /\ Whole' /\ PacksTrue' /\ RIPTrue' /\ Links' /\ Empty'
  <1>1. SameMembers /\ OnlyLost /\ PacksOnlyLost
    BY UnchangedMembers, ExtendedOnlyLost
  <1>2. Written' = Written
    BY <1>1 DEF Written, SameMembers
  <1>3. Whole' /\ (HeaderDone' => BodyOffset <= size')
    BY <1>1, <1>2, WholeAfter
  <1>4. size' \in Nat /\ size <= size' /\ KLVsApart'
    BY DEF Extended, KLVsApart
  <1>5. InOrder'
    BY <1>1, <1>2, <1>3, <1>4, PlacesStay, KeepOrder
  <1>6. PacksTrue'
    BY <1>1, <1>2, PlacesStay, KeepPacks
  <1>7. RIPTrue'
    BY <1>1, PlacesStay, KeepRIP
  <1>8. Links'
    BY <1>1, <1>2, KeepLinks DEF Updating
  <1>9. Empty'
    BY <1>2, NumbersHold DEF Empty, Written, Numbers
  <1> QED BY <1>3, <1>4, <1>5, <1>6, <1>7, <1>8, <1>9

LEMMA FillAfterPackStep ==
    ASSUME IInv, FillAfterPack
    PROVE  IInv'
  <1>1. /\ pc = "packed" /\ AllocateSpaceToKag(partitions[cur], 0)
        /\ pc' = "content" /\ region' = "pack" /\ stage' = "ended"
        /\ UNCHANGED partitions /\ cur' = cur /\ next' = next /\ back' = back
    BY DEF FillAfterPack
  <1>2. Numbers /\ Control /\ Positions /\ InOrder
    BY NumbersHold DEF IInv
  <1>3. cur = LastPartition /\ position = size /\ LastPartition > 0 /\ Written = LastPartition
    BY <1>1, <1>2 DEF Control, Positions, Written
  <1>4. ~InPlace /\ ~Overrun /\ LastPartition' = LastPartition
    BY <1>1 DEF InPlace, Overrun, LastPartition
  <1>5. ~InPlace' /\ ~Overrun'
    BY <1>1, <1>2, <1>3, <1>4 DEF InPlace, Overrun, Numbers
  <1>6. Extended
    BY <1>1, <1>2, <1>3, <1>4, Filling DEF Numbers
  <1>7. /\ HeaderDone' => HeaderDone
        /\ ~HeaderWritten'
    BY <1>1, <1>4 DEF HeaderDone, Updating, HeaderWritten
  <1>8. KLVsApart' /\ InOrder' /\ Whole' /\ PacksTrue' /\ RIPTrue' /\ Links' /\ Empty'
    BY <1>1, <1>3, <1>4, <1>5, <1>6, <1>7, ExtendedKeeps
  <1>9. back = "filled"
    BY <1>1, <1>2, <1>4 DEF Control, Updating
  <1>10. Control'
    BY <1>1, <1>2, <1>3, <1>4, <1>9 DEF Control, Updating
  <1>11. At(cur) + PackSize <= position'
    BY <1>2, <1>3, <1>6 DEF InOrder, Extended, Numbers
  <1>12. Positions'
    <2>1. (At(cur))' + PackSize' <= position'
      BY <1>1, <1>11, SamePackSize DEF At
    <2> QED BY <1>1, <1>2, <1>3, <1>4, <1>6, <2>1 DEF Positions, Extended, LastOfHeader
  <1>13. Aligned' /\ RIPThere'
    BY <1>1, <1>5, <1>9 DEF Aligned, RIPThere, Updating
  <1> QED BY <1>8, <1>10, <1>12, <1>13 DEF IInv

(* While the content of the last partition is written the end is near.     *)
LEMMA AtEnd ==
    ASSUME IInv, pc = "content", cur = LastPartition
    PROVE  /\ position = size /\ ~InPlace /\ ~Overrun
           /\ cur \in 1 .. Written /\ Written = LastPartition /\ LastPartition > 0
           /\ back = "filled"
           /\ LastPartition > 1 => cur # 1
  <1>1. Numbers /\ Control /\ Positions
    BY NumbersHold DEF IInv
  <1>2. position = size /\ ~InPlace /\ ~Overrun
    BY <1>1 DEF Positions, InPlace, Overrun, Numbers
  <1> QED BY <1>1, <1>2 DEF Control, Numbers, Written, Updating

(* What else is true after something was added to the last partition.      *)
LEMMA ContentKeeps ==
    ASSUME IInv, Extended, pc = "content", pc' = "content", cur = LastPartition,
           UNCHANGED <<partitions, cur, next, back>>,
           HeaderWritten' =>
              \/ HeaderWritten
              \/ \E p \in DOMAIN klvs' : klvs'[p].what = "header" /\ p + klvs'[p].len <= size'
    PROVE  /\ KLVsApart' /\ InOrder' /\ Whole' /\ PacksTrue' /\ RIPTrue' /\ Links' /\ Empty'
           /\ Aligned' /\ RIPThere'
           /\ position' = size' /\ (At(cur))' + PackSize' <= position'
           /\ position' \in Nat /\ position <= position'
           /\ LastPartition' = LastPartition /\ HasFooter' = HasFooter
           /\ InPlace' = FALSE /\ Overrun' = FALSE
  <1>1. Numbers /\ Positions
    BY NumbersHold DEF IInv
  <1>2. position = size /\ ~InPlace /\ ~Overrun /\ back = "filled" /\ LastPartition > 0
    BY AtEnd
  <1>3. LastPartition' = LastPartition /\ HasFooter' = HasFooter
    BY UnchangedMembers, PlacesStay, SameAt DEF SameMembers
  <1>4. ~InPlace' /\ ~Overrun'
    BY <1>1, <1>2, <1>3 DEF InPlace, Overrun, Numbers
  <1>5. HeaderDone' => HeaderDone
    BY <1>3 DEF HeaderDone, Updating
  <1>6. KLVsApart' /\ InOrder' /\ Whole' /\ PacksTrue' /\ RIPTrue' /\ Links' /\ Empty'
    BY <1>2, <1>4, <1>5, ExtendedKeeps
  <1>7. position' = size' /\ position' \in Nat /\ position <= position'
    BY <1>2 DEF Extended
  <1>8. (At(cur))' + PackSize' <= position'
    <2>1. At(cur) + PackSize <= position /\ At(cur) \in Nat /\ PackSize \in Nat /\ position \in Nat
      BY <1>1, <1>2 DEF Positions, Numbers
    <2>2. At(cur) + PackSize <= position'
      BY <1>7, <2>1
    <2>3. (At(cur))' = At(cur) /\ PackSize' = PackSize
      BY SamePackSize DEF At
    <2> QED BY <2>2, <2>3
  <1>9. Aligned' /\ RIPThere'
    BY <1>2, <1>4 DEF Aligned, RIPThere, Updating
  <1> QED BY <1>3, <1>4, <1>6, <1>7, <1>8, <1>9

LEMMA FillContentStep ==
    ASSUME IInv, NEW space \in Spaces, FillContent(space)
    PROVE  IInv'
  <1>1. /\ pc = "content" /\ stage = "written" /\ cur > 1
        /\ AllocateSpaceToKag(partitions[cur], space)
        /\ stage' = "filled"
        /\ UNCHANGED <<partitions, pc, region, cur, next, back>>
    BY DEF FillContent
  <1>2. Control /\ Positions /\ Numbers
    BY NumbersHold DEF IInv
  <1>3. cur = LastPartition /\ cur # 1
    BY <1>1, <1>2 DEF Control, Numbers
  <1>4. Extended
    BY <1>1, <1>3, AtEnd, Filling, PartitionAssumption
  <1>5. HeaderWritten' => HeaderWritten
    BY <1>1, <1>3 DEF HeaderWritten
  <1>6. /\ KLVsApart' /\ InOrder' /\ Whole' /\ PacksTrue' /\ RIPTrue' /\ Links' /\ Empty'
        /\ Aligned' /\ RIPThere'
        /\ position' = size' /\ (At(cur))' + PackSize' <= position'
        /\ position' \in Nat /\ position <= position'
        /\ LastPartition' = LastPartition /\ HasFooter' = HasFooter
        /\ InPlace' = FALSE /\ Overrun' = FALSE
    BY <1>1, <1>3, <1>4, <1>5, ContentKeeps
  <1>7. Control'
    BY <1>1, <1>2, <1>3, <1>6, AtEnd DEF Control, Updating
  <1>8. partitions'[cur'].markInPos[region'] \in 0 .. position'
    BY <1>1, <1>2, <1>6 DEF Positions, Numbers
  <1>9. Positions'
    BY <1>1, <1>3, <1>6, <1>8 DEF Positions
  <1> QED BY <1>6, <1>7, <1>9 DEF IInv

(* What FillHeader does: up to BodyOffset there is nothing or fill.        *)
LEMMA FillingHeader ==
    ASSUME IInv, FillHeader
    PROVE  \/ position = BodyOffset /\ UNCHANGED fileVars
           \/ \E len \in Nat : /\ len >= KeyLen + MinLLen /\ position + len = BodyOffset
                               /\ Write(KLV("fill", len, <<>>))
  <1>1. position \in Nat /\ BodyOffset \in Nat
    BY NumbersHold DEF Numbers
  <1>2. CASE position = BodyOffset
    BY <1>2 DEF FillHeader, FillToPosition
  <1>3. CASE position # BodyOffset
    <2> DEFINE room == Room(BodyOffset)
    <2>1. room = BodyOffset - position - KeyLen /\ room \in Int
      BY <1>1, Lengths DEF Room
    <2>2. room >= LLen(room) /\ Write(KLV("fill", KeyLen + LLen(room) + FillValue(BodyOffset), <<>>))
      BY <1>3 DEF FillHeader, FillFits, FillToPosition
    <2>3. FillValue(BodyOffset) = room - LLen(room)
      BY DEF FillValue
    <2>4. LLen(room) \in Nat /\ LLen(room) >= MinLLen
      BY <2>1, LLenIs
    <2> HIDE DEF room
    <2>5. KeyLen + LLen(room) + FillValue(BodyOffset) = KeyLen + room
      BY <2>1, <2>3, <2>4, Lengths
    <2>6. KeyLen + room \in Nat /\ KeyLen + room >= KeyLen + MinLLen /\ position + (KeyLen + room) = BodyOffset
      BY <1>1, <2>1, <2>2, <2>4, Lengths
    <2> QED BY <2>2, <2>5, <2>6
  <1> QED BY <1>2, <1>3

LEMMA FillHeaderFirst ==
    ASSUME IInv, FillHeader, cur = LastPartition
    PROVE  IInv'
  <1>1. /\ pc = "content" /\ stage = "written" /\ cur = 1 /\ region = LastOfHeader
        /\ stage' = "filled"
        /\ UNCHANGED <<partitions, pc, region, cur, next, back>>
    BY DEF FillHeader
  <1>2. Control /\ Positions /\ Numbers
    BY NumbersHold DEF IInv
  <1>3. position = size /\ ~InPlace /\ ~Overrun
    BY <1>1, AtEnd
  <1>4. Extended /\ position' = BodyOffset
    <2>1. CASE position = BodyOffset /\ UNCHANGED fileVars
      BY <1>3, <2>1, NotExtending DEF fileVars
    <2>2. CASE \E len \in Nat : /\ len >= KeyLen + MinLLen /\ position + len = BodyOffset
                                /\ Write(KLV("fill", len, <<>>))
      <3>1. PICK len \in Nat : /\ len >= KeyLen + MinLLen /\ position + len = BodyOffset
                               /\ Write(KLV("fill", len, <<>>))
        BY <2>2
      <3>2. Extended /\ size' = size + len
        BY <1>3, <3>1, Extending
      <3> QED BY <1>3, <3>1, <3>2 DEF Extended
    <2> QED BY <2>1, <2>2, FillingHeader
  <1>5. HeaderWritten' => HeaderWritten
    BY <1>1 DEF HeaderWritten
  <1>6. /\ KLVsApart' /\ InOrder' /\ Whole' /\ PacksTrue' /\ RIPTrue' /\ Links' /\ Empty'
        /\ Aligned' /\ RIPThere'
        /\ position' = size' /\ (At(cur))' + PackSize' <= position'
        /\ position' \in Nat /\ position <= position'
        /\ LastPartition' = LastPartition /\ HasFooter' = HasFooter
        /\ InPlace' = FALSE /\ Overrun' = FALSE
    BY <1>1, <1>4, <1>5, ContentKeeps
  <1>7. Control'
    BY <1>1, <1>2, <1>6, AtEnd DEF Control, Updating
  <1>8. partitions'[cur'].markInPos[region'] \in 0 .. position'
    BY <1>1, <1>2, <1>6 DEF Positions, Numbers
  <1>9. LastOfHeader' = LastOfHeader
    BY DEF LastOfHeader
  <1>10. Positions'
    BY <1>1, <1>2, <1>4, <1>6, <1>8, <1>9 DEF Positions
  <1> QED BY <1>6, <1>7, <1>10 DEF IInv

LEMMA ContentIs ==
    ASSUME IInv, NEW len, WriteContent(len)
    PROVE  /\ pc = "content" /\ stage = "marked" /\ region \in Regions
           /\ len \in Nat /\ len >= KeyLen + MinLLen
           /\ Write(KLV(region, len, <<>>))
           /\ stage' = "written"
           /\ UNCHANGED <<partitions, pc, region, cur, next, back>>
  <1>1. /\ pc = "content" /\ stage = "marked" /\ len \in ContentSizes[region]
        /\ Write(KLV(region, len, <<>>))
        /\ stage' = "written"
        /\ UNCHANGED <<partitions, pc, region, cur, next, back>>
    BY DEF WriteContent
  <1>2. region \in Regions
    BY <1>1 DEF IInv, Control
  <1>3. ContentSizes[region] \subseteq Nat \ 0 .. KeyLen + MinLLen - 1
    BY <1>2, PartitionAssumption DEF Regions
  <1> QED BY <1>1, <1>2, <1>3, Lengths

LEMMA WriteContentAtEnd ==
    ASSUME IInv, NEW len, WriteContent(len), cur = LastPartition
    PROVE  IInv'
  <1>1. /\ pc = "content" /\ stage = "marked" /\ region \in Regions
        /\ len \in Nat /\ len >= KeyLen + MinLLen
        /\ Write(KLV(region, len, <<>>))
        /\ stage' = "written"
        /\ UNCHANGED <<partitions, pc, region, cur, next, back>>
    BY ContentIs
  <1>2. Control /\ Positions /\ Numbers
    BY NumbersHold DEF IInv
  <1>3. region \notin {"pack", "rip"}
    BY <1>1 DEF Regions
  <1>4. /\ Extended /\ size \in DOMAIN klvs' /\ klvs'[size] = KLV(region, len, <<>>)
        /\ size' = size + len
    BY <1>1, <1>3, AtEnd, Extending
  <1>5. HeaderWritten' =>
              \/ HeaderWritten
              \/ \E p \in DOMAIN klvs' : klvs'[p].what = "header" /\ p + klvs'[p].len <= size'
    <2>1. CASE region = "header"
      <3>1. klvs'[size].what = "header" /\ klvs'[size].len = len
        BY <1>4, <2>1 DEF KLV
      <3>2. size + klvs'[size].len <= size'
        BY <1>1, <1>2, <1>4, <3>1 DEF Numbers
      <3> QED BY <1>4, <3>1, <3>2
    <2>2. CASE region # "header"
      BY <1>1, <2>2 DEF HeaderWritten
    <2> QED BY <2>1, <2>2
  <1>6. /\ KLVsApart' /\ InOrder' /\ Whole' /\ PacksTrue' /\ RIPTrue' /\ Links' /\ Empty'
        /\ Aligned' /\ RIPThere'
        /\ position' = size' /\ (At(cur))' + PackSize' <= position'
        /\ position' \in Nat /\ position <= position'
        /\ LastPartition' = LastPartition /\ HasFooter' = HasFooter
        /\ InPlace' = FALSE /\ Overrun' = FALSE
    BY <1>1, <1>4, <1>5, ContentKeeps
  <1>7. Control'
    BY <1>1, <1>2, <1>6, AtEnd DEF Control, Updating
  <1>8. partitions'[cur'].markInPos[region'] \in 0 .. position'
    BY <1>1, <1>2, <1>6 DEF Positions, Numbers
  <1>9. Positions'
    BY <1>1, <1>2, <1>6, <1>8 DEF Positions
  <1> QED BY <1>6, <1>7, <1>9 DEF IInv

LEMMA WriteEssenceStep ==
    ASSUME IInv, NEW len \in ContentSizes["essence"], WriteEssence(len)
    PROVE  IInv'
  <1>1. /\ pc = "content" /\ stage = "ended" /\ partitions[cur].kind = "body"
        /\ Write(KLV("essence", len, <<>>))
        /\ region' = "essence"
        /\ UNCHANGED <<partitions, pc, stage, cur, next, back>>
    BY DEF WriteEssence
  <1>2. Control /\ Positions /\ Numbers /\ InOrder
    BY NumbersHold DEF IInv
  <1>3. cur = LastPartition /\ cur # 1
    BY <1>1, <1>2 DEF Control, InOrder, Numbers
  <1>4. len \in Nat /\ len >= KeyLen + MinLLen
    <2>1. ContentSizes["essence"] \subseteq Nat \ 0 .. KeyLen + MinLLen - 1
      BY PartitionAssumption
    <2> QED BY <2>1, Lengths
  <1>5. Extended
    BY <1>1, <1>3, <1>4, AtEnd, Extending
  <1>6. HeaderWritten' => HeaderWritten
    BY <1>1, <1>3 DEF HeaderWritten
  <1>7. /\ KLVsApart' /\ InOrder' /\ Whole' /\ PacksTrue' /\ RIPTrue' /\ Links' /\ Empty'
        /\ Aligned' /\ RIPThere'
        /\ position' = size' /\ (At(cur))' + PackSize' <= position'
        /\ position' \in Nat /\ position <= position'
        /\ LastPartition' = LastPartition /\ HasFooter' = HasFooter
        /\ InPlace' = FALSE /\ Overrun' = FALSE
    BY <1>1, <1>3, <1>5, <1>6, ContentKeeps
  <1>8. Control'
    BY <1>1, <1>2, <1>3, <1>7, AtEnd DEF Control, Updating
  <1>9. Positions'
    BY <1>1, <1>3, <1>7 DEF Positions
  <1> QED BY <1>7, <1>8, <1>9 DEF IInv

LEMMA FillAfterContentStep ==
    ASSUME IInv, FillAfterContent
    PROVE  IInv'
  <1>1. /\ pc = "content" /\ stage = "ended" /\ cur = LastPartition
        /\ cur = 1 => region = LastOfHeader
        /\ AllocateSpaceToKag(partitions[cur], 0)
        /\ pc' = "filled" /\ region' = "none"
        /\ UNCHANGED <<partitions, stage, cur, next, back>>
    BY DEF FillAfterContent
  <1>2. Control /\ Positions /\ Numbers
    BY NumbersHold DEF IInv
  <1>3. /\ position = size /\ ~InPlace /\ ~Overrun
        /\ cur \in 1 .. Written /\ Written = LastPartition /\ LastPartition > 0
        /\ back = "filled"
    BY <1>1, AtEnd
  <1>4. /\ Extended
        /\ \A pos : pos = position' => (pos - At(cur)) % partitions[cur].kagSize = 0
    BY <1>1, <1>3, Filling
  <1>5. LastPartition' = LastPartition /\ HasFooter' = HasFooter /\ (At(cur))' = At(cur)
        /\ \A e \in 1 .. LastPartition : (At(e))' = At(e)
    BY <1>1, <1>2, <1>3, UnchangedMembers, PlacesStay, SameAt DEF SameMembers
  <1>6. ~InPlace' /\ ~Overrun'
    BY <1>1 DEF InPlace, Overrun
  <1>7. HeaderDone' => HeaderDone \/ (pc = "content" /\ HeaderWritten /\ BodyOffset = size)
    <2>1. CASE LastPartition > 1
      BY <2>1 DEF HeaderDone
    <2>2. CASE LastPartition = 1
      <3>1. cur = 1 /\ region = LastOfHeader /\ position = BodyOffset
        BY <1>1, <1>2, <2>2 DEF Positions
      <3>2. HeaderWritten
        BY <1>1, <3>1 DEF HeaderWritten, LastOfHeader
      <3> QED BY <1>1, <1>3, <3>1, <3>2
    <2> QED BY <1>2, <1>3, <2>1, <2>2 DEF Numbers
  <1>8. KLVsApart' /\ InOrder' /\ Whole' /\ PacksTrue' /\ RIPTrue' /\ Links' /\ Empty'
    BY <1>1, <1>3, <1>4, <1>6, <1>7, ExtendedKeeps
  <1>9. Control'
    BY <1>1, <1>2, <1>3, <1>5 DEF Control, Updating
  <1>10. Positions'
    BY <1>1, <1>4 DEF Positions, Extended
  <1>11. Aligned'
    <2>1. Written' = cur /\ cur' = cur
      BY <1>1, <1>5 DEF Written
    <2>2. size' = position' /\ partitions' = partitions
      BY <1>1, <1>4 DEF Extended
    <2>3. (size' - At(cur)) % partitions[cur].kagSize = 0
      BY <1>4, <2>2
    <2>4. (size' - (At(cur))') % partitions'[cur].kagSize = 0
      BY <1>5, <2>2, <2>3
    <2> QED BY <2>1, <2>4 DEF Aligned
  <1>12. RIPThere'
    BY <1>1, <1>3 DEF RIPThere
  <1> QED BY <1>8, <1>9, <1>10, <1>11, <1>12 DEF IInv
-----------------------------------------------------------------------------
(* A pack is written for the first time.                                   *)
LEMMA PlacedIs ==
    ASSUME IInv, NEW e \in 1 .. LastPartition, partitions' = [partitions EXCEPT ![e] = Placed(@)]
    PROVE  /\ partitions' \in Seq(PartitionPacks) /\ LastPartition' = LastPartition
           /\ \A j \in 1 .. LastPartition : j # e => partitions'[j] = partitions[j]
           /\ partitions'[e] = Placed(partitions[e])
           /\ Placed(partitions[e]).kind = partitions[e].kind
           /\ Placed(partitions[e]).kagSize = partitions[e].kagSize
           /\ Placed(partitions[e]).thisPartition = position
           /\ Placed(partitions[e]).previousPartition = partitions[e].previousPartition
           /\ Placed(partitions[e]).footerPartition =
                 IF partitions[e].kind = "footer" THEN position ELSE partitions[e].footerPartition
           /\ Placed(partitions[e]).byteCount = partitions[e].byteCount
           /\ Placed(partitions[e]).markInPos = partitions[e].markInPos
  <1>1. partitions \in Seq(PartitionPacks) /\ partitions[e] \in PartitionPacks /\ position \in Nat
        /\ e \in 1 .. Len(partitions)
    BY NumbersHold DEF IInv, InOrder, Numbers, LastPartition
  <1> DEFINE new == Placed(partitions[e])
             old == partitions[e]
  <1>2. /\ new.kind = old.kind /\ new.kagSize = old.kagSize
        /\ new.thisPartition = position
        /\ new.previousPartition = old.previousPartition
        /\ new.footerPartition = IF old.kind = "footer" THEN position ELSE old.footerPartition
        /\ new.byteCount = old.byteCount /\ new.markInPos = old.markInPos
        /\ new \in PartitionPacks
    <2> HIDE DEF old
    <2>1. old \in PartitionPacks
      BY <1>1 DEF old
    <2>2. Placed(old) = [old EXCEPT !.thisPartition = position,
                                    !.footerPartition = IF old.kind = "footer" THEN position ELSE old.footerPartition]
      BY <2>1 DEF Placed, PartitionPacks
    <2>3. /\ Placed(old).kind = old.kind /\ Placed(old).kagSize = old.kagSize
          /\ Placed(old).thisPartition = position
          /\ Placed(old).previousPartition = old.previousPartition
          /\ Placed(old).footerPartition = IF old.kind = "footer" THEN position ELSE old.footerPartition
          /\ Placed(old).byteCount = old.byteCount /\ Placed(old).markInPos = old.markInPos
          /\ Placed(old) \in PartitionPacks
      BY <1>1, <2>1, <2>2 DEF PartitionPacks
    <2> QED BY <2>3 DEF old
  <1> HIDE DEF new
  <1>3. partitions' = [partitions EXCEPT ![e] = new]
    BY DEF new
  <1>4. partitions' \in Seq(PartitionPacks) /\ Len(partitions') = Len(partitions)
        /\ \A j \in 1 .. Len(partitions) : j # e => partitions'[j] = partitions[j]
        /\ partitions'[e] = new
    BY <1>1, <1>2, <1>3
  <1> QED BY <1>2, <1>4 DEF new, LastPartition

LEMMA WritePartitionStep ==
    ASSUME IInv, WritePartition
    PROVE  IInv'
  <1> DEFINE n == LastPartition
             pack == KLV("pack", KLVLen(PackLen), Pack(Placed(partitions[cur])))
  <1>1. /\ pc = "appended" /\ partitions' = [partitions EXCEPT ![cur] = Placed(@)]
        /\ Write(pack)
        /\ pc' = "packed" /\ region' = region /\ stage' = stage /\ cur' = cur /\ next' = next /\ back' = back
    BY DEF WritePartition, WritePack, client
  <1>2. Numbers /\ Control /\ Positions /\ InOrder /\ PacksTrue /\ Links /\ Empty
    BY NumbersHold DEF IInv
  <1>3. cur = n /\ n > 0 /\ n \in 1 .. n /\ position = size /\ Written = n - 1 /\ At(n) = 0
        /\ ~InPlace /\ ~Overrun
    BY <1>1, <1>2 DEF Control, Positions, Written, Numbers, InPlace, Overrun
  <1>4. /\ partitions' \in Seq(PartitionPacks) /\ LastPartition' = n
        /\ \A j \in 1 .. n : j # n => partitions'[j] = partitions[j]
        /\ partitions'[n].kind = partitions[n].kind
        /\ partitions'[n].thisPartition = size
        /\ partitions'[n].previousPartition = partitions[n].previousPartition
        /\ partitions'[n].footerPartition = IF partitions[n].kind = "footer" THEN size ELSE partitions[n].footerPartition
    BY <1>1, <1>3, PlacedIs
  <1>5. /\ pack.what = "pack" /\ pack.len = PackSize /\ IsKLV(pack)
        /\ pack.holds.thisPartition = size
        /\ pack.holds.footerPartition = IF partitions[n].kind = "footer" THEN size ELSE partitions[n].footerPartition
    <2>1. pack.what = "pack" /\ pack.len = PackSize /\ pack.holds = Pack(Placed(partitions[n]))
      BY <1>3 DEF KLV, PackSize
    <2>2. /\ Placed(partitions[n]).thisPartition = size
          /\ Placed(partitions[n]).footerPartition = IF partitions[n].kind = "footer" THEN size ELSE partitions[n].footerPartition
      BY <1>1, <1>3, PlacedIs
    <2> HIDE DEF pack
    <2> QED BY <1>2, <2>1, <2>2 DEF Pack, IsKLV, Numbers
  <1> HIDE DEF pack
  <1>6. Added(pack)
    BY <1>1, <1>3, <1>5, Adding
  <1>7. /\ size' = size + PackSize /\ size < size' /\ size' \in Nat /\ position' = size'
        /\ size \in DOMAIN klvs' /\ klvs'[size] = pack /\ size \notin DOMAIN klvs
        /\ \A p \in DOMAIN klvs : p \in DOMAIN klvs' /\ klvs'[p] = klvs[p]
        /\ \A p \in DOMAIN klvs' : p # size => p \in DOMAIN klvs
        /\ Tiled(klvs', 0, size') /\ Apart(klvs', size')
    BY <1>5, <1>6 DEF Added
  <1>8. Written' = n /\ ~InPlace' /\ ~Overrun' /\ ~Updating /\ ~Updating'
    BY <1>1, <1>4 DEF Written, InPlace, Overrun, Updating
  <1>9. /\ \A e \in 1 .. n : (At(e))' = IF e = n THEN size ELSE At(e)
        /\ (At(LastPartition))' = size
        /\ HasFooter' = HasFooter
        /\ HasFooter <=> partitions[n].kind = "footer"
    BY <1>3, <1>4 DEF At, HasFooter, FooterAppended
  <1>10. KLVsApart' /\ Empty'
    BY <1>2, <1>3, <1>7, <1>8 DEF KLVsApart, Empty
  <1>11. PackSize' = PackSize /\ PackSize \in Nat /\ n \in Nat /\ size \in Nat
    BY <1>2, SamePackSize DEF Numbers
  <1>12. \A e \in 1 .. Written : e \in 1 .. n /\ e # n /\ At(e) + PackSize <= size /\ At(e) \in Nat
    BY <1>2, <1>3, <1>11 DEF InOrder, Numbers
  <1>13. InOrder'
    <2>1. \A e \in 1 .. n :
              /\ partitions'[e].kind = "header" <=> e = 1
              /\ partitions'[e].kind = "footer" => e = n
      BY <1>2, <1>4 DEF InOrder
    <2>2. (At(1))' = 0
      <3>1. CASE n = 1
        BY <1>2, <1>3, <1>9, <3>1 DEF Empty
      <3>2. CASE n # 1
        BY <1>2, <1>3, <1>9, <1>11, <3>2 DEF InOrder
      <3> QED BY <3>1, <3>2
    <2>3. ASSUME NEW e \in 1 .. n, NEW j \in 1 .. n, e < j
          PROVE  (At(e))' + PackSize <= (At(j))'
      <3>1. e \in 1 .. Written /\ e # n
        BY <1>3, <1>11, <2>3
      <3>2. CASE j = n
        BY <1>9, <1>12, <3>1, <3>2
      <3>3. CASE j # n
        BY <1>2, <1>3, <1>9, <1>11, <2>3, <3>1, <3>3 DEF InOrder
      <3> QED BY <3>2, <3>3
    <2>4. \A e \in 1 .. n : (At(e))' + PackSize <= size'
      <3> SUFFICES ASSUME NEW e \in 1 .. n PROVE (At(e))' + PackSize <= size'
        OBVIOUS
      <3>1. CASE e = n
        BY <1>7, <1>9, <1>11, <3>1
      <3>2. CASE e # n
        <4>1. e \in 1 .. Written /\ (At(e))' = At(e)
          BY <1>3, <1>9, <1>11, <3>2
        <4> QED BY <1>7, <1>11, <1>12, <4>1
      <3> QED BY <3>1, <3>2
    <2>5. n > 1 => BodyOffset <= size
      BY <1>2 DEF InOrder, HeaderDone
    <2>6. \A e \in 2 .. n : BodyOffset <= (At(e))'
      BY <1>2, <1>3, <1>9, <1>11, <2>5 DEF InOrder
    <2>7. HeaderDone' => BodyOffset <= size'
      BY <1>1, <1>2, <1>4, <1>7, <2>5 DEF HeaderDone, Updating, Numbers
    <2> QED BY <1>4, <1>8, <1>11, <2>1, <2>2, <2>3, <2>4, <2>6, <2>7 DEF InOrder
  <1>14. back = "filled"
    BY <1>1, <1>2, <1>3, <1>8 DEF Control
  <1>15. Control'
    BY <1>1, <1>2, <1>3, <1>4, <1>8, <1>9, <1>14 DEF Control
  <1>16. Positions' /\ Aligned' /\ RIPThere'
    BY <1>1, <1>7, <1>8, <1>14 DEF Positions, Aligned, RIPThere
  <1>17. Whole'
    <2>1. \A e \in 1 .. n : (At(e))' \in Packs'
      <3> SUFFICES ASSUME NEW e \in 1 .. n PROVE (At(e))' \in Packs'
        OBVIOUS
      <3>1. CASE e = n
        BY <1>5, <1>7, <1>9, <3>1 DEF Packs
      <3>2. CASE e # n
        <4>1. e \in 1 .. Written /\ (At(e))' = At(e)
          BY <1>3, <1>9, <1>11, <3>2
        <4>2. At(e) \in Packs
          BY <1>3, <4>1 DEF IInv, Whole
        <4> QED BY <1>7, <4>1, <4>2 DEF Packs
      <3> QED BY <3>1, <3>2
    <2>2. HeaderDone' => HeaderDone
      BY <1>1, <1>4 DEF HeaderDone, Updating
    <2>3. HeaderDone => BodyOffset <= size /\ (BodyOffset < size => BodyOffset \in DOMAIN klvs)
                        /\ \E p \in DOMAIN klvs : klvs[p].what = "header"
      BY <1>2, <1>3 DEF IInv, Whole, InOrder
    <2>4. HeaderDone => BodyOffset \in DOMAIN klvs'
      BY <1>2, <1>7, <1>11, <2>3 DEF Numbers
    <2>5. HeaderDone => \E p \in DOMAIN klvs' : klvs'[p].what = "header"
      BY <1>7, <2>3
    <2> QED BY <1>1, <1>7, <1>8, <2>1, <2>2, <2>4, <2>5 DEF Whole
  <1>18. \A e \in 1 .. n : partitions[e].footerPartition = 0
    BY <1>2, <1>3 DEF Links
  <1>19. \A p \in Packs : klvs[p].holds.footerPartition = 0
    BY <1>2, <1>3 DEF PacksTrue
  <1>20. PacksTrue'
    <2>1. 0 \in Packs'
      <3>1. CASE n = 1
        BY <1>2, <1>3, <1>5, <1>7, <3>1 DEF Empty, Packs
      <3>2. CASE n # 1
        BY <1>2, <1>3, <1>7, <1>11, <3>2 DEF PacksTrue, Packs
      <3> QED BY <3>1, <3>2
    <2>2. ASSUME NEW p \in Packs'
          PROVE  /\ klvs'[p].len = PackSize
                 /\ klvs'[p].holds.thisPartition = p
                 /\ klvs'[p].holds.footerPartition # 0 =>
                      HasFooter /\ klvs'[p].holds.footerPartition = (At(LastPartition))'
                 /\ \E e \in 1 .. n : p = (At(e))'
      <3>1. CASE p = size
        BY <1>3, <1>5, <1>7, <1>9, <1>18, <3>1
      <3>2. CASE p # size
        <4>1. p \in Packs /\ klvs'[p] = klvs[p]
          BY <1>7, <3>2 DEF Packs
        <4>2. PICK e \in 1 .. Written : p = At(e)
          BY <1>2, <4>1 DEF PacksTrue
        <4>3. e \in 1 .. n /\ (At(e))' = At(e)
          BY <1>9, <1>12
        <4> QED BY <1>2, <1>19, <4>1, <4>2, <4>3 DEF PacksTrue
      <3> QED BY <3>1, <3>2
    <2> QED BY <1>4, <1>8, <1>9, <1>11, <2>1, <2>2 DEF PacksTrue
  <1>21. RIPTrue'
    <2>1. \A p \in DOMAIN klvs : klvs[p].what # "rip"
      BY <1>1 DEF IInv, RIPTrue
    <2> QED BY <1>5, <1>7, <2>1 DEF RIPTrue
  <1>22. Links'
    <2>1. partitions'[1].previousPartition = 0
      BY <1>2, <1>3, <1>4, <1>11 DEF Links
    <2>2. \A e \in 1 .. n : partitions'[e].footerPartition # 0 =>
              HasFooter /\ partitions'[e].footerPartition = size
      BY <1>4, <1>9, <1>18
    <2>3. klvs'[0].holds.footerPartition = 0
      <3>1. CASE n = 1
        <4>1. partitions[1].kind = "header" /\ size = 0
          BY <1>2, <1>3, <3>1 DEF InOrder, Empty
        <4> QED BY <1>5, <1>7, <1>18, <3>1, <4>1
      <3>2. CASE n # 1
        <4>1. 0 \in Packs
          BY <1>2, <1>3, <1>11, <3>2 DEF PacksTrue
        <4> QED BY <1>7, <1>19, <4>1 DEF Packs
      <3> QED BY <3>1, <3>2
    <2> QED BY <1>4, <1>8, <1>9, <2>1, <2>2, <2>3 DEF Links
  <1> QED BY <1>10, <1>13, <1>15, <1>16, <1>17, <1>20, <1>21, <1>22 DEF IInv
-----------------------------------------------------------------------------
LEMMA AppendPartitionStep ==
    ASSUME IInv, NEW kind \in {"header", "body", "footer"}, NEW kagSize \in KagSizes,
           AppendPartition(kind, kagSize)
    PROVE  IInv'
  <1> DEFINE n == LastPartition
             new == NewPartition(kind, kagSize)
  <1>1. /\ pc = "filled" /\ (kind = "header" <=> n = 0)
        /\ n > 0 => partitions[n].kind # "footer"
        /\ partitions' = Append(partitions, new)
        /\ cur' = n + 1 /\ pc' = "appended"
        /\ klvs' = klvs /\ size' = size /\ position' = position
        /\ region' = region /\ stage' = stage /\ next' = next /\ back' = back
    BY DEF AppendPartition, fileVars
  <1>2. Numbers /\ Control /\ Positions /\ InOrder /\ PacksTrue /\ Links /\ Aligned
    BY NumbersHold DEF IInv
  <1>3. /\ new \in PartitionPacks /\ new.kind = kind /\ new.kagSize = kagSize
        /\ new.thisPartition = 0 /\ new.previousPartition = 0 /\ new.footerPartition = 0
    <2>1. [r \in Regions |-> 0] \in [Regions -> Nat] /\ [r \in Regions |-> -1] \in [Regions -> Marks]
      BY DEF Marks
    <2> QED BY <2>1 DEF NewPartition, PartitionPacks
  <1> HIDE DEF new
  <1>4. /\ partitions' \in Seq(PartitionPacks) /\ LastPartition' = n + 1
        /\ \A e \in 1 .. n : partitions'[e] = partitions[e]
        /\ partitions'[n + 1] = new /\ n \in Nat
    BY <1>1, <1>2, <1>3 DEF InOrder, LastPartition
  <1>5. \A e \in 1 .. n + 1 : (At(e))' = IF e = n + 1 THEN 0 ELSE At(e)
    BY <1>3, <1>4 DEF At
  <1>6. Written = n /\ Written' = n /\ ~InPlace /\ ~InPlace' /\ ~Overrun /\ ~Overrun' /\ ~Updating /\ ~Updating'
    BY <1>1, <1>4 DEF Written, InPlace, Overrun, Updating
  <1>7. ~HasFooter /\ (At(LastPartition))' = 0
    BY <1>1, <1>3, <1>4 DEF HasFooter, FooterAppended, At
  <1>8. PackSize' = PackSize /\ PackSize \in Nat /\ size \in Nat /\ Packs' = Packs
    BY <1>1, <1>2, SamePackSize DEF Numbers, Packs
  <1>9. KLVsApart' /\ Empty'
    BY <1>1, <1>6 DEF IInv, KLVsApart, Empty
  <1>10. HeaderDone' => HeaderDone
    BY <1>1, <1>4, <1>6 DEF HeaderDone
  <1>11. InOrder'
    <2>1. \A e \in 1 .. n + 1 :
              /\ partitions'[e].kind = "header" <=> e = 1
              /\ partitions'[e].kind = "footer" => e = n + 1
      <3> SUFFICES ASSUME NEW e \in 1 .. n + 1
                   PROVE  /\ partitions'[e].kind = "header" <=> e = 1
                          /\ partitions'[e].kind = "footer" => e = n + 1
        OBVIOUS
      <3>1. CASE e = n + 1
        <4>1. partitions'[e].kind = kind
          BY <1>3, <1>4, <3>1
        <4>2. n = 0 <=> e = 1
          BY <1>4, <3>1
        <4>3. kind = "header" <=> n = 0
          BY <1>1
        <4> HIDE DEF n
        <4> QED BY <3>1, <4>1, <4>2, <4>3
      <3>2. CASE e # n + 1
        <4>1. e \in 1 .. n /\ partitions'[e] = partitions[e]
          BY <1>4, <3>2
        <4>2. n # 0 /\ e # n + 1 /\ partitions[n].kind # "footer"
          BY <1>1, <1>4, <3>2, <4>1
        <4>3. /\ partitions[e].kind = "header" <=> e = 1
              /\ partitions[e].kind = "footer" => e = n
          BY <1>2, <4>1 DEF InOrder
        <4>4. partitions[e].kind # "footer"
          BY <4>2, <4>3
        <4> QED BY <4>1, <4>3, <4>4
      <3> QED BY <3>1, <3>2
    <2>2. (At(1))' = 0
      BY <1>2, <1>4, <1>5 DEF InOrder
    <2>3. \A e \in 1 .. n : (At(e))' = At(e)
      BY <1>4, <1>5
    <2>4. \A e, j \in 1 .. n : e < j => (At(e))' + PackSize <= (At(j))'
      BY <1>2, <1>6, <2>3 DEF InOrder
    <2>5. \A e \in 1 .. n : (At(e))' + PackSize <= size'
      BY <1>1, <1>2, <1>6, <2>3 DEF InOrder
    <2>6. \A e \in 2 .. n : BodyOffset <= (At(e))'
      BY <1>2, <1>4, <1>6, <2>3 DEF InOrder
    <2>7. HeaderDone' => BodyOffset <= size'
      BY <1>1, <1>2, <1>10 DEF InOrder
    <2> QED BY <1>4, <1>6, <1>8, <2>1, <2>2, <2>4, <2>5, <2>6, <2>7 DEF InOrder
  <1>12. back = "filled"
    BY <1>1, <1>2, <1>6 DEF Control
  <1>13. Control'
    BY <1>1, <1>2, <1>4, <1>6, <1>7, <1>12 DEF Control
  <1>14. Positions'
    BY <1>1, <1>2 DEF Positions
  <1>15. Aligned'
    <2>1. CASE n = 0
      BY <1>6, <2>1 DEF Aligned
    <2>2. CASE n # 0
      <3>1. n \in 1 .. n
        BY <1>4, <2>2
      <3>2. (size - At(n)) % partitions[n].kagSize = 0
        BY <1>1, <1>2, <1>4, <1>6, <2>2 DEF Aligned
      <3>3. (At(Written))' = At(n) /\ partitions'[n] = partitions[n]
        BY <1>4, <1>6, <3>1 DEF At
      <3>4. (size' - (At(Written))') % partitions'[Written'].kagSize = 0
        BY <1>1, <1>6, <3>2, <3>3
      <3> QED BY <3>4 DEF Aligned
    <2> QED BY <2>1, <2>2
  <1>16. Whole'
    <2>1. \A e \in 1 .. n : (At(e))' \in Packs'
      BY <1>4, <1>5, <1>6, <1>8 DEF IInv, Whole
    <2> QED BY <1>1, <1>6, <1>10, <2>1 DEF IInv, Whole
  <1>17. RIPThere'
    BY <1>1, <1>12 DEF RIPThere
  <1>18. PacksTrue'
    <2>1. \A e \in 1 .. n : (At(e))' = At(e)
      BY <1>4, <1>5
    <2> QED BY <1>1, <1>2, <1>6, <1>7, <1>8, <2>1 DEF PacksTrue
  <1>19. RIPTrue'
    BY <1>1, <1>7 DEF IInv, RIPTrue
  <1>20. Links'
    <2>1. \A e \in 1 .. n + 1 : partitions'[e].footerPartition = 0
      BY <1>2, <1>3, <1>4, <1>7 DEF Links
    <2>2. partitions'[1].previousPartition = 0
      BY <1>2, <1>3, <1>4 DEF Links
    <2>3. n > 0 => klvs[0].holds.footerPartition = 0
      BY <1>2, <1>6, <1>7 DEF PacksTrue
    <2> QED BY <1>1, <1>4, <1>6, <2>1, <2>2, <2>3 DEF Links
  <1> QED BY <1>9, <1>11, <1>13, <1>14, <1>15, <1>16, <1>17, <1>18, <1>19, <1>20 DEF IInv

LEMMA WriteRIPStep ==
    ASSUME IInv, WriteRIP
    PROVE  IInv'
  <1> DEFINE n == LastPartition
             rip == KLV("rip", KLVLen(12 * n + 4), [e \in 1 .. n |-> partitions[e].thisPartition])
  <1>1. /\ pc = "filled" /\ n > 0 /\ FooterAppended
        /\ Write(rip)
        /\ pc' = "rip"
        /\ UNCHANGED <<partitions, region, stage, cur, next, back>>
    BY DEF WriteRIP, client
  <1>2. Numbers /\ Control /\ Positions /\ InOrder
    BY NumbersHold DEF IInv
  <1>3. /\ rip.what = "rip" /\ rip.holds = [e \in 1 .. n |-> At(e)]
        /\ IsKLV(rip)
    <2> DEFINE m == 12 * n + 4
    <2>1. m \in Nat
      BY <1>2 DEF Numbers
    <2>2. LLen(m) \in Nat /\ LLen(m) >= MinLLen
      BY <2>1, LLenIs
    <2> HIDE DEF m
    <2>3. KLVLen(m) \in Nat /\ KLVLen(m) >= KeyLen + MinLLen
      BY <2>1, <2>2, Lengths DEF KLVLen
    <2>4. rip.what = "rip" /\ rip.holds = [e \in 1 .. n |-> At(e)] /\ rip.len = KLVLen(m)
      BY DEF KLV, At, m
    <2> QED BY <2>3, <2>4 DEF IsKLV
  <1> HIDE DEF rip
  <1>4. /\ position = size /\ ~InPlace /\ ~Overrun /\ ~InPlace' /\ ~Overrun' /\ ~Updating /\ ~Updating'
        /\ back = "filled" /\ HasFooter
    BY <1>1, <1>2 DEF Positions, InPlace, Overrun, Updating, HasFooter, Control
  <1>5. Added(rip)
    BY <1>1, <1>3, <1>4, Adding
  <1>6. /\ size' = size + rip.len /\ size < size' /\ size' \in Nat /\ position' = size'
        /\ size \in DOMAIN klvs' /\ klvs'[size] = rip /\ size \notin DOMAIN klvs
        /\ \A p \in DOMAIN klvs : p \in DOMAIN klvs' /\ klvs'[p] = klvs[p]
        /\ \A p \in DOMAIN klvs' : p # size => p \in DOMAIN klvs
        /\ Tiled(klvs', 0, size') /\ Apart(klvs', size')
    BY <1>5 DEF Added
  <1>7. /\ SameMembers /\ LastPartition' = n /\ HasFooter' = HasFooter
        /\ \A e \in 1 .. n : (At(e))' = At(e)
    BY <1>1, UnchangedMembers, PlacesStay, SameAt DEF SameMembers
  <1>8. Written' = Written /\ Written = n
    BY <1>1, <1>7 DEF Written
  <1>9. PacksOnlyLost
    BY <1>2, <1>3, <1>6 DEF PacksOnlyLost, Numbers
  <1>10. KLVsApart' /\ Empty'
    BY <1>1, <1>6, <1>8 DEF KLVsApart, Empty
  <1>11. HeaderDone /\ (HeaderDone' => BodyOffset <= size')
    <2>1. HeaderDone
      BY <1>1, <1>2 DEF HeaderDone, Numbers
    <2> QED BY <1>2, <1>6, <2>1 DEF InOrder, Numbers
  <1>12. InOrder'
    BY <1>2, <1>6, <1>7, <1>8, <1>11, PlacesStay, KeepOrder DEF Numbers
  <1>13. PacksTrue' /\ Links'
    BY <1>4, <1>7, <1>8, <1>9, PlacesStay, KeepPacks, KeepLinks
  <1>14. Control'
    BY <1>1, <1>2, <1>4, <1>7 DEF Control, Updating
  <1>15. Positions' /\ Aligned'
    BY <1>1, <1>4, <1>6 DEF Positions, Aligned
  <1>16. RIPTrue'
    <2>1. [e \in 1 .. n |-> At(e)]' = [e \in 1 .. n |-> At(e)]
      BY <1>7
    <2>2. \A p \in DOMAIN klvs' : klvs'[p].what = "rip" => klvs'[p].holds = [e \in 1 .. n |-> At(e)]
      BY <1>3, <1>6 DEF IInv, RIPTrue
    <2> QED BY <1>1, <1>4, <1>7, <2>1, <2>2 DEF RIPTrue
  <1>17. RIPThere'
    <2>1. size + klvs'[size].len = size'
      BY <1>6
    <2>2. size \in RIPs'
      BY <1>3, <1>6, <2>1 DEF RIPs
    <2> QED BY <2>2 DEF RIPThere
  <1>18. Whole'
    <2>1. \A e \in 1 .. n : (At(e))' \in Packs'
      BY <1>4, <1>6, <1>7, <1>8 DEF IInv, Whole, Packs
    <2>2. BodyOffset <= size /\ (BodyOffset < size => BodyOffset \in DOMAIN klvs)
          /\ \E p \in DOMAIN klvs : klvs[p].what = "header"
      BY <1>2, <1>4, <1>11 DEF IInv, Whole, InOrder
    <2>3. BodyOffset \in DOMAIN klvs'
      BY <1>2, <1>6, <2>2 DEF Numbers
    <2>4. \E p \in DOMAIN klvs' : klvs'[p].what = "header"
      BY <1>6, <2>2
    <2> QED BY <1>1, <1>4, <1>6, <1>8, <2>1, <2>3, <2>4 DEF Whole
  <1> QED BY <1>10, <1>12, <1>13, <1>14, <1>15, <1>16, <1>17, <1>18 DEF IInv
-----------------------------------------------------------------------------
(* Steps that write over header metadata.                                  *)
LEMMA InPlaceIs ==
    ASSUME IInv, InPlace
    PROVE  /\ pc = "content" /\ cur = 1 /\ LastPartition > 1 /\ Written = LastPartition
           /\ HeaderDone /\ ~Updating /\ At(1) = 0
           /\ BodyOffset < size
           /\ ~Overrun <=> position <= BodyOffset
           /\ ~Overrun => BodyOffset \in DOMAIN klvs
  <1>1. Numbers /\ Control /\ InOrder
    BY NumbersHold DEF IInv
  <1>2. /\ pc = "content" /\ cur = 1 /\ LastPartition > 1 /\ Written = LastPartition
        /\ HeaderDone /\ ~Updating
    BY <1>1 DEF Control, InPlace, Numbers, Written, HeaderDone, Updating
  <1>3. BodyOffset < size
    <2>1. 2 \in 2 .. Written /\ 2 \in 1 .. Written /\ At(2) \in Nat
      BY <1>1, <1>2 DEF Numbers
    <2>2. BodyOffset <= At(2) /\ At(2) + PackSize <= size
      BY <1>1, <2>1 DEF InOrder
    <2> QED BY <1>1, <2>1, <2>2 DEF Numbers
  <1>4. ~Overrun <=> position <= BodyOffset
    BY <1>1, <1>2 DEF Overrun, InPlace, Numbers
  <1>5. ~Overrun => BodyOffset \in DOMAIN klvs
    BY <1>2, <1>3 DEF IInv, Whole
  <1>6. At(1) = 0
    BY <1>1, <1>2 DEF InOrder, Numbers
  <1> QED BY <1>2, <1>3, <1>4, <1>5, <1>6

LEMMA OverwrittenKeeps ==
    ASSUME IInv, InPlace, Overwritten, pc' = "content", UNCHANGED <<partitions, cur, next, back>>,
           position' <= BodyOffset =>
              \/ HeaderWritten
              \/ \E p \in DOMAIN klvs' : klvs'[p].what = "header" /\ p + klvs'[p].len <= position'
    PROVE  /\ KLVsApart' /\ InOrder' /\ Whole' /\ PacksTrue' /\ RIPTrue' /\ Links' /\ Empty'
           /\ Aligned' /\ RIPThere'
           /\ (At(cur))' + PackSize' <= position'
           /\ position' \in Nat /\ position <= position'
           /\ LastPartition' = LastPartition /\ HasFooter' = HasFooter
           /\ InPlace'
  <1>1. Numbers /\ Positions /\ InOrder /\ PacksTrue
    BY NumbersHold DEF IInv
  <1>2. /\ pc = "content" /\ cur = 1 /\ LastPartition > 1 /\ Written = LastPartition
        /\ HeaderDone /\ ~Updating /\ At(1) = 0
        /\ BodyOffset < size
        /\ ~Overrun <=> position <= BodyOffset
        /\ ~Overrun => BodyOffset \in DOMAIN klvs
    BY InPlaceIs
  <1>3. /\ Apart(klvs', size') /\ position' \in Nat /\ position <= position' /\ position' <= size' /\ size <= size'
        /\ OnlyLost /\ size' \in Nat
        /\ \A p \in DOMAIN klvs : p + klvs[p].len <= position => p \in DOMAIN klvs' /\ klvs'[p] = klvs[p]
    BY DEF Overwritten, Apart
  <1>4. SameMembers /\ PacksOnlyLost /\ LastPartition' = LastPartition /\ HasFooter' = HasFooter
        /\ \A e \in 1 .. LastPartition : (At(e))' = At(e)
    BY <1>3, JustPacks, UnchangedMembers, PlacesStay, SameAt DEF SameMembers
  <1>5. Written' = Written /\ InPlace' /\ ~Updating'
    BY <1>2, <1>4 DEF Written, InPlace, Updating
  <1>6. KLVsApart' /\ Empty'
    BY <1>1, <1>2, <1>3, <1>4, <1>5 DEF KLVsApart, Empty, Numbers
  <1>7. InOrder'
    <2>1. BodyOffset <= size'
      BY <1>1, <1>2, <1>3 DEF Numbers
    <2> QED BY <1>3, <1>4, <1>5, <2>1, PlacesStay, KeepOrder
  <1>8. PacksTrue' /\ RIPTrue' /\ Links'
    BY <1>2, <1>3, <1>4, <1>5, PlacesStay, KeepPacks, KeepRIP, KeepLinks
  <1>9. (At(cur))' + PackSize' <= position'
    <2>1. 0 + PackSize <= position
      BY <1>1, <1>2 DEF Positions
    <2>2. (At(cur))' = 0 /\ PackSize' = PackSize
      BY <1>2, <1>4, SamePackSize DEF At
    <2> QED BY <1>1, <1>3, <2>1, <2>2 DEF Numbers
  <1>10. ASSUME ~Overrun'
         PROVE  /\ position' <= BodyOffset /\ ~Overrun /\ size' = size
                /\ Tiled(klvs', 0, position') /\ Tiled(klvs', BodyOffset, size)
                /\ \A p \in DOMAIN klvs : p >= BodyOffset => p \in DOMAIN klvs' /\ klvs'[p] = klvs[p]
    <2>1. position' <= BodyOffset
      BY <1>1, <1>3, <1>5, <1>10 DEF Overrun, Numbers
    <2> QED BY <1>1, <1>2, <1>3, <2>1 DEF Overwritten, Numbers
  <1>11. Whole'
    <2> SUFFICES ASSUME ~Overrun' PROVE Whole'
      BY DEF Whole
    <2>1. Whole
      BY DEF IInv
    <2>2. ASSUME NEW e \in 1 .. Written PROVE (At(e))' \in Packs'
      <3>1. At(e) \in Packs /\ (At(e))' = At(e)
        BY <1>2, <1>4, <1>10, <2>1 DEF Whole
      <3>2. CASE e = 1
        BY <1>2, <1>3, <3>1, <3>2 DEF OnlyLost, Packs
      <3>3. CASE e # 1
        <4>1. At(e) >= BodyOffset
          BY <1>1, <3>3 DEF InOrder, Numbers
        <4> QED BY <1>10, <3>1, <4>1 DEF Packs
      <3> QED BY <3>2, <3>3
    <2>3. BodyOffset \in DOMAIN klvs'
      BY <1>1, <1>2, <1>10 DEF Numbers
    <2>4. \E p \in DOMAIN klvs' : klvs'[p].what = "header" /\ p + klvs'[p].len <= position'
      <3>1. SUFFICES ASSUME HeaderWritten
                     PROVE  \E p \in DOMAIN klvs' : klvs'[p].what = "header" /\ p + klvs'[p].len <= position'
        BY <1>10
      <3>2. PICK p \in DOMAIN klvs : klvs[p].what = "header" /\ p + klvs[p].len <= position
        BY <1>2, <1>10, <2>1, <3>1 DEF Whole
      <3>3. p \in DOMAIN klvs' /\ klvs'[p] = klvs[p] /\ p \in Nat /\ klvs[p].len \in Nat
        BY <1>1, <1>3, <3>2 DEF Numbers
      <3>4. p + klvs[p].len <= position'
        BY <1>1, <1>3, <3>2, <3>3 DEF Numbers
      <3> QED BY <3>2, <3>3, <3>4
    <2> QED BY <1>5, <1>10, <2>2, <2>3, <2>4 DEF Whole
  <1>12. Aligned'
    <2> SUFFICES ASSUME ~Overrun', back = "filled" PROVE Aligned'
      BY <1>5 DEF Aligned, InPlace
    <2>1. (size - At(Written)) % partitions[Written].kagSize = 0
      <3>1. Aligned /\ ~Overrun /\ Written > 0 /\ back = "filled"
        BY <1>1, <1>2, <1>10, UNCHANGED <<partitions, cur, next, back>> DEF IInv, Numbers
      <3> QED BY <3>1 DEF Aligned
    <2>2. size' = size /\ (At(Written))' = At(Written) /\ partitions' = partitions
      BY <1>2, <1>4, <1>5, <1>10 DEF At
    <2>3. (size' - (At(Written))') % partitions'[Written'].kagSize = 0
      BY <1>5, <2>1, <2>2
    <2> QED BY <2>3 DEF Aligned
  <1>13. RIPThere'
    <2> SUFFICES ASSUME ~Overrun', back = "rip" PROVE RIPs' # {}
      BY <1>5 DEF RIPThere, InPlace
    <2>1. PICK p \in RIPs : TRUE
      BY <1>10 DEF IInv, RIPThere
    <2>2. p \in DOMAIN klvs /\ klvs[p].what = "rip" /\ p + klvs[p].len = size
      BY <2>1 DEF RIPs
    <2>3. p >= BodyOffset
      <3>1. p < BodyOffset => p + klvs[p].len <= BodyOffset
        BY <1>2, <1>10, <2>2 DEF IInv, KLVsApart, Apart
      <3> QED BY <1>1, <1>2, <2>2, <3>1 DEF Numbers
    <2>4. p \in RIPs'
      BY <1>10, <2>2, <2>3 DEF RIPs
    <2> QED BY <2>4
  <1> QED BY <1>3, <1>4, <1>5, <1>6, <1>7, <1>8, <1>9, <1>11, <1>12, <1>13

LEMMA WriteContentInPlace ==
    ASSUME IInv, NEW len, WriteContent(len), cur # LastPartition
    PROVE  IInv'
  <1>1. /\ pc = "content" /\ stage = "marked" /\ region \in Regions
        /\ len \in Nat /\ len >= KeyLen + MinLLen
        /\ Write(KLV(region, len, <<>>))
        /\ stage' = "written"
        /\ UNCHANGED <<partitions, pc, region, cur, next, back>>
    BY ContentIs
  <1>2. Control /\ Positions /\ Numbers
    BY NumbersHold DEF IInv
  <1>3. InPlace
    BY <1>1, <1>2 DEF Control, InPlace, Numbers
  <1>4. cur = 1 /\ LastPartition > 1
    BY <1>3, InPlaceIs
  <1>5. region \notin {"pack", "rip"}
    BY <1>1 DEF Regions
  <1>6. /\ Overwritten
        /\ position \in DOMAIN klvs' /\ klvs'[position] = KLV(region, len, <<>>) /\ position' = position + len
    BY <1>1, <1>3, <1>4, <1>5, Overwriting
  <1>7. \/ HeaderWritten
        \/ \E p \in DOMAIN klvs' : klvs'[p].what = "header" /\ p + klvs'[p].len <= position'
    <2>1. CASE region = "header"
      <3>1. klvs'[position].what = "header" /\ klvs'[position].len = len
        BY <1>6, <2>1 DEF KLV
      <3>2. position + klvs'[position].len <= position'
        BY <1>1, <1>2, <1>6, <3>1 DEF Numbers
      <3> QED BY <1>6, <3>1, <3>2
    <2>2. CASE region # "header"
      BY <1>1, <1>4, <2>2 DEF HeaderWritten, Regions
    <2> QED BY <2>1, <2>2
  <1>8. /\ KLVsApart' /\ InOrder' /\ Whole' /\ PacksTrue' /\ RIPTrue' /\ Links' /\ Empty'
        /\ Aligned' /\ RIPThere'
        /\ (At(cur))' + PackSize' <= position'
        /\ position' \in Nat /\ position <= position'
        /\ LastPartition' = LastPartition /\ HasFooter' = HasFooter
        /\ InPlace'
    BY <1>1, <1>3, <1>6, <1>7, OverwrittenKeeps
  <1>9. Control'
    BY <1>1, <1>2, <1>3, <1>8 DEF Control, Updating
  <1>10. partitions'[cur'].markInPos[region'] \in 0 .. position'
    BY <1>1, <1>2, <1>8 DEF Positions, Numbers
  <1>11. Positions'
    BY <1>1, <1>2, <1>4, <1>8, <1>10 DEF Positions
  <1> QED BY <1>8, <1>9, <1>11 DEF IInv

LEMMA FillHeaderInPlace ==
    ASSUME IInv, FillHeader, cur # LastPartition
    PROVE  IInv'
  <1>1. /\ pc = "content" /\ stage = "written" /\ cur = 1 /\ region = LastOfHeader
        /\ stage' = "filled"
        /\ UNCHANGED <<partitions, pc, region, cur, next, back>>
    BY DEF FillHeader
  <1>2. Control /\ Positions /\ Numbers
    BY NumbersHold DEF IInv
  <1>3. InPlace
    BY <1>1, <1>2 DEF Control, InPlace, Numbers
  <1>4. Overwritten /\ position' = BodyOffset
    <2>1. CASE position = BodyOffset /\ UNCHANGED fileVars
      <3>1. ~Overrun
        BY <1>2, <1>3, <2>1, InPlaceIs DEF Numbers
      <3>2. Tiled(klvs, 0, position) /\ Tiled(klvs, BodyOffset, size)
        BY <1>3, <3>1 DEF IInv, Whole
      <3>3. klvs' = klvs /\ size' = size /\ position' = position
        BY <2>1 DEF fileVars
      <3> QED BY <1>2, <2>1, <3>2, <3>3 DEF Overwritten, OnlyLost, IInv, KLVsApart, Numbers
    <2>2. CASE \E len \in Nat : /\ len >= KeyLen + MinLLen /\ position + len = BodyOffset
                                /\ Write(KLV("fill", len, <<>>))
      <3>1. PICK len \in Nat : /\ len >= KeyLen + MinLLen /\ position + len = BodyOffset
                               /\ Write(KLV("fill", len, <<>>))
        BY <2>2
      <3> QED BY <1>1, <1>3, <3>1, Overwriting
    <2> QED BY <2>1, <2>2, FillingHeader
  <1>5. HeaderWritten
    BY <1>1 DEF HeaderWritten, LastOfHeader
  <1>6. /\ KLVsApart' /\ InOrder' /\ Whole' /\ PacksTrue' /\ RIPTrue' /\ Links' /\ Empty'
        /\ Aligned' /\ RIPThere'
        /\ (At(cur))' + PackSize' <= position'
        /\ position' \in Nat /\ position <= position'
        /\ LastPartition' = LastPartition /\ HasFooter' = HasFooter
        /\ InPlace'
    BY <1>1, <1>3, <1>4, <1>5, OverwrittenKeeps
  <1>7. Control'
    BY <1>1, <1>2, <1>3, <1>6 DEF Control, Updating
  <1>8. partitions'[cur'].markInPos[region'] \in 0 .. position'
    BY <1>1, <1>2, <1>6 DEF Positions, Numbers
  <1>9. LastOfHeader' = LastOfHeader
    BY DEF LastOfHeader
  <1>10. Positions'
    BY <1>1, <1>2, <1>3, <1>4, <1>6, <1>8, <1>9 DEF Positions, InPlace
  <1> QED BY <1>6, <1>7, <1>10 DEF IInv
-----------------------------------------------------------------------------
(* Steps that leave the file alone.                                        *)
LEMMA Changing ==
    ASSUME IInv, NEW e \in 1 .. LastPartition, NEW new \in PartitionPacks,
           partitions' = [partitions EXCEPT ![e] = new],
           new.kind = partitions[e].kind, new.kagSize = partitions[e].kagSize,
           new.thisPartition = partitions[e].thisPartition,
           new.previousPartition = partitions[e].previousPartition,
           new.footerPartition = partitions[e].footerPartition
    PROVE  SameMembers /\ partitions'[e] = new
  <1>1. partitions \in Seq(PartitionPacks) /\ e \in 1 .. Len(partitions)
    BY DEF IInv, InOrder, LastPartition
  <1>2. partitions' \in Seq(PartitionPacks) /\ Len(partitions') = Len(partitions)
        /\ \A j \in 1 .. Len(partitions) : j # e => partitions'[j] = partitions[j]
        /\ partitions'[e] = new
    BY <1>1
  <1> QED BY <1>2 DEF SameMembers, LastPartition

LEMMA QuietKeeps ==
    ASSUME IInv, SameMembers, UNCHANGED fileVars, pc = "content", pc' = "content",
           UNCHANGED <<cur, next, back>>, HeaderWritten' => HeaderWritten
    PROVE  /\ KLVsApart' /\ InOrder' /\ Whole' /\ PacksTrue' /\ RIPTrue' /\ Links' /\ Empty'
           /\ Aligned' /\ RIPThere'
           /\ (At(cur))' + PackSize' <= position
           /\ klvs' = klvs /\ size' = size /\ position' = position
           /\ LastPartition' = LastPartition /\ HasFooter' = HasFooter
  <1>1. Numbers /\ Positions /\ InOrder /\ Control
    BY NumbersHold DEF IInv
  <1>2. klvs' = klvs /\ size' = size /\ position' = position
    BY DEF fileVars
  <1>3. OnlyLost /\ PacksOnlyLost
    BY <1>2 DEF OnlyLost, PacksOnlyLost
  <1>4. LastPartition' = LastPartition /\ HasFooter' = HasFooter
        /\ \A e \in 1 .. LastPartition : (At(e))' = At(e)
    BY PlacesStay, SameAt DEF SameMembers
  <1>5. /\ Written' = Written /\ Written = LastPartition /\ InPlace' = InPlace /\ Overrun' = Overrun
        /\ HeaderDone' = HeaderDone /\ ~Updating /\ ~Updating' /\ Packs' = Packs /\ RIPs' = RIPs
    BY <1>2, <1>4 DEF Written, InPlace, Overrun, HeaderDone, Updating, Packs, RIPs
  <1>6. KLVsApart' /\ Empty'
    BY <1>2, <1>5 DEF IInv, KLVsApart, Empty
  <1>7. HeaderDone => BodyOffset <= size
    BY <1>1 DEF InOrder
  <1>8. InOrder'
    BY <1>1, <1>2, <1>5, <1>7, PlacesStay, KeepOrder DEF Numbers
  <1>9. PacksTrue' /\ RIPTrue' /\ Links'
    BY <1>3, <1>5, PlacesStay, KeepPacks, KeepRIP, KeepLinks
  <1>10. Whole'
    <2>1. Whole
      BY DEF IInv
    <2>2. \A e \in 1 .. Written : At(e) \in Packs => (At(e))' \in Packs'
      BY <1>4, <1>5
    <2> QED BY <1>2, <1>5, <2>1, <2>2 DEF Whole
  <1>11. Aligned'
    <2> SUFFICES ASSUME Written > 0, back = "filled", InPlace /\ ~Overrun PROVE Aligned'
      BY <1>5 DEF Aligned
    <2>1. (size - At(Written)) % partitions[Written].kagSize = 0
      BY DEF IInv, Aligned
    <2>2. (At(Written))' = At(Written) /\ partitions'[Written].kagSize = partitions[Written].kagSize
      BY <1>1, <1>4, <1>5 DEF At, SameMembers, Numbers
    <2>3. (size' - (At(Written))') % partitions'[Written'].kagSize = 0
      BY <1>2, <1>5, <2>1, <2>2
    <2> QED BY <2>3 DEF Aligned
  <1>12. RIPThere'
    BY <1>5 DEF IInv, RIPThere
  <1>13. (At(cur))' + PackSize' <= position
    <2>1. cur \in 1 .. LastPartition /\ At(cur) + PackSize <= position
      BY <1>1 DEF Control, Positions, Numbers
    <2>2. (At(cur))' = At(cur) /\ PackSize' = PackSize
      BY <1>4, <2>1, SamePackSize DEF At
    <2> QED BY <2>1, <2>2
  <1> QED BY <1>2, <1>4, <1>6, <1>8, <1>9, <1>10, <1>11, <1>12, <1>13

LEMMA MarkStartStep ==
    ASSUME IInv, NEW r \in Regions, MarkStart(r)
    PROVE  IInv' /\ SamePlaces
  <1> DEFINE old == partitions[cur]
             new == [old EXCEPT !.markInPos = [old.markInPos EXCEPT ![r] = position]]
  <1>1. /\ pc = "content" /\ stage = "ended" /\ MayFollow(r)
        /\ partitions' = [partitions EXCEPT ![cur].markInPos[r] = position]
        /\ region' = r /\ stage' = "marked"
        /\ UNCHANGED <<fileVars, pc, cur, next, back>>
    BY DEF MarkStart
  <1>2. Control /\ Positions /\ Numbers
    BY NumbersHold DEF IInv
  <1>3. cur \in 1 .. LastPartition /\ old \in PartitionPacks /\ position \in Marks
    BY <1>1, <1>2 DEF Control, IInv, InOrder, LastPartition, Numbers, Marks
  <1>4. partitions' = [partitions EXCEPT ![cur] = new]
    BY <1>1
  <1>5. /\ new \in PartitionPacks /\ new.kind = old.kind /\ new.kagSize = old.kagSize
        /\ new.thisPartition = old.thisPartition /\ new.previousPartition = old.previousPartition
        /\ new.footerPartition = old.footerPartition /\ new.markInPos[r] = position
    <2> HIDE DEF old
    <2> QED BY <1>3 DEF PartitionPacks
  <1> HIDE DEF new
  <1>6. SameMembers /\ partitions'[cur] = new
    BY <1>3, <1>4, <1>5, Changing
  <1>7. HeaderWritten' => HeaderWritten
    BY <1>1 DEF HeaderWritten, MayFollow
  <1>8. /\ KLVsApart' /\ InOrder' /\ Whole' /\ PacksTrue' /\ RIPTrue' /\ Links' /\ Empty'
        /\ Aligned' /\ RIPThere'
        /\ (At(cur))' + PackSize' <= position
        /\ klvs' = klvs /\ size' = size /\ position' = position
        /\ LastPartition' = LastPartition /\ HasFooter' = HasFooter
    BY <1>1, <1>6, <1>7, QuietKeeps
  <1>9. Control'
    <2>1. InPlace' = InPlace /\ Overrun' = Overrun
      BY <1>1, <1>8 DEF InPlace, Overrun
    <2> QED BY <1>1, <1>2, <1>3, <1>8, <2>1 DEF Control, Updating, Numbers, Regions
  <1>10. partitions'[cur'].markInPos[region'] \in 0 .. position'
    BY <1>1, <1>2, <1>5, <1>6, <1>8 DEF Numbers
  <1>11. cur = 1 => r = "header" \/ (r = "index" /\ HeaderHasIndex)
    BY <1>1 DEF MayFollow, Regions
  <1>12. Positions'
    BY <1>1, <1>2, <1>8, <1>10, <1>11 DEF Positions
  <1> QED BY <1>8, <1>9, <1>12, PlacesStay, <1>6 DEF IInv

LEMMA MarkEndStep ==
    ASSUME IInv, MarkEnd
    PROVE  IInv' /\ SamePlaces
  <1> DEFINE old == partitions[cur]
             count == position - old.markInPos[region]
             new == [old EXCEPT !.byteCount = [old.byteCount EXCEPT ![region] = count],
                                !.markInPos = [old.markInPos EXCEPT ![region] = -1]]
  <1>1. /\ pc = "content" /\ stage \in {"written", "filled"}
        /\ cur = 1 /\ region = LastOfHeader => stage = "filled"
        /\ partitions' = [partitions EXCEPT ![cur].byteCount[region] = count,
                                            ![cur].markInPos[region] = -1]
        /\ stage' = "ended"
        /\ UNCHANGED <<fileVars, pc, region, cur, next, back>>
    BY DEF MarkEnd, ByteCount
  <1>2. Control /\ Positions /\ Numbers
    BY NumbersHold DEF IInv
  <1>3. cur \in 1 .. LastPartition /\ old \in PartitionPacks /\ region \in Regions /\ cur \in DOMAIN partitions
    BY <1>1, <1>2 DEF Control, IInv, InOrder, LastPartition, Numbers
  <1>4. count \in Nat
    <2>1. position \in Nat /\ stage # "ended"
      BY <1>1, <1>2 DEF Numbers
    <2>2. old.markInPos[region] \in 0 .. position
      BY <1>1, <1>2, <2>1 DEF Positions
    <2> HIDE DEF old
    <2> QED BY <2>1, <2>2
  <1>5. partitions' = [partitions EXCEPT ![cur] = new]
    <2> DEFINE counted == [old EXCEPT !.byteCount[region] = count]
               marked == [counted EXCEPT !.markInPos[region] = -1]
    <2>1. partitions' = [[partitions EXCEPT ![cur] = counted] EXCEPT ![cur].markInPos[region] = -1]
      BY <1>1
    <2>2. [partitions EXCEPT ![cur] = counted][cur] = counted
      BY <1>3
    <2>3. marked = new
      <3> HIDE DEF old, count
      <3> QED BY <1>3 DEF PartitionPacks
    <2> HIDE DEF counted, count, old
    <2>4. partitions' = [[partitions EXCEPT ![cur] = counted] EXCEPT ![cur] = marked]
      BY <2>1, <2>2
    <2> HIDE DEF marked, new
    <2> QED BY <2>3, <2>4
  <1>6. /\ new \in PartitionPacks /\ new.kind = old.kind /\ new.kagSize = old.kagSize
        /\ new.thisPartition = old.thisPartition /\ new.previousPartition = old.previousPartition
        /\ new.footerPartition = old.footerPartition
    <2> HIDE DEF old, count
    <2> QED BY <1>3, <1>4 DEF PartitionPacks, Marks
  <1> HIDE DEF new
  <1>7. SameMembers
    BY <1>3, <1>5, <1>6, Changing
  <1>8. HeaderWritten' => HeaderWritten
    BY <1>1 DEF HeaderWritten
  <1>9. /\ KLVsApart' /\ InOrder' /\ Whole' /\ PacksTrue' /\ RIPTrue' /\ Links' /\ Empty'
        /\ Aligned' /\ RIPThere'
        /\ (At(cur))' + PackSize' <= position
        /\ klvs' = klvs /\ size' = size /\ position' = position
        /\ LastPartition' = LastPartition /\ HasFooter' = HasFooter
    BY <1>1, <1>7, <1>8, QuietKeeps
  <1>10. Control'
    <2>1. InPlace' = InPlace /\ Overrun' = Overrun
      BY <1>1, <1>9 DEF InPlace, Overrun
    <2> QED BY <1>1, <1>2, <1>9, <2>1 DEF Control, Updating
  <1>11. Positions'
    <2>1. LastOfHeader' = LastOfHeader
      BY DEF LastOfHeader
    <2> QED BY <1>1, <1>2, <1>9, <2>1 DEF Positions
  <1> QED BY <1>9, <1>10, <1>11, PlacesStay, <1>7 DEF IInv
-----------------------------------------------------------------------------
(* Steps that go somewhere else in the file.                               *)
LEMMA StillKeeps ==
    ASSUME IInv, SamePlaces, klvs' = klvs, size' = size, position' \in 0 .. size,
           pc # "appended", pc' # "appended", HeaderDone' => HeaderDone
    PROVE  /\ KLVsApart' /\ InOrder' /\ PacksTrue' /\ RIPTrue' /\ Empty'
           /\ LastPartition' = LastPartition /\ HasFooter' = HasFooter
           /\ \A e \in 1 .. LastPartition : (At(e))' = At(e)
           /\ \A e \in 1 .. LastPartition : (Previous(e))' = Previous(e)
           /\ Written = LastPartition /\ Written' = LastPartition
           /\ Packs' = Packs /\ RIPs' = RIPs
           /\ (Written > 0 => (size - At(Written)) % partitions[Written].kagSize = 0) => Aligned'
           /\ ~Overrun /\ (InPlace => Tiled(klvs, 0, size)) /\ ~InPlace' /\ pc' # "content" => Whole'
  <1>1. Numbers /\ InOrder
    BY NumbersHold DEF IInv
  <1>2. OnlyLost /\ PacksOnlyLost
    BY DEF OnlyLost, PacksOnlyLost
  <1>3. /\ LastPartition' = LastPartition /\ HasFooter' = HasFooter
        /\ \A e \in 1 .. LastPartition : (At(e))' = At(e)
        /\ \A e \in 1 .. LastPartition : (Previous(e))' = Previous(e)
    BY SameAt DEF SamePlaces
  <1>4. Written = LastPartition /\ Written' = LastPartition /\ Packs' = Packs /\ RIPs' = RIPs
    BY <1>3 DEF Written, Packs, RIPs
  <1>5. KLVsApart' /\ Empty'
    BY <1>1, <1>4 DEF IInv, KLVsApart, Empty, Numbers
  <1>6. HeaderDone => BodyOffset <= size
    BY <1>1 DEF InOrder
  <1>7. InOrder'
    BY <1>1, <1>4, <1>6, KeepOrder DEF Numbers
  <1>8. PacksTrue' /\ RIPTrue'
    BY <1>2, <1>4, KeepPacks, KeepRIP
  <1>9. ASSUME Written > 0 => (size - At(Written)) % partitions[Written].kagSize = 0
        PROVE  Aligned'
    <2> SUFFICES ASSUME Written > 0 PROVE Aligned'
      BY <1>4 DEF Aligned
    <2>1. (At(Written))' = At(Written) /\ partitions'[Written].kagSize = partitions[Written].kagSize
      BY <1>1, <1>3, <1>4 DEF At, SamePlaces, Numbers
    <2>2. (size' - (At(Written))') % partitions'[Written'].kagSize = 0
      BY <1>4, <1>9, <2>1
    <2> QED BY <2>2 DEF Aligned
  <1>10. ASSUME ~Overrun, InPlace => Tiled(klvs, 0, size), ~InPlace', pc' # "content"
         PROVE  Whole'
    <2>1. Whole
      BY DEF IInv
    <2>2. \A e \in 1 .. LastPartition : (At(e))' \in Packs'
      BY <1>3, <1>4, <1>10, <2>1 DEF Whole
    <2>3. Tiled(klvs, 0, size)
      BY <1>10, <2>1 DEF Whole
    <2> QED BY <1>4, <1>10, <2>1, <2>2, <2>3 DEF Whole
  <1> QED BY <1>3, <1>4, <1>5, <1>7, <1>8, <1>9, <1>10

LEMMA MetadataPosIs ==
    ASSUME IInv, HeaderDone, ~Overrun
    PROVE  /\ MetadataPos \in DOMAIN klvs /\ klvs[MetadataPos].what = "header"
           /\ \A q \in DOMAIN klvs : klvs[q].what = "header" => MetadataPos <= q
  <1> DEFINE headers == {p \in DOMAIN klvs : klvs[p].what = "header"}
  <1>1. headers \subseteq Nat /\ headers # {}
    BY NumbersHold DEF Numbers, IInv, Whole
  <1>2. PICK p \in headers : \A q \in headers : p <= q
    <2> HIDE DEF headers
    <2> QED BY <1>1, Least
  <1>3. p \in DOMAIN klvs /\ klvs[p].what = "header"
        /\ \A q \in DOMAIN klvs : klvs[q].what = "header" => p <= q
    BY <1>2
  <1> QED BY <1>3 DEF MetadataPos

LEMMA GoToMetadataStep ==
    ASSUME IInv, GoToMetadata
    PROVE  IInv'
  <1>1. /\ pc \in {"filled", "rip"} /\ LastPartition > 1
        /\ position' = MetadataPos /\ klvs' = klvs /\ size' = size
        /\ pc' = "content" /\ region' = "pack" /\ stage' = "ended"
        /\ cur' = 1 /\ back' = pc
        /\ partitions' = partitions /\ next' = next
    BY DEF GoToMetadata, Seek
  <1>2. Numbers /\ Control /\ Positions /\ InOrder /\ PacksTrue /\ KLVsApart
    BY NumbersHold DEF IInv
  <1>3. ~InPlace /\ ~Overrun /\ HeaderDone /\ ~Updating /\ ~Updating' /\ LastPartition' = LastPartition
    BY <1>1 DEF InPlace, Overrun, HeaderDone, Updating, LastPartition
  <1>4. /\ MetadataPos \in DOMAIN klvs /\ klvs[MetadataPos].what = "header"
        /\ MetadataPos \in Nat /\ MetadataPos <= size
    BY <1>2, <1>3, MetadataPosIs DEF Numbers
  <1>5. SamePlaces /\ SameMembers
    BY <1>1, PlacesStay, UnchangedMembers
  <1>6. /\ KLVsApart' /\ InOrder' /\ PacksTrue' /\ RIPTrue' /\ Empty'
        /\ HasFooter' = HasFooter
        /\ \A e \in 1 .. LastPartition : (At(e))' = At(e)
        /\ Written = LastPartition /\ Written' = LastPartition
        /\ Packs' = Packs /\ RIPs' = RIPs
        /\ (Written > 0 => (size - At(Written)) % partitions[Written].kagSize = 0) => Aligned'
    BY <1>1, <1>3, <1>4, <1>5, StillKeeps
  <1>7. InPlace'
    BY <1>1, <1>2, <1>3 DEF InPlace, Numbers
  <1>8. Links'
    <2>1. PacksOnlyLost
      BY <1>1 DEF PacksOnlyLost
    <2> QED BY <1>3, <1>5, <1>6, <2>1, KeepLinks
  <1>9. PackSize <= MetadataPos
    <2>1. 0 \in DOMAIN klvs /\ klvs[0].what = "pack" /\ klvs[0].len = PackSize
      BY <1>1, <1>2, <1>6 DEF PacksTrue, Packs, Numbers
    <2>2. 0 < MetadataPos
      BY <1>4, <2>1
    <2>3. 0 + klvs[0].len <= MetadataPos
      BY <1>2, <1>4, <2>1, <2>2 DEF KLVsApart, Apart
    <2> QED BY <1>2, <2>1, <2>3 DEF Numbers
  <1>10. Control'
    BY <1>1, <1>2, <1>3, <1>6, <1>7 DEF Control, Numbers
  <1>11. Positions'
    <2>1. (At(1))' = 0 /\ PackSize' = PackSize
      BY <1>1, <1>2, <1>6, SamePackSize DEF InOrder, Numbers
    <2>2. (At(cur))' + PackSize' <= position'
      <3>1. (At(cur))' = (At(1))'
        BY <1>1 DEF At
      <3> QED BY <1>1, <1>2, <1>9, <2>1, <3>1 DEF Numbers
    <2>3. region' # LastOfHeader'
      BY <1>1 DEF LastOfHeader
    <2> QED BY <1>1, <1>3, <2>2, <2>3 DEF Positions
  <1>12. Aligned'
    <2>1. CASE pc = "filled"
      BY <1>6, <2>1 DEF IInv, Aligned
    <2>2. CASE pc = "rip"
      BY <1>1, <2>2 DEF Aligned, Updating
    <2> QED BY <1>1, <2>1, <2>2
  <1>13. RIPThere'
    BY <1>1, <1>3, <1>6 DEF IInv, RIPThere
  <1>14. Whole'
    <2>1. Whole /\ Tiled(klvs, 0, size) /\ (BodyOffset < size => BodyOffset \in DOMAIN klvs) /\ BodyOffset <= size
      BY <1>2, <1>3 DEF IInv, Whole, InOrder
    <2>2. \A e \in 1 .. LastPartition : (At(e))' \in Packs'
      BY <1>3, <1>6, <2>1 DEF Whole
    <2>3. Tiled(klvs, 0, position') /\ Tiled(klvs, BodyOffset, size)
      BY <1>1, <1>2, <1>4, <2>1, TiledSplit DEF KLVsApart, Numbers
    <2>4. ~HeaderWritten'
      BY <1>1 DEF HeaderWritten
    <2> QED BY <1>1, <1>3, <1>4, <1>6, <1>7, <2>1, <2>2, <2>3, <2>4 DEF Whole
  <1> QED BY <1>6, <1>8, <1>10, <1>11, <1>12, <1>13, <1>14 DEF IInv

LEMMA GoToEndStep ==
    ASSUME IInv, GoToEnd
    PROVE  IInv'
  <1>1. /\ pc = "content" /\ stage = "ended" /\ cur = 1 /\ LastPartition > 1 /\ region = LastOfHeader
        /\ position' = size /\ klvs' = klvs /\ size' = size
        /\ pc' = back /\ back' = "filled"
        /\ region' = "none" /\ cur' = LastPartition
        /\ partitions' = partitions /\ stage' = stage /\ next' = next
    BY DEF GoToEnd, SeekEnd, Seek
  <1>2. Numbers /\ Control /\ Positions /\ KLVsApart
    BY NumbersHold DEF IInv
  <1>3. InPlace /\ position = BodyOffset
    BY <1>1, <1>2 DEF InPlace, Positions, Numbers
  <1>4. ~Overrun /\ HeaderDone /\ BodyOffset < size
    BY <1>2, <1>3, InPlaceIs DEF Numbers
  <1>5. pc' \in {"filled", "rip"} /\ ~InPlace' /\ ~Updating /\ ~Updating' /\ LastPartition' = LastPartition
    BY <1>1, <1>2 DEF Control, InPlace, Updating, LastPartition
  <1>6. Tiled(klvs, 0, size)
    <2>1. Tiled(klvs, 0, BodyOffset) /\ Tiled(klvs, BodyOffset, size)
      BY <1>3, <1>4 DEF IInv, Whole
    <2> QED BY <1>2, <1>4, <2>1, TiledJoin DEF KLVsApart, Numbers
  <1>7. SamePlaces /\ SameMembers
    BY <1>1, PlacesStay, UnchangedMembers
  <1>8. /\ KLVsApart' /\ InOrder' /\ PacksTrue' /\ RIPTrue' /\ Empty'
        /\ HasFooter' = HasFooter
        /\ \A e \in 1 .. LastPartition : (At(e))' = At(e)
        /\ Written = LastPartition /\ Written' = LastPartition
        /\ Packs' = Packs /\ RIPs' = RIPs
        /\ (Written > 0 => (size - At(Written)) % partitions[Written].kagSize = 0) => Aligned'
        /\ Whole'
    BY <1>1, <1>2, <1>4, <1>5, <1>6, <1>7, StillKeeps DEF Numbers
  <1>9. Links'
    <2>1. PacksOnlyLost
      BY <1>1 DEF PacksOnlyLost
    <2> QED BY <1>5, <1>7, <1>8, <2>1, KeepLinks
  <1>10. Control'
    BY <1>1, <1>2, <1>5, <1>8 DEF Control, Numbers
  <1>11. Positions'
    BY <1>1, <1>5 DEF Positions
  <1>12. Aligned'
    <2>1. CASE back = "filled"
      BY <1>3, <1>4, <1>8, <2>1 DEF IInv, Aligned
    <2>2. CASE back # "filled"
      BY <1>1, <1>5, <2>2 DEF Aligned
    <2> QED BY <2>1, <2>2
  <1>13. RIPThere'
    BY <1>1, <1>4, <1>8 DEF IInv, RIPThere
  <1> QED BY <1>8, <1>9, <1>10, <1>11, <1>12, <1>13 DEF IInv
-----------------------------------------------------------------------------
(* Steps of mxf_update_partitions.                                         *)
LEMMA UpdatingIs ==
    ASSUME IInv, Updating
    PROVE  /\ ~InPlace /\ ~Overrun /\ HeaderDone /\ LastPartition > 0 /\ Written = LastPartition
           /\ pc \notin {"content", "appended"}
           /\ Tiled(klvs, 0, size)
  <1>1. ~InPlace /\ ~Overrun /\ pc \notin {"content", "appended"} /\ Written = LastPartition
    BY DEF Updating, InPlace, Overrun, Written
  <1>2. LastPartition > 0
    BY DEF IInv, Control, Updating
  <1>3. HeaderDone
    BY <1>2, NumbersHold DEF HeaderDone, Numbers
  <1> QED BY <1>1, <1>2, <1>3 DEF IInv, Whole

LEMMA SeekToPartitionStep ==
    ASSUME IInv, SeekToPartition
    PROVE  IInv'
  <1>1. /\ pc = "update" /\ next <= LastPartition
        /\ position' = partitions[next].thisPartition /\ klvs' = klvs /\ size' = size
        /\ pc' = "rewrite"
        /\ partitions' = partitions /\ region' = region /\ stage' = stage /\ cur' = cur /\ next' = next /\ back' = back
    BY DEF SeekToPartition, Seek, client
  <1>2. Numbers /\ Control /\ InOrder /\ Links
    BY NumbersHold DEF IInv
  <1>3. Updating /\ Updating' /\ ~InPlace' /\ ~Overrun' /\ LastPartition' = LastPartition
    BY <1>1 DEF Updating, InPlace, Overrun, LastPartition
  <1>4. /\ ~InPlace /\ ~Overrun /\ HeaderDone /\ LastPartition > 0 /\ Written = LastPartition
        /\ Tiled(klvs, 0, size)
    BY <1>3, UpdatingIs
  <1>5. next \in 1 .. LastPartition /\ position' = At(next) /\ At(next) \in 0 .. size
    <2>1. next \in 1 .. LastPartition
      BY <1>1, <1>2, <1>3 DEF Control, Numbers
    <2>2. At(next) \in Nat /\ At(next) + PackSize <= size
      BY <1>2, <1>4, <2>1 DEF InOrder, Numbers
    <2> QED BY <1>1, <1>2, <2>1, <2>2 DEF At, Numbers
  <1>6. SamePlaces
    BY <1>1, PlacesStay, UnchangedMembers
  <1>7. /\ KLVsApart' /\ InOrder' /\ PacksTrue' /\ RIPTrue' /\ Empty'
        /\ HasFooter' = HasFooter
        /\ \A e \in 1 .. LastPartition : (At(e))' = At(e)
        /\ \A e \in 1 .. LastPartition : (Previous(e))' = Previous(e)
        /\ Packs' = Packs /\ RIPs' = RIPs
        /\ (Written > 0 => (size - At(Written)) % partitions[Written].kagSize = 0) => Aligned'
        /\ Whole'
    BY <1>1, <1>3, <1>4, <1>5, <1>6, StillKeeps
  <1>8. (At(next))' = At(next)
    BY <1>1 DEF At
  <1>9. Control'
    BY <1>1, <1>2, <1>3, <1>5, <1>7, <1>8 DEF Control
  <1>10. Positions'
    BY <1>1 DEF Positions
  <1>11. Aligned'
    <2>1. CASE back = "filled"
      BY <1>3, <1>7, <2>1 DEF IInv, Aligned
    <2>2. CASE back # "filled"
      BY <1>1, <2>2 DEF Aligned
    <2> QED BY <2>1, <2>2
  <1>12. RIPThere'
    BY <1>1, <1>4, <1>7 DEF IInv, RIPThere
  <1>13. Links'
    <2>1. HasFooter => LastPartition \in 1 .. LastPartition
      BY <1>2 DEF HasFooter, Numbers
    <2>2. \A e \in 1 .. next - 1 : e \in 1 .. LastPartition
      BY <1>2, <1>5 DEF Numbers
    <2>3. ASSUME NEW e \in 1 .. next - 1
          PROVE  klvs'[(At(e))'].holds.previousPartition = (Previous(e))'
      <3>1. klvs[At(e)].holds.previousPartition = Previous(e)
        BY <1>2, <1>3 DEF Links
      <3> QED BY <1>1, <1>7, <2>2, <3>1
    <2>4. HasFooter => (At(LastPartition))' = At(LastPartition)
      BY <1>1 DEF At, LastPartition
    <2>5. \A e \in 1 .. LastPartition : partitions'[e].previousPartition = (Previous(e))'
      BY <1>1, <1>2, <1>3, <1>7 DEF Links
    <2> QED BY <1>1, <1>2, <1>3, <1>7, <2>3, <2>4, <2>5 DEF Links
  <1> QED BY <1>7, <1>9, <1>10, <1>11, <1>12, <1>13 DEF IInv

LEMMA UpdateReturnsStep ==
    ASSUME IInv, UpdateReturns
    PROVE  IInv'
  <1>1. /\ pc = "update" /\ next > LastPartition
        /\ position' = size /\ klvs' = klvs /\ size' = size
        /\ pc' = back /\ back' = "filled" /\ next' = 0
        /\ partitions' = partitions /\ region' = region /\ stage' = stage /\ cur' = cur
    BY DEF UpdateReturns, SeekEnd, Seek
  <1>2. Numbers /\ Control /\ InOrder /\ Links
    BY NumbersHold DEF IInv
  <1>3. pc' \in {"filled", "rip"} /\ ~InPlace' /\ ~Overrun' /\ Updating /\ ~Updating' /\ LastPartition' = LastPartition
    BY <1>1, <1>2 DEF Control, Updating, InPlace, Overrun, LastPartition
  <1>4. /\ ~InPlace /\ ~Overrun /\ HeaderDone /\ LastPartition > 0 /\ Written = LastPartition
        /\ Tiled(klvs, 0, size)
    BY <1>3, UpdatingIs
  <1>5. SamePlaces
    BY <1>1, PlacesStay, UnchangedMembers
  <1>6. /\ KLVsApart' /\ InOrder' /\ PacksTrue' /\ RIPTrue' /\ Empty'
        /\ HasFooter' = HasFooter
        /\ \A e \in 1 .. LastPartition : (At(e))' = At(e)
        /\ \A e \in 1 .. LastPartition : (Previous(e))' = Previous(e)
        /\ Packs' = Packs /\ RIPs' = RIPs
        /\ (Written > 0 => (size - At(Written)) % partitions[Written].kagSize = 0) => Aligned'
        /\ Whole'
    BY <1>1, <1>2, <1>3, <1>4, <1>5, StillKeeps DEF Numbers
  <1>7. Control'
    BY <1>1, <1>2, <1>3, <1>4, <1>6 DEF Control, Numbers
  <1>8. Positions'
    BY <1>1, <1>3 DEF Positions
  <1>9. Aligned'
    <2>1. CASE back = "filled"
      BY <1>3, <1>6, <2>1 DEF IInv, Aligned
    <2>2. CASE back # "filled"
      BY <1>1, <1>3, <2>2 DEF Aligned
    <2> QED BY <2>1, <2>2
  <1>10. RIPThere'
    BY <1>1, <1>4, <1>6 DEF IInv, RIPThere
  <1>11. Links'
    <2>1. HasFooter => (At(LastPartition))' = At(LastPartition)
      BY <1>1 DEF At, LastPartition
    <2>2. \A e \in 1 .. LastPartition : e \in 1 .. next - 1
      BY <1>1, <1>2 DEF Control, Numbers
    <2>3. ASSUME NEW e \in 1 .. LastPartition
          PROVE  klvs'[(At(e))'].holds.previousPartition = (Previous(e))'
      <3>1. klvs[At(e)].holds.previousPartition = Previous(e)
        BY <1>2, <1>3, <2>2 DEF Links
      <3> QED BY <1>1, <1>6, <3>1
    <2> QED BY <1>1, <1>2, <1>3, <1>6, <2>1, <2>3 DEF Links
  <1> QED BY <1>6, <1>7, <1>8, <1>9, <1>10, <1>11 DEF IInv

LEMMA UpdateInMemoryStep ==
    ASSUME IInv, UpdateInMemory
    PROVE  IInv' /\ SamePlaces
  <1> DEFINE n == LastPartition
  <1>1. /\ pc = "filled" \/ pc = "rip"
        /\ pc = "filled" => n > 0 /\ ~FooterAppended
        /\ partitions' = [e \in 1 .. n |-> Linked(e)]
        /\ pc' = "update" /\ back' = pc /\ next' = 1
        /\ klvs' = klvs /\ size' = size /\ position' = position
        /\ region' = region /\ stage' = stage /\ cur' = cur
    BY DEF UpdateInMemory, fileVars
  <1>2. Numbers /\ Control /\ Positions /\ InOrder /\ Links
    BY NumbersHold DEF IInv
  <1>3. /\ n \in Nat /\ n > 0 /\ ~InPlace /\ ~Overrun /\ ~InPlace' /\ ~Overrun' /\ ~Updating /\ Updating'
        /\ pc # "appended" /\ Written = n
        /\ pc = "filled" => ~HasFooter
        /\ pc = "rip" => HasFooter
    BY <1>1, <1>2 DEF Numbers, Control, InPlace, Overrun, Updating, Written, HasFooter
  <1>4. ASSUME NEW e \in 1 .. n
        PROVE  /\ Linked(e) \in PartitionPacks
               /\ Linked(e).kind = partitions[e].kind /\ Linked(e).kagSize = partitions[e].kagSize
               /\ Linked(e).thisPartition = At(e)
               /\ Linked(e).previousPartition = Previous(e)
               /\ Linked(e).footerPartition = IF HasFooter THEN At(n) ELSE partitions[e].footerPartition
    <2> DEFINE old == partitions[e]
               previous == IF e > 1 THEN At(e - 1) ELSE old.previousPartition
               last == IF HasFooter THEN At(n) ELSE old.footerPartition
    <2>1. old \in PartitionPacks
      BY <1>2 DEF InOrder, LastPartition
    <2>2. previous \in Nat /\ last \in Nat
      <3>1. e > 1 => At(e - 1) \in Nat
        BY <1>2, <1>3 DEF Numbers
      <3>2. At(n) \in Nat
        BY <1>2, <1>3 DEF Numbers
      <3> QED BY <1>2, <3>1, <3>2 DEF Numbers
    <2>3. previous = Previous(e)
      BY <1>2, <1>3 DEF Links, Previous
    <2>4. Linked(e) = [old EXCEPT !.previousPartition = previous, !.footerPartition = last]
      <3>1. HaveFooter <=> HasFooter
        BY <1>3 DEF HaveFooter, HasFooter, FooterAppended
      <3> QED BY <2>1, <3>1 DEF Linked, At, PartitionPacks
    <2>5. old.thisPartition = At(e)
      BY DEF At
    <2> HIDE DEF old, previous
    <2>6. last = IF HasFooter THEN At(n) ELSE old.footerPartition
      OBVIOUS
    <2> HIDE DEF last
    <2>7. /\ Linked(e) \in PartitionPacks
          /\ Linked(e).kind = old.kind /\ Linked(e).kagSize = old.kagSize
          /\ Linked(e).thisPartition = old.thisPartition
          /\ Linked(e).previousPartition = previous
          /\ Linked(e).footerPartition = last
      BY <2>1, <2>2, <2>4 DEF PartitionPacks
    <2> QED BY <2>3, <2>5, <2>6, <2>7 DEF old
  <1>5. /\ partitions' \in Seq(PartitionPacks) /\ LastPartition' = n
        /\ \A e \in 1 .. n : partitions'[e] = Linked(e)
    <2>1. partitions' \in Seq(PartitionPacks) /\ Len(partitions') = n
      <3> HIDE DEF n
      <3> QED BY <1>1, <1>3, <1>4
    <2> QED BY <1>1, <2>1 DEF LastPartition
  <1>6. SamePlaces
    BY <1>4, <1>5 DEF SamePlaces, At
  <1>7. HeaderDone
    <2>1. pc = "rip" => n # 1
      BY <1>2, <1>3 DEF InOrder, HasFooter, FooterAppended
    <2> QED BY <1>1, <1>3, <2>1 DEF HeaderDone
  <1>8. /\ KLVsApart' /\ InOrder' /\ PacksTrue' /\ RIPTrue' /\ Empty'
        /\ HasFooter' = HasFooter
        /\ \A e \in 1 .. LastPartition : (At(e))' = At(e)
        /\ \A e \in 1 .. LastPartition : (Previous(e))' = Previous(e)
        /\ Packs' = Packs /\ RIPs' = RIPs
        /\ (Written > 0 => (size - At(Written)) % partitions[Written].kagSize = 0) => Aligned'
        /\ Whole'
    BY <1>1, <1>2, <1>3, <1>6, <1>7, StillKeeps DEF Numbers
  <1>9. Control'
    BY <1>1, <1>2, <1>3, <1>5, <1>8 DEF Control
  <1>10. Positions'
    BY <1>1 DEF Positions
  <1>11. Aligned'
    <2>1. CASE pc = "filled"
      BY <1>8, <2>1 DEF IInv, Aligned
    <2>2. CASE pc = "rip"
      BY <1>1, <2>2 DEF Aligned
    <2> QED BY <1>1, <2>1, <2>2
  <1>12. RIPThere'
    BY <1>1, <1>3, <1>8 DEF IInv, RIPThere
  <1>13. Links'
    <2>1. partitions'[1].previousPartition = 0
      <3>1. 1 \in 1 .. n
        BY <1>3
      <3> QED BY <1>4, <1>5, <3>1 DEF Previous
    <2>2. \A e \in 1 .. n : partitions'[e].footerPartition # 0 =>
              HasFooter /\ partitions'[e].footerPartition = At(n)
      BY <1>2, <1>4, <1>5 DEF Links
    <2>3. (At(LastPartition))' = At(n)
      <3>1. n \in 1 .. n
        BY <1>3
      <3>2. (At(LastPartition))' = partitions'[n].thisPartition
        BY <1>5 DEF At
      <3> QED BY <1>4, <1>5, <3>1, <3>2
    <2>4. \A e \in 1 .. n : partitions'[e].previousPartition = (Previous(e))'
      BY <1>4, <1>5, <1>8
    <2>5. \A e \in 1 .. next' - 1 : FALSE
      BY <1>1
    <2> QED BY <1>3, <1>5, <1>8, <2>1, <2>2, <2>3, <2>4, <2>5 DEF Links
  <1> QED BY <1>8, <1>9, <1>10, <1>11, <1>12, <1>13, PlacesStay, <1>6 DEF IInv

LEMMA RewritePartitionStep ==
    ASSUME IInv, RewritePartition
    PROVE  IInv' /\ SamePlaces
  <1> DEFINE n == LastPartition
             at == At(next)
             pack == KLV("pack", KLVLen(PackLen), Pack(Placed(partitions[next])))
  <1>1. /\ pc = "rewrite" /\ partitions' = [partitions EXCEPT ![next] = Placed(@)]
        /\ Write(pack)
        /\ next' = next + 1 /\ pc' = "update"
        /\ region' = region /\ stage' = stage /\ cur' = cur /\ back' = back
    BY DEF RewritePartition, WritePack
  <1>2. Numbers /\ Control /\ InOrder /\ Links /\ PacksTrue /\ KLVsApart /\ Whole
    BY NumbersHold DEF IInv
  <1>3. Updating /\ Updating' /\ ~InPlace' /\ ~Overrun'
    BY <1>1 DEF Updating, InPlace, Overrun
  <1>4. /\ ~InPlace /\ ~Overrun /\ HeaderDone /\ n > 0 /\ Written = n
        /\ Tiled(klvs, 0, size)
    BY <1>3, UpdatingIs
  <1>5. /\ next \in 1 .. n /\ position = at /\ at \in Nat /\ at + PackSize <= size
        /\ at \in Packs /\ at \in DOMAIN klvs /\ klvs[at].len = PackSize /\ klvs[at].what = "pack"
        /\ next \in Nat /\ n \in Nat /\ size \in Nat
    <2>1. next \in 1 .. n /\ position = at
      BY <1>1, <1>2, <1>3 DEF Control, Numbers
    <2>2. at \in Nat /\ at + PackSize <= size /\ at \in Packs
      BY <1>2, <1>4, <2>1 DEF InOrder, Whole, Numbers
    <2> QED BY <1>2, <2>1, <2>2 DEF Packs, PacksTrue, Numbers
  <1>6. /\ partitions' \in Seq(PartitionPacks) /\ LastPartition' = n
        /\ \A j \in 1 .. n : j # next => partitions'[j] = partitions[j]
        /\ partitions'[next].kind = partitions[next].kind
        /\ partitions'[next].kagSize = partitions[next].kagSize
        /\ partitions'[next].thisPartition = at
        /\ partitions'[next].previousPartition = partitions[next].previousPartition
        /\ partitions'[next].footerPartition =
              IF partitions[next].kind = "footer" THEN at ELSE partitions[next].footerPartition
    <2> HIDE DEF at
    <2> QED BY <1>1, <1>5, PlacedIs
  <1>7. /\ pack.what = "pack" /\ pack.len = PackSize
        /\ pack.holds.thisPartition = at
        /\ pack.holds.previousPartition = partitions[next].previousPartition
        /\ pack.holds.footerPartition =
              IF partitions[next].kind = "footer" THEN at ELSE partitions[next].footerPartition
    <2>1. pack.what = "pack" /\ pack.len = PackSize /\ pack.holds = Pack(Placed(partitions[next]))
      BY DEF KLV, PackSize
    <2>2. /\ Placed(partitions[next]).thisPartition = at
          /\ Placed(partitions[next]).previousPartition = partitions[next].previousPartition
          /\ Placed(partitions[next]).footerPartition =
                IF partitions[next].kind = "footer" THEN at ELSE partitions[next].footerPartition
      <3> HIDE DEF at
      <3> QED BY <1>1, <1>5, PlacedIs
    <2> HIDE DEF pack, at
    <2> QED BY <2>1, <2>2 DEF Pack
  <1> HIDE DEF pack, at
  <1>8. SamePlaces
    BY <1>5, <1>6 DEF SamePlaces, At, at
  <1>9. /\ \A e \in 1 .. n : (At(e))' = At(e)
        /\ HasFooter' = HasFooter
        /\ \A e \in 1 .. n : (Previous(e))' = Previous(e)
    BY <1>8, SameAt
  <1>10. partitions[next].kind = "footer" => HasFooter /\ at = At(n)
    BY <1>2, <1>4, <1>5 DEF InOrder, HasFooter, FooterAppended, at
  <1>11. /\ Apart(klvs', size') /\ size' = size /\ position' = at + PackSize
         /\ DOMAIN klvs' = DOMAIN klvs
         /\ \A p \in DOMAIN klvs : p # at => klvs'[p] = klvs[p]
         /\ klvs'[at] = pack
         /\ Tiled(klvs', 0, size)
    <2>1. klvs' = WithKLV(klvs, at, pack) /\ position' = at + pack.len
          /\ size' = Larger(size, at + pack.len)
      BY <1>1, <1>5, WriteIs
    <2>2. IsKLV(pack) /\ pack.len = klvs[at].len /\ Apart(klvs, size)
      BY <1>2, <1>5, <1>7 DEF IsKLV, Numbers, KLVsApart
    <2>3. size' = size
      BY <1>2, <1>5, <1>7, <2>1 DEF Larger, Numbers
    <2>4. Apart(klvs', size')
      BY <1>5, <2>1, <2>2, ApartAfter
    <2>5. klvs'[at] = pack
      BY <1>5, <2>1, <2>2, WithKLVIs
    <2>6. /\ DOMAIN klvs' = DOMAIN klvs
          /\ \A p \in DOMAIN klvs : p # at => klvs'[p] = klvs[p]
          /\ Tiled(klvs', 0, size)
      BY <1>4, <1>5, <2>1, <2>2, TiledAround
    <2> QED BY <1>7, <2>1, <2>3, <2>4, <2>5, <2>6
  <1>12. Written' = n /\ Packs' = Packs
    BY <1>1, <1>5, <1>6, <1>7, <1>11 DEF Written, Packs
  <1>13. RIPs' = RIPs
    BY <1>5, <1>7, <1>11 DEF RIPs
  <1>14. KLVsApart' /\ Empty'
    BY <1>2, <1>4, <1>5, <1>11, <1>12 DEF KLVsApart, Empty, Numbers
  <1>15. PackSize' = PackSize
    BY SamePackSize
  <1>16. InOrder'
    <2>1. BodyOffset <= size
      BY <1>2, <1>4 DEF InOrder
    <2> QED BY <1>4, <1>5, <1>8, <1>11, <1>12, <2>1, KeepOrder
  <1>17. Control'
    BY <1>1, <1>2, <1>3, <1>5, <1>6, <1>9 DEF Control
  <1>18. Positions'
    BY <1>1 DEF Positions
  <1>19. Aligned'
    <2> SUFFICES ASSUME back = "filled" PROVE Aligned'
      BY <1>1 DEF Aligned
    <2>1. (size - At(n)) % partitions[n].kagSize = 0
      BY <1>3, <1>4 DEF IInv, Aligned
    <2>2. n \in 1 .. n
      BY <1>4, <1>5
    <2>3. (At(n))' = At(n) /\ partitions'[n].kagSize = partitions[n].kagSize
      BY <1>8, <1>9, <2>2 DEF SamePlaces
    <2>4. (At(Written))' = (At(n))'
      BY <1>12, <1>6 DEF At
    <2>5. (size' - (At(Written))') % partitions'[Written'].kagSize = 0
      BY <1>11, <1>12, <2>1, <2>3, <2>4
    <2> QED BY <2>5 DEF Aligned
  <1>20. Whole'
    <2>1. \A e \in 1 .. n : (At(e))' \in Packs'
      BY <1>2, <1>4, <1>9, <1>12 DEF Whole
    <2>2. BodyOffset < size => BodyOffset \in DOMAIN klvs'
      BY <1>2, <1>4, <1>11 DEF Whole
    <2>3. \E p \in DOMAIN klvs' : klvs'[p].what = "header"
      <3>1. PICK p \in DOMAIN klvs : klvs[p].what = "header"
        BY <1>2, <1>4 DEF Whole
      <3> QED BY <1>5, <1>11, <3>1
    <2> QED BY <1>1, <1>3, <1>11, <1>12, <2>1, <2>2, <2>3 DEF Whole
  <1>21. PacksTrue'
    <2>1. n \in 1 .. n /\ (At(LastPartition))' = partitions'[n].thisPartition
      BY <1>4, <1>5, <1>6 DEF At
    <2>2. (At(LastPartition))' = At(n)
      BY <1>8, <2>1 DEF SamePlaces, At
    <2>3. ASSUME NEW p \in Packs
          PROVE  /\ klvs'[p].len = PackSize
                 /\ klvs'[p].holds.thisPartition = p
                 /\ klvs'[p].holds.footerPartition # 0 =>
                      HasFooter /\ klvs'[p].holds.footerPartition = At(n)
                 /\ \E e \in 1 .. n : p = (At(e))'
      <3>1. \E e \in 1 .. n : p = (At(e))'
        BY <1>2, <1>4, <1>9 DEF PacksTrue
      <3>2. CASE p = at
        <4>1. partitions[next].footerPartition # 0 => HasFooter /\ partitions[next].footerPartition = At(n)
          BY <1>2, <1>5 DEF Links
        <4> QED BY <1>7, <1>10, <1>11, <3>1, <3>2, <4>1
      <3>3. CASE p # at
        BY <1>2, <1>11, <3>1, <3>3 DEF PacksTrue, Packs
      <3> QED BY <3>2, <3>3
    <2> QED BY <1>2, <1>4, <1>6, <1>9, <1>12, <1>15, <2>2, <2>3 DEF PacksTrue
  <1>22. RIPTrue'
    <2>1. [e \in 1 .. LastPartition |-> At(e)]' = [e \in 1 .. n |-> At(e)]
      BY <1>6, <1>9
    <2>2. \A p \in DOMAIN klvs' : klvs'[p].what = "rip" =>
              HasFooter /\ klvs'[p].holds = [e \in 1 .. n |-> At(e)]
      BY <1>7, <1>11 DEF IInv, RIPTrue
    <2> QED BY <1>1, <1>9, <2>1, <2>2 DEF RIPTrue
  <1>23. RIPThere'
    BY <1>1, <1>4, <1>13 DEF IInv, RIPThere
  <1>24. Links'
    <2>1. 1 \in 1 .. n /\ n \in 1 .. n /\ (At(LastPartition))' = (At(n))' /\ (At(n))' = At(n)
      BY <1>4, <1>5, <1>6, <1>9 DEF At
    <2>2. \A e \in 1 .. n : partitions'[e].previousPartition = partitions[e].previousPartition
      BY <1>5, <1>6
    <2>3. partitions'[1].previousPartition = 0
      BY <1>2, <1>4, <2>1, <2>2 DEF Links
    <2>4. ASSUME NEW e \in 1 .. n, partitions'[e].footerPartition # 0
          PROVE  HasFooter /\ partitions'[e].footerPartition = At(n)
      <3>1. partitions[e].footerPartition # 0 => HasFooter /\ partitions[e].footerPartition = At(n)
        BY <1>2 DEF Links
      <3>2. CASE e = next
        BY <1>6, <1>10, <2>4, <3>1, <3>2
      <3>3. CASE e # next
        BY <1>6, <2>4, <3>1, <3>3
      <3> QED BY <3>2, <3>3
    <2>5. \A e \in 1 .. n : partitions'[e].previousPartition = (Previous(e))'
      BY <1>2, <1>3, <1>9, <2>2 DEF Links
    <2>6. ASSUME NEW e \in 1 .. next
          PROVE  klvs'[(At(e))'].holds.previousPartition = (Previous(e))'
      <3>1. e \in 1 .. n /\ (At(e))' = At(e) /\ (Previous(e))' = Previous(e)
        BY <1>5, <1>9
      <3>2. CASE e = next
        <4>1. partitions[next].previousPartition = Previous(next)
          BY <1>2, <1>3, <1>5 DEF Links
        <4>2. At(e) = at
          BY <3>2 DEF at
        <4> QED BY <1>7, <1>11, <3>1, <3>2, <4>1, <4>2
      <3>3. CASE e # next
        <4>1. e \in 1 .. next - 1
          BY <1>5, <3>3
        <4>2. klvs[At(e)].holds.previousPartition = Previous(e)
          BY <1>2, <1>3, <4>1 DEF Links
        <4>3. At(e) # at
          <5>1. At(e) + PackSize <= At(next) /\ At(e) \in Nat /\ PackSize \in Nat /\ PackSize > 0
            BY <1>2, <1>4, <1>5, <3>1, <4>1 DEF InOrder, Numbers
          <5> QED BY <5>1 DEF at
        <4>4. At(e) \in DOMAIN klvs
          BY <1>2, <1>4, <3>1 DEF Whole, Packs
        <4> QED BY <1>11, <3>1, <4>2, <4>3, <4>4
      <3> QED BY <3>2, <3>3
    <2>7. next' - 1 = next
      BY <1>1, <1>5
    <2> QED BY <1>3, <1>6, <1>9, <2>1, <2>3, <2>4, <2>5, <2>6, <2>7 DEF Links
  <1> QED BY <1>14, <1>16, <1>17, <1>18, <1>19, <1>20, <1>21, <1>22, <1>23, <1>24, PlacesStay, <1>8 DEF IInv
-----------------------------------------------------------------------------
(* The client gives up, an assertion fails, or the disk is full.           *)
LEMMA FillHeaderFailsStep ==
    ASSUME IInv, FillHeaderFails
    PROVE  IInv'
  <1>1. /\ pc = "content" /\ stage = "written" /\ cur = 1
        /\ pc' \in {"failed", "assert"}
        /\ UNCHANGED fileVars \/ Flood
        /\ partitions' = partitions /\ region' = region /\ stage' = stage /\ cur' = cur
        /\ next' = next /\ back' = back
    BY DEF FillHeaderFails, client
  <1>2. Numbers /\ Control /\ Positions /\ InOrder /\ PacksTrue /\ KLVsApart
    BY NumbersHold DEF IInv
  <1>3. Overrun' /\ ~Updating /\ ~Updating' /\ LastPartition' = LastPartition /\ Written' = Written
        /\ Written = LastPartition /\ LastPartition > 0
    BY <1>1, <1>2 DEF Overrun, Updating, LastPartition, Written, Control
  <1>4. /\ size' = size /\ position' = position
        /\ DOMAIN klvs' \subseteq DOMAIN klvs
        /\ \A p \in DOMAIN klvs' : klvs'[p] = klvs[p]
        /\ \A p \in DOMAIN klvs : p + klvs[p].len <= position => p \in DOMAIN klvs'
    <2>1. CASE UNCHANGED fileVars
      BY <2>1 DEF fileVars
    <2>2. CASE Flood
      BY <2>2 DEF Flood
    <2> QED BY <1>1, <2>1, <2>2
  <1>5. KLVsApart'
    BY <1>2, <1>4 DEF KLVsApart, Apart
  <1>6. OnlyLost /\ PacksOnlyLost
    <2>1. At(1) = 0 /\ At(1) + PackSize <= position
      BY <1>1, <1>2, <1>3 DEF InOrder, Positions, Numbers
    <2>2. 0 \in DOMAIN klvs /\ klvs[0].len = PackSize
      BY <1>2, <1>3 DEF PacksTrue, Packs
    <2>3. 0 \in DOMAIN klvs' /\ klvs'[0] = klvs[0]
      BY <1>4, <2>1, <2>2
    <2> QED BY <1>4, <2>3 DEF OnlyLost, PacksOnlyLost
  <1>7. SamePlaces /\ SameMembers
    BY <1>1, PlacesStay, UnchangedMembers
  <1>8. HasFooter' = HasFooter
    BY <1>7, SameAt
  <1>9. PacksTrue' /\ RIPTrue' /\ Links'
    BY <1>1, <1>3, <1>6, <1>7, KeepPacks, KeepRIP, KeepLinks
  <1>10. InOrder'
    <2>1. HeaderDone' => BodyOffset <= size'
      BY <1>1, <1>2, <1>3, <1>4 DEF InOrder, HeaderDone, Updating
    <2> QED BY <1>2, <1>3, <1>4, <1>7, <2>1, KeepOrder DEF Numbers
  <1>11. Empty' /\ Whole' /\ RIPThere'
    BY <1>2, <1>3 DEF Empty, Whole, RIPThere, Numbers
  <1>12. Control'
    BY <1>1, <1>2, <1>3, <1>8 DEF Control
  <1>13. Positions'
    BY <1>1 DEF Positions
  <1>14. Aligned'
    <2>1. ~InPlace'
      BY <1>1 DEF InPlace
    <2> QED BY <1>1, <1>3, <2>1 DEF Aligned
  <1> QED BY <1>5, <1>9, <1>10, <1>11, <1>12, <1>13, <1>14 DEF IInv
-----------------------------------------------------------------------------
LEMMA InitIInv == Init => IInv
  <1> SUFFICES ASSUME Init PROVE IInv
    OBVIOUS
  <1>1. /\ LastPartition = 0 /\ Written = 0 /\ DOMAIN klvs = {} /\ size = 0 /\ position = 0
        /\ pc = "filled" /\ back = "filled" /\ region = "none" /\ stage = "ended" /\ cur = 0 /\ next = 0
        /\ partitions \in Seq(PartitionPacks)
    BY DEF Init, LastPartition, Written
  <1>2. ~Updating /\ ~HasFooter /\ ~HeaderDone /\ ~InPlace /\ Packs = {}
    BY <1>1 DEF Updating, HasFooter, HeaderDone, InPlace, Packs
  <1>3. KLVsApart /\ Empty
    BY <1>1 DEF KLVsApart, Apart, Empty
  <1>4. InOrder /\ Control /\ Positions
    BY <1>1, <1>2 DEF InOrder, Control, Positions
  <1>5. Aligned /\ Whole /\ PacksTrue /\ RIPTrue /\ RIPThere /\ Links
    BY <1>1, <1>2 DEF Aligned, Whole, Tiled, PacksTrue, RIPTrue, RIPThere, Links
  <1> QED BY <1>3, <1>4, <1>5 DEF IInv

LEMMA NextIInv == IInv /\ [Next]_vars => IInv'
  <1> SUFFICES ASSUME IInv, [Next]_vars PROVE IInv'
    OBVIOUS
  <1>1. ASSUME NEW kind \in {"header", "body", "footer"}, NEW kagSize \in KagSizes, AppendPartition(kind, kagSize)
        PROVE  IInv'
    BY <1>1, AppendPartitionStep
  <1>2. CASE WritePartition
    BY <1>2, WritePartitionStep
  <1>3. CASE FillAfterPack
    BY <1>3, FillAfterPackStep
  <1>4. ASSUME NEW r \in Regions, MarkStart(r) PROVE IInv'
    BY <1>4, MarkStartStep
  <1>5. ASSUME NEW len, WriteContent(len) PROVE IInv'
    <2>1. CASE cur = LastPartition
      BY <1>5, <2>1, WriteContentAtEnd
    <2>2. CASE cur # LastPartition
      BY <1>5, <2>2, WriteContentInPlace
    <2> QED BY <2>1, <2>2
  <1>6. ASSUME NEW space \in Spaces, FillContent(space) PROVE IInv'
    BY <1>6, FillContentStep
  <1>7. CASE FillHeader
    <2>1. CASE cur = LastPartition
      BY <1>7, <2>1, FillHeaderFirst
    <2>2. CASE cur # LastPartition
      BY <1>7, <2>2, FillHeaderInPlace
    <2> QED BY <2>1, <2>2
  <1>8. CASE FillHeaderFails
    BY <1>8, FillHeaderFailsStep
  <1>9. CASE MarkEnd
    BY <1>9, MarkEndStep
  <1>10. ASSUME NEW len \in ContentSizes["essence"], WriteEssence(len) PROVE IInv'
    BY <1>10, WriteEssenceStep
  <1>11. CASE FillAfterContent
    BY <1>11, FillAfterContentStep
  <1>12. CASE WriteRIP
    BY <1>12, WriteRIPStep
  <1>13. CASE GoToMetadata
    BY <1>13, GoToMetadataStep
  <1>14. CASE GoToEnd
    BY <1>14, GoToEndStep
  <1>15. CASE UpdateInMemory
    BY <1>15, UpdateInMemoryStep
  <1>16. CASE SeekToPartition
    BY <1>16, SeekToPartitionStep
  <1>17. CASE RewritePartition
    BY <1>17, RewritePartitionStep
  <1>18. CASE UpdateReturns
    BY <1>18, UpdateReturnsStep
  <1>19. CASE UNCHANGED vars
    <2>1. /\ partitions' = partitions /\ klvs' = klvs /\ size' = size /\ position' = position /\ pc' = pc
          /\ region' = region /\ stage' = stage /\ cur' = cur /\ next' = next /\ back' = back
      BY <1>19 DEF vars
    <2>2. /\ LastPartition' = LastPartition /\ HasFooter' = HasFooter /\ Updating' = Updating
          /\ InPlace' = InPlace /\ HeaderWritten' = HeaderWritten /\ Packs' = Packs /\ RIPs' = RIPs
          /\ PackSize' = PackSize /\ LastOfHeader' = LastOfHeader
      BY <2>1 DEF LastPartition, HasFooter, FooterAppended, Updating, InPlace, HeaderWritten, Packs, RIPs,
         PackSize, KLVLen, LLen, LastOfHeader
    <2>3. Written' = Written /\ Overrun' = Overrun /\ HeaderDone' = HeaderDone
      BY <2>1, <2>2 DEF Written, Overrun, HeaderDone
    <2>4. KLVsApart' /\ Empty' /\ InOrder'
      BY <2>1, <2>2, <2>3 DEF IInv, KLVsApart, Empty, InOrder, At
    <2>5. Control' /\ Positions' /\ Aligned'
      BY <2>1, <2>2, <2>3 DEF IInv, Control, Positions, Aligned, At
    <2>6. Whole' /\ PacksTrue' /\ RIPTrue' /\ RIPThere'
      BY <2>1, <2>2, <2>3 DEF IInv, Whole, PacksTrue, RIPTrue, RIPThere, At
    <2>7. Links'
      BY <2>1, <2>2, <2>3 DEF IInv, Links, At, Previous
    <2> QED BY <2>4, <2>5, <2>6, <2>7 DEF IInv
  <1> QED BY <1>1, <1>2, <1>3, <1>4, <1>5, <1>6, <1>7, <1>8, <1>9, <1>10, <1>11, <1>12, <1>13, <1>14,
             <1>15, <1>16, <1>17, <1>18, <1>19 DEF Next

LEMMA Invariance == Spec => []IInv
  BY InitIInv, NextIInv, PTL DEF Spec

(* Every number and record that is kept has its type: in particular no     *)
(* byte count is negative and the position is in the file.                 *)
THEOREM TypeCorrect == Spec => []TypeOK
  <1>1. IInv => TypeOK
    <2> SUFFICES ASSUME IInv PROVE TypeOK
      OBVIOUS
    <2>1. Numbers /\ Control /\ KLVsApart
      BY NumbersHold DEF IInv
    <2> QED BY <2>1 DEF TypeOK, Numbers, Control, KLVsApart, Apart
  <1> QED BY <1>1, Invariance, PTL

(* However often header metadata and packs are written over, the file is   *)
(* one KLV after the other whenever the client does not write in the       *)
(* middle of it (mxf_fill_to_position, mxf_update_partitions).             *)
THEOREM FileIsWalkable == Spec => []Walkable
  <1>1. IInv => Walkable
    <2> SUFFICES ASSUME IInv, ~InPlace, pc \notin {"failed", "assert"}
                 PROVE  /\ size > 0 => 0 \in DOMAIN klvs
                        /\ \A p \in DOMAIN klvs : p + klvs[p].len = size \/ p + klvs[p].len \in DOMAIN klvs
      BY DEF Walkable
    <2>1. ~Overrun
      BY DEF Overrun
    <2>2. Tiled(klvs, 0, size)
      BY <2>1 DEF IInv, Whole
    <2>3. \A p \in DOMAIN klvs : 0 <= p /\ p < size
      BY NumbersHold DEF Numbers
    <2> QED BY <2>2, <2>3, NumbersHold DEF Tiled, Numbers
  <1> QED BY <1>1, Invariance, PTL
-----------------------------------------------------------------------------
(* Where partitions are changes only when one is appended and when its     *)
(* pack is written for the first time.                                     *)
LEMMA StepPlaces ==
    ASSUME IInv, [Next]_vars
    PROVE  \/ \E kind \in {"header", "body", "footer"}, kagSize \in KagSizes : AppendPartition(kind, kagSize)
           \/ WritePartition
           \/ SamePlaces
  <1>1. UNCHANGED partitions => SamePlaces
    BY PlacesStay, UnchangedMembers
  <1>2. ASSUME NEW r \in Regions, MarkStart(r) PROVE SamePlaces
    BY <1>2, MarkStartStep
  <1>3. CASE MarkEnd
    BY <1>3, MarkEndStep
  <1>4. CASE UpdateInMemory
    BY <1>4, UpdateInMemoryStep
  <1>5. CASE RewritePartition
    BY <1>5, RewritePartitionStep
  <1>6. ASSUME NEW len, WriteContent(len) PROVE UNCHANGED partitions
    BY <1>6 DEF WriteContent
  <1>7. ASSUME NEW space, FillContent(space) PROVE UNCHANGED partitions
    BY <1>7 DEF FillContent
  <1>8. ASSUME NEW len, WriteEssence(len) PROVE UNCHANGED partitions
    BY <1>8 DEF WriteEssence
  <1>9. CASE FillAfterPack \/ FillHeader \/ FillHeaderFails \/ FillAfterContent \/ WriteRIP
    BY <1>1, <1>9 DEF FillAfterPack, FillHeader, FillHeaderFails, FillAfterContent, WriteRIP
  <1>10. CASE GoToMetadata \/ GoToEnd \/ SeekToPartition \/ UpdateReturns
    BY <1>1, <1>10 DEF GoToMetadata, GoToEnd, SeekToPartition, UpdateReturns
  <1>11. CASE UNCHANGED vars
    BY <1>1, <1>11 DEF vars
  <1> QED BY <1>1, <1>2, <1>3, <1>4, <1>5, <1>6, <1>7, <1>8, <1>9, <1>10, <1>11 DEF Next

(* mxf_allocate_space_to_kag counts from thisPartition, and what is filled *)
(* up to the KAG is so when the next partition starts.                     *)
LEMMA NextKagKept == IInv /\ KagKept /\ [Next]_vars => KagKept'
  <1> SUFFICES ASSUME IInv, KagKept, [Next]_vars PROVE KagKept'
    OBVIOUS
  <1> DEFINE n == LastPartition
             Kept(e) == partitions[e + 1].thisPartition # 0 =>
                (partitions[e + 1].thisPartition - partitions[e].thisPartition) % partitions[e].kagSize = 0
  <1>1. Numbers /\ n \in Nat /\ IInv'
    BY NumbersHold, NextIInv DEF Numbers
  <1>2. \A e \in 1 .. n - 1 : Kept(e)
    BY DEF KagKept
  <1>3. SUFFICES LastPartition' \in Nat /\ \A e \in 1 .. LastPartition' - 1 : Kept(e)'
    BY DEF KagKept
  <1>4. CASE \E kind \in {"header", "body", "footer"}, kagSize \in KagSizes : AppendPartition(kind, kagSize)
    <2>1. PICK kind, kagSize : partitions' = Append(partitions, NewPartition(kind, kagSize))
      BY <1>4 DEF AppendPartition
    <2>2. NewPartition(kind, kagSize).thisPartition = 0
      BY DEF NewPartition
    <2>3. /\ LastPartition' = n + 1 /\ \A e \in 1 .. n : partitions'[e] = partitions[e]
          /\ partitions'[n + 1].thisPartition = 0
      BY <2>1, <2>2 DEF LastPartition, IInv, InOrder
    <2>4. ASSUME NEW e \in 1 .. n PROVE Kept(e)'
      <3>1. CASE e = n
        BY <2>3, <3>1, <1>1
      <3>2. CASE e # n
        <4>1. e \in 1 .. n - 1 /\ e + 1 \in 1 .. n
          BY <1>1, <3>2
        <4>2. Kept(e) /\ partitions'[e] = partitions[e] /\ partitions'[e + 1] = partitions[e + 1]
          BY <1>2, <2>3, <4>1
        <4> QED BY <4>2
      <3> QED BY <3>1, <3>2
    <2>5. 1 .. LastPartition' - 1 = 1 .. n /\ LastPartition' \in Nat
      BY <1>1, <2>3
    <2> QED BY <2>4, <2>5
  <1>5. CASE WritePartition
    <2>1. /\ pc = "appended" /\ partitions' = [partitions EXCEPT ![cur] = Placed(@)]
      BY <1>5 DEF WritePartition, WritePack
    <2>2. cur = n /\ n > 0 /\ n \in 1 .. n /\ position = size /\ Written = n - 1
      BY <1>1, <2>1 DEF IInv, Control, Positions, Written
    <2>3. /\ LastPartition' = n
          /\ \A j \in 1 .. n : j # n => partitions'[j] = partitions[j]
          /\ partitions'[n].thisPartition = size
      BY <2>1, <2>2, PlacedIs
    <2>4. ASSUME NEW e \in 1 .. n - 1 PROVE Kept(e)'
      <3>1. e \in 1 .. n /\ e + 1 \in 1 .. n /\ partitions'[e] = partitions[e]
        BY <1>1, <2>3
      <3>2. CASE e + 1 = n
        <4>1. Written = e /\ Written > 0
          BY <1>1, <2>2, <3>2
        <4>2. (size - At(e)) % partitions[e].kagSize = 0
          BY <2>1, <4>1 DEF IInv, Aligned
        <4>3. partitions'[e + 1].thisPartition = size
          BY <2>3, <3>2
        <4> QED BY <3>1, <4>2, <4>3 DEF At
      <3>3. CASE e + 1 # n
        <4>1. Kept(e) /\ partitions'[e + 1] = partitions[e + 1]
          BY <1>2, <2>3, <3>1, <3>3
        <4> QED BY <3>1, <4>1
      <3> QED BY <3>2, <3>3
    <2> QED BY <1>1, <2>3, <2>4
  <1>6. CASE SamePlaces
    <2>1. /\ LastPartition' = n
          /\ \A e \in 1 .. n : /\ partitions'[e].kagSize = partitions[e].kagSize
                               /\ partitions'[e].thisPartition = partitions[e].thisPartition
      BY <1>6 DEF SamePlaces
    <2>2. ASSUME NEW e \in 1 .. n - 1 PROVE Kept(e)'
      <3>1. e \in 1 .. n /\ e + 1 \in 1 .. n
        BY <1>1
      <3>2. /\ partitions'[e].kagSize = partitions[e].kagSize
            /\ partitions'[e].thisPartition = partitions[e].thisPartition
            /\ partitions'[e + 1].thisPartition = partitions[e + 1].thisPartition
        BY <2>1, <3>1
      <3>3. Kept(e)
        BY <1>2
      <3> QED BY <3>2, <3>3
    <2> QED BY <1>1, <2>1, <2>2
  <1> QED BY <1>4, <1>5, <1>6, StepPlaces

(* A partition starts on the KAG of the one before it, whatever the KAG    *)
(* sizes, and still does after its pack was written again.                 *)
THEOREM PartitionsStayOnKag == Spec => []KagKept
  <1>1. Init => KagKept
    BY DEF Init, KagKept, LastPartition
  <1> QED BY <1>1, NextKagKept, Invariance, PTL DEF Spec

LEMMA AtMost == Spec => [](LastPartition <= MaxPartitions)
  <1>1. Init => LastPartition <= MaxPartitions
    BY PartitionAssumption DEF Init, LastPartition
  <1>2. IInv /\ LastPartition <= MaxPartitions /\ [Next]_vars => (LastPartition <= MaxPartitions)'
    <2> SUFFICES ASSUME IInv, LastPartition <= MaxPartitions, [Next]_vars
                 PROVE  LastPartition' <= MaxPartitions
      OBVIOUS
    <2>1. LastPartition \in Nat /\ MaxPartitions \in Nat
      BY NumbersHold, PartitionAssumption DEF Numbers
    <2>2. CASE \E kind \in {"header", "body", "footer"}, kagSize \in KagSizes : AppendPartition(kind, kagSize)
      <3>1. PICK kind, kagSize : /\ partitions' = Append(partitions, NewPartition(kind, kagSize))
                                 /\ LastPartition < MaxPartitions
        BY <2>2 DEF AppendPartition
      <3>2. LastPartition' = LastPartition + 1
        BY <3>1 DEF LastPartition, IInv, InOrder
      <3> QED BY <2>1, <3>1, <3>2
    <2>3. CASE WritePartition
      <3>1. /\ pc = "appended" /\ partitions' = [partitions EXCEPT ![cur] = Placed(@)]
        BY <2>3 DEF WritePartition, WritePack
      <3>2. cur \in 1 .. LastPartition
        BY <2>1, <3>1 DEF IInv, Control
      <3> QED BY <3>1, <3>2, PlacedIs
    <2>4. CASE SamePlaces
      BY <2>4 DEF SamePlaces
    <2> QED BY <2>2, <2>3, <2>4, StepPlaces
  <1> QED BY <1>1, <1>2, Invariance, PTL DEF Spec
-----------------------------------------------------------------------------
(* The reader that starts at the footer.                                   *)

(* The places of the partitions from the j-th on.                          *)
Suffix(j) == [e \in 1 .. LastPartition - j + 1 |-> At(j + e - 1)]

Onwards(found) ==
    IF ~IsPack(Head(found)) \/ Ends(Head(found)) THEN found
    ELSE <<klvs[Head(found)].holds.previousPartition>> \o found

(* What Steps of Partition says of itself, as an operator.                 *)
StepsFrom(S) ==
    [n \in 0 .. MaxPartitions |-> IF n = 0 THEN <<klvs[0].holds.footerPartition>> ELSE Onwards(S[n - 1])]

LEMMA StepsIs ==
    ASSUME NEW G, G = StepsFrom(G)
    PROVE  Steps = G
  <1>1. Steps = CHOOSE S : S = StepsFrom(S)
    BY DEF Steps, StepsFrom, Onwards
  <1>2. Steps = StepsFrom(Steps)
    BY <1>1, Zenon
  <1>3. DOMAIN Steps = 0 .. MaxPartitions /\ DOMAIN G = 0 .. MaxPartitions
    <2>1. \A S : DOMAIN StepsFrom(S) = 0 .. MaxPartitions
      BY DEF StepsFrom
    <2> QED BY <1>2, <2>1
  <1>4. ASSUME NEW n \in 0 .. MaxPartitions
        PROVE  /\ Steps[n] = IF n = 0 THEN <<klvs[0].holds.footerPartition>> ELSE Onwards(Steps[n - 1])
               /\ G[n] = IF n = 0 THEN <<klvs[0].holds.footerPartition>> ELSE Onwards(G[n - 1])
    <2>1. \A S : StepsFrom(S)[n] = IF n = 0 THEN <<klvs[0].holds.footerPartition>> ELSE Onwards(S[n - 1])
      BY DEF StepsFrom
    <2> QED BY <1>2, <2>1, Zenon
  <1> DEFINE differ == {n \in 0 .. MaxPartitions : Steps[n] # G[n]}
  <1>5. differ = {}
    <2> SUFFICES ASSUME differ # {} PROVE FALSE
      OBVIOUS
    <2>1. differ \subseteq Nat
      BY PartitionAssumption
    <2>2. PICK n \in differ : \A m \in differ : n <= m
      <3> HIDE DEF differ
      <3> QED BY <2>1, Least
    <2>3. n \in 0 .. MaxPartitions /\ Steps[n] # G[n] /\ n \in Nat
      BY <2>1, <2>2
    <2>4. n # 0
      BY <1>4, <2>3
    <2>5. n - 1 \in 0 .. MaxPartitions /\ n - 1 < n
      BY <2>3, <2>4, PartitionAssumption
    <2>6. Steps[n - 1] = G[n - 1]
      BY <2>2, <2>3, <2>5
    <2> QED BY <1>4, <2>3, <2>4, <2>6, Zenon
  <1>6. \A n \in 0 .. MaxPartitions : Steps[n] = G[n]
    BY <1>5
  <1>7. Steps = [n \in 0 .. MaxPartitions |-> Steps[n]] /\ G = [n \in 0 .. MaxPartitions |-> G[n]]
    <2>1. \A S : StepsFrom(S) = [n \in 0 .. MaxPartitions |-> StepsFrom(S)[n]]
      BY DEF StepsFrom
    <2> QED BY <1>2, <2>1, Zenon
  <1> QED BY <1>6, <1>7

LEMMA SuffixIs ==
    ASSUME IInv, NEW j \in 1 .. LastPartition
    PROVE  /\ Suffix(j) \in Seq(Nat) /\ Suffix(j) # <<>> /\ Head(Suffix(j)) = At(j)
           /\ Len(Suffix(j)) = LastPartition - j + 1
           /\ j > 1 => <<At(j - 1)>> \o Suffix(j) = Suffix(j - 1)
  <1> DEFINE n == LastPartition
  <1>1. n \in Nat /\ \A e \in 1 .. n : At(e) \in Nat
    BY NumbersHold DEF Numbers
  <1> HIDE DEF n
  <1>2. \A k \in 1 .. n : \A e \in 1 .. n - k + 1 : (k + e) - 1 \in 1 .. n
    BY <1>1
  <1>3. \A k \in 1 .. n : Suffix(k) = [e \in 1 .. n - k + 1 |-> At((k + e) - 1)]
    BY DEF Suffix, n
  <1>4. \A k \in 1 .. n : Suffix(k) \in Seq(Nat) /\ Len(Suffix(k)) = n - k + 1
    <2> SUFFICES ASSUME NEW k \in 1 .. n PROVE Suffix(k) \in Seq(Nat) /\ Len(Suffix(k)) = n - k + 1
      OBVIOUS
    <2>1. n - k + 1 \in Nat
      BY <1>1
    <2>2. \A e \in 1 .. n - k + 1 : At((k + e) - 1) \in Nat
      BY <1>1, <1>2
    <2> QED BY <1>3, <2>1, <2>2
  <1>5. j \in 1 .. n
    BY DEF n
  <1>6. Suffix(j) # <<>> /\ Head(Suffix(j)) = At(j)
    <2>1. 1 \in 1 .. n - j + 1 /\ (j + 1) - 1 = j
      BY <1>1, <1>5
    <2>2. Suffix(j)[1] = At(j)
      BY <1>3, <1>5, <2>1
    <2>3. Suffix(j) \in Seq(Nat) /\ Len(Suffix(j)) >= 1
      BY <1>1, <1>4, <1>5
    <2> QED BY <2>2, <2>3
  <1>7. ASSUME j > 1 PROVE <<At(j - 1)>> \o Suffix(j) = Suffix(j - 1)
    <2> DEFINE s == <<At(j - 1)>> \o Suffix(j)
    <2>1. j - 1 \in 1 .. n
      BY <1>1, <1>5, <1>7
    <2>2. At(j - 1) \in Nat /\ Suffix(j) \in Seq(Nat) /\ Len(Suffix(j)) = n - j + 1
      BY <1>1, <1>4, <1>5, <2>1
    <2>3. s \in Seq(Nat) /\ Len(s) = (n - j + 1) + 1
          /\ \A e \in 1 .. Len(s) : s[e] = IF e = 1 THEN At(j - 1) ELSE Suffix(j)[e - 1]
      <3> DEFINE t == Suffix(j)
                 a == At(j - 1)
      <3>1. t \in Seq(Nat) /\ a \in Nat /\ Len(t) = n - j + 1 /\ s = <<a>> \o t
        BY <2>2
      <3> HIDE DEF s, t, a
      <3>2. s \in Seq(Nat) /\ Len(s) = Len(t) + 1
        BY <3>1
      <3>3. \A e \in 1 .. Len(s) : s[e] = IF e = 1 THEN a ELSE t[e - 1]
        BY <3>1, <3>2
      <3> QED BY <3>1, <3>2, <3>3 DEF t, a
    <2>4. Suffix(j - 1) \in Seq(Nat) /\ Len(Suffix(j - 1)) = n - (j - 1) + 1
      BY <1>4, <2>1
    <2>5. Len(s) = Len(Suffix(j - 1))
      BY <1>1, <1>5, <2>3, <2>4
    <2>6. ASSUME NEW e \in 1 .. n - (j - 1) + 1 PROVE s[e] = Suffix(j - 1)[e]
      <3>1. Suffix(j - 1)[e] = At(((j - 1) + e) - 1)
        BY <1>3, <2>1
      <3>2. CASE e = 1
        <4>1. ((j - 1) + e) - 1 = j - 1
          BY <1>1, <1>5, <3>2
        <4>2. s[e] = At(j - 1)
          BY <2>3, <2>4, <2>5, <3>2
        <4> QED BY <3>1, <4>1, <4>2
      <3>3. CASE e # 1
        <4>1. e - 1 \in 1 .. n - j + 1 /\ (j + (e - 1)) - 1 = ((j - 1) + e) - 1
          BY <1>1, <1>5, <3>3
        <4>2. s[e] = Suffix(j)[e - 1]
          BY <2>3, <2>4, <2>5, <3>3
        <4>3. Suffix(j)[e - 1] = At((j + (e - 1)) - 1)
          BY <1>3, <1>5, <4>1
        <4> QED BY <3>1, <4>1, <4>2, <4>3
      <3> QED BY <3>2, <3>3
    <2> HIDE DEF s
    <2>7. s = Suffix(j - 1)
      <3>1. \A u, v \in Seq(Nat) : Len(u) = Len(v) /\ (\A e \in 1 .. Len(v) : u[e] = v[e]) => u = v
        OBVIOUS
      <3> QED BY <2>3, <2>4, <2>5, <2>6, <3>1
    <2> QED BY <2>7 DEF s
  <1> QED BY <1>4, <1>5, <1>6, <1>7 DEF n

(* The reader that starts at the footer goes back to the last partition    *)
(* whose pack is missing, or to the first.                                 *)
LEMMA FooterReader ==
    ASSUME IInv, LastPartition <= MaxPartitions, HasFooter, Written = LastPartition,
           klvs[0].holds.footerPartition = At(LastPartition),
           \A e \in 1 .. LastPartition :
              At(e) \in Packs => klvs[At(e)].holds.previousPartition = Previous(e)
    PROVE  \E l \in 1 .. LastPartition :
              /\ Steps[MaxPartitions] = Suffix(l)
              /\ l = 1 \/ At(l) \notin Packs
              /\ \A e \in l + 1 .. LastPartition : At(e) \in Packs
  <1> DEFINE n == LastPartition
             stops == {j \in 1 .. n : j = 1 \/ At(j) \notin Packs}
             left == {n - j : j \in stops}
  <1>1. /\ n \in Nat /\ n > 0 /\ MaxPartitions \in Nat /\ n <= MaxPartitions
        /\ \A e \in 1 .. n : At(e) \in Nat
        /\ Numbers /\ InOrder /\ PacksTrue
    BY NumbersHold, PartitionAssumption DEF Numbers, HasFooter, IInv
  <1>2. PICK l \in stops : \A j \in stops : j <= l
    <2>1. left \subseteq Nat /\ left # {}
      <3>1. 1 \in stops
        BY <1>1
      <3>2. n - 1 \in left
        BY <3>1
      <3>3. \A j \in stops : n - j \in Nat
        BY <1>1
      <3> HIDE DEF stops
      <3> QED BY <3>2, <3>3
    <2>2. PICK least \in left : \A m \in left : least <= m
      <3> HIDE DEF left
      <3> QED BY <2>1, Least
    <2>3. PICK l \in stops : least = n - l
      BY <2>2
    <2>4. \A j \in stops : n - l <= n - j /\ j \in Nat
      BY <2>2, <2>3
    <2>5. \A j \in stops : j <= l
      BY <1>1, <2>3, <2>4
    <2> QED BY <2>3, <2>5
  <1>3. l \in 1 .. n /\ (l = 1 \/ At(l) \notin Packs)
    BY <1>2
  <1>4. \A e \in l + 1 .. n : At(e) \in Packs
    <2> SUFFICES ASSUME NEW e \in l + 1 .. n, At(e) \notin Packs PROVE FALSE
      OBVIOUS
    <2>1. e \in stops
      BY <1>1, <1>3
    <2> HIDE DEF stops
    <2> QED BY <1>1, <1>2, <1>3, <2>1
  <1> HIDE DEF stops, left
  <1> DEFINE low(m) == IF n - m >= l THEN n - m ELSE l
             G == [m \in 0 .. MaxPartitions |-> Suffix(low(m))]
  <1>5. \A m \in 0 .. MaxPartitions : low(m) \in 1 .. n /\ G[m] = Suffix(low(m))
    BY <1>1, <1>3
  <1>6. \A j \in 1 .. n : IsPack(At(j)) <=> At(j) \in Packs
    BY DEF IsPack, Packs
  <1>7. ASSUME NEW j \in 1 .. n, j > l
        PROVE  Onwards(Suffix(j)) = Suffix(j - 1)
    <2>1. j \in l + 1 .. n /\ j > 1 /\ j - 1 \in 1 .. n
      BY <1>1, <1>3, <1>7
    <2>2. At(j) \in Packs /\ klvs[At(j)].holds.previousPartition = Previous(j)
      BY <1>4, <2>1
    <2>3. Previous(j) = At(j - 1)
      BY <2>1 DEF Previous
    <2>4. klvs[At(j)].holds.thisPartition = At(j)
      BY <1>1, <2>2 DEF PacksTrue
    <2>5. At(j - 1) # At(j)
      <3>1. At(j - 1) + PackSize <= At(j)
        BY <1>1, <2>1 DEF InOrder
      <3> QED BY <1>1, <2>1, <3>1 DEF Numbers
    <2>6. IsPack(At(j)) /\ ~Ends(At(j))
      BY <1>6, <2>2, <2>3, <2>4, <2>5 DEF Ends
    <2>7. Head(Suffix(j)) = At(j) /\ <<At(j - 1)>> \o Suffix(j) = Suffix(j - 1)
      BY <2>1, SuffixIs
    <2>8. Onwards(Suffix(j)) = <<klvs[At(j)].holds.previousPartition>> \o Suffix(j)
      BY <2>6, <2>7 DEF Onwards
    <2> QED BY <2>2, <2>3, <2>7, <2>8
  <1>8. Onwards(Suffix(l)) = Suffix(l)
    <2>1. Head(Suffix(l)) = At(l)
      BY <1>3, SuffixIs
    <2>2. ~IsPack(At(l)) \/ Ends(At(l))
      <3> SUFFICES ASSUME IsPack(At(l)) PROVE Ends(At(l))
        OBVIOUS
      <3>1. At(l) \in Packs /\ l = 1
        BY <1>3, <1>6
      <3>2. klvs[At(l)].holds.previousPartition = 0 /\ klvs[At(l)].holds.thisPartition = At(l)
        BY <1>1, <1>3, <3>1 DEF Previous, PacksTrue
      <3>3. At(l) = 0
        BY <1>1, <3>1 DEF InOrder
      <3> QED BY <3>2, <3>3 DEF Ends
    <2> QED BY <2>1, <2>2 DEF Onwards
  <1>9. G = StepsFrom(G)
    <2>1. ASSUME NEW m \in 0 .. MaxPartitions
          PROVE  Suffix(low(m)) = IF m = 0 THEN <<klvs[0].holds.footerPartition>> ELSE Onwards(G[m - 1])
      <3>1. CASE m = 0
        <4>1. low(m) = n
          BY <1>1, <1>3, <3>1
        <4>2. Suffix(n) = <<At(n)>>
          <5> DEFINE t == Suffix(n)
                     a == At(n)
          <5>1. t \in Seq(Nat) /\ Len(t) = 1 /\ Head(t) = a /\ a \in Nat
            <6>1. n \in 1 .. n /\ n - n + 1 = 1
              BY <1>1
            <6> QED BY <1>1, <6>1, SuffixIs
          <5> HIDE DEF t, a
          <5>2. t = <<a>>
            BY <5>1
          <5> QED BY <5>2 DEF t, a
        <4> QED BY <3>1, <4>1, <4>2
      <3>2. CASE m # 0
        <4>1. m - 1 \in 0 .. MaxPartitions /\ m \in Nat
          BY <1>1, <3>2
        <4>2. G[m - 1] = Suffix(low(m - 1)) /\ low(m - 1) \in 1 .. n
          BY <1>5, <4>1
        <4>3. CASE n - (m - 1) > l
          <5>1. low(m - 1) = n - (m - 1) /\ low(m) = n - m /\ (n - (m - 1)) - 1 = n - m
            BY <1>1, <1>3, <4>1, <4>3
          <5>2. Onwards(Suffix(n - (m - 1))) = Suffix(n - m)
            BY <1>7, <4>2, <4>3, <5>1
          <5> QED BY <3>2, <4>2, <5>1, <5>2
        <4>4. CASE ~(n - (m - 1) > l)
          <5>1. low(m - 1) = l /\ low(m) = l
            BY <1>1, <1>3, <4>1, <4>4
          <5> QED BY <1>8, <3>2, <4>2, <5>1
        <4> QED BY <4>3, <4>4
      <3> QED BY <3>1, <3>2
    <2>2. StepsFrom(G) = [m \in 0 .. MaxPartitions |->
                             IF m = 0 THEN <<klvs[0].holds.footerPartition>> ELSE Onwards(G[m - 1])]
      BY DEF StepsFrom
    <2> HIDE DEF low
    <2>3. [m \in 0 .. MaxPartitions |-> Suffix(low(m))]
             = [m \in 0 .. MaxPartitions |->
                             IF m = 0 THEN <<klvs[0].holds.footerPartition>> ELSE Onwards(G[m - 1])]
      <3> HIDE DEF G
      <3> QED BY <2>1
    <2> QED BY <2>2, <2>3
  <1>10. Steps = G
    <2> HIDE DEF G
    <2> QED BY <1>9, StepsIs
  <1>11. Steps[MaxPartitions] = Suffix(l)
    <2>1. MaxPartitions \in 0 .. MaxPartitions /\ low(MaxPartitions) = l
      BY <1>1, <1>3
    <2> QED BY <1>5, <1>10, <2>1
  <1> QED BY <1>3, <1>4, <1>11

(* A list of all the places is every pack if they all are.                 *)
LEMMA AllPlaces ==
    ASSUME IInv, NEW list \in Seq(Nat), Len(list) = LastPartition, Written = LastPartition,
           \A e \in 1 .. LastPartition : list[e] = At(e),
           \A e \in 1 .. LastPartition : At(e) \in Packs
    PROVE  EveryPack(list)
  <1>1. LastPartition \in Nat /\ InOrder /\ PacksTrue /\ Numbers
    BY NumbersHold DEF Numbers, IInv
  <1>2. DOMAIN list = 1 .. LastPartition
    OBVIOUS
  <1>3. {list[e] : e \in DOMAIN list} = Packs
    BY <1>1, <1>2 DEF PacksTrue
  <1>4. ASSUME NEW e \in 1 .. LastPartition - 1 PROVE list[e] < list[e + 1]
    <2>1. e \in 1 .. LastPartition /\ e + 1 \in 1 .. LastPartition /\ e < e + 1
      BY <1>1
    <2>2. At(e) + PackSize <= At(e + 1)
      BY <1>1, <2>1 DEF InOrder
    <2> QED BY <1>1, <2>1, <2>2 DEF Numbers
  <1> QED BY <1>3, <1>4 DEF EveryPack

LEMMA ReaderFinds == IInv /\ LastPartition <= MaxPartitions => AllOrHeader
  <1> SUFFICES ASSUME IInv, LastPartition <= MaxPartitions, Packs # {}
               PROVE  FilePartitions = HeaderOnly \/ EveryPack(FilePartitions)
    BY DEF AllOrHeader
  <1> DEFINE n == LastPartition
  <1>1. Numbers /\ InOrder /\ PacksTrue /\ RIPTrue /\ Links /\ Control
    BY NumbersHold DEF IInv
  <1>2. \A pos : IsPack(pos) <=> pos \in Packs
    BY DEF IsPack, Packs
  <1>3. CASE RIPs # {}
    <2> DEFINE rip == klvs[CHOOSE p \in RIPs : TRUE].holds
    <2>1. FilePartitions = FromRIP
      BY <1>3 DEF FilePartitions
    <2>2. HasFooter /\ pc # "appended" /\ rip = [e \in 1 .. n |-> At(e)]
      <3>1. (CHOOSE p \in RIPs : TRUE) \in RIPs
        BY <1>3
      <3> QED BY <1>1, <3>1 DEF RIPs, RIPTrue
    <2> HIDE DEF rip
    <2>3. Written = n /\ n \in Nat /\ rip \in Seq(Nat) /\ Len(rip) = n /\ DOMAIN rip = 1 .. n
      BY <1>1, <2>2 DEF Written, Numbers
    <2>4. CASE \A e \in DOMAIN rip : IsPack(rip[e])
      <3>1. FilePartitions = rip
        BY <2>1, <2>4 DEF FromRIP, rip
      <3>2. \A e \in 1 .. n : rip[e] = At(e) /\ At(e) \in Packs
        BY <1>2, <2>2, <2>3, <2>4
      <3> QED BY <2>3, <3>1, <3>2, AllPlaces
    <2>5. CASE ~\A e \in DOMAIN rip : IsPack(rip[e])
      BY <2>1, <2>5 DEF FromRIP, rip
    <2> QED BY <2>4, <2>5
  <1>4. CASE RIPs = {}
    <2>1. FilePartitions = FromFooter
      BY <1>4 DEF FilePartitions
    <2> SUFFICES ASSUME klvs[0].holds.footerPartition # 0, IsPack(Head(Steps[MaxPartitions]))
                 PROVE  EveryPack(Steps[MaxPartitions])
      BY <2>1 DEF FromFooter
    <2>2. Written > 0 /\ 0 \in Packs
      <3>1. PICK p \in Packs : TRUE
        OBVIOUS
      <3>2. \E e \in 1 .. Written : p = At(e)
        BY <1>1 DEF PacksTrue
      <3> QED BY <1>1, <3>2 DEF PacksTrue, Numbers
    <2>3. HasFooter /\ klvs[0].holds.footerPartition = At(n)
      BY <1>1, <2>2 DEF PacksTrue
    <2>4. Written = n /\ n \in Nat
      BY <1>1, <2>3 DEF Control, Written, Numbers
    <2>5. ~Updating
      <3>1. Updating => back = "rip" /\ ~Overrun
        BY <1>1, <2>3 DEF Control, Updating, Overrun, InPlace
      <3> QED BY <1>4, <3>1 DEF IInv, RIPThere
    <2>6. \A e \in 1 .. n : At(e) \in Packs => klvs[At(e)].holds.previousPartition = Previous(e)
      BY <1>1, <2>2, <2>5 DEF Links
    <2>7. PICK l \in 1 .. n : /\ Steps[MaxPartitions] = Suffix(l)
                              /\ l = 1 \/ At(l) \notin Packs
                              /\ \A e \in l + 1 .. n : At(e) \in Packs
      BY <2>3, <2>4, <2>6, FooterReader
    <2>8. At(l) \in Packs
      BY <1>2, <2>7, SuffixIs
    <2>9. l = 1 /\ \A e \in 1 .. n : At(e) \in Packs
      BY <2>4, <2>7, <2>8
    <2>10. Suffix(1) \in Seq(Nat) /\ Len(Suffix(1)) = n
      <3>1. n - 1 + 1 = n
        BY <2>4
      <3> QED BY <2>7, <2>9, <3>1, SuffixIs
    <2>11. ASSUME NEW e \in 1 .. n PROVE Suffix(1)[e] = At(e)
      <3>1. n - 1 + 1 = n /\ 1 + e - 1 = e
        BY <2>4
      <3> QED BY <3>1 DEF Suffix
    <2> QED BY <2>4, <2>7, <2>9, <2>10, <2>11, AllPlaces
  <1> QED BY <1>3, <1>4

(* A reader of a file whose writer may have died at any point finds the    *)
(* header partition alone or every partition there is, by the Random Index *)
(* Pack or from the footer (get_file_partitions).                          *)
THEOREM ReaderFindsAllOrHeader == Spec => []AllOrHeader
  BY ReaderFinds, Invariance, AtMost, PTL
-----------------------------------------------------------------------------
(* What a byte count tells of a file k: behind the pack at a, with nothing *)
(* before it but fill, and header metadata if it is an index, a region r   *)
(* starts at s, and only it and fill go on to t.                           *)
MayPrecede(r) == IF r = "header" THEN {"fill"} ELSE {"fill", "header"}
Clear(k, a, r, s) == \A q \in DOMAIN k : a < q /\ q < s => k[q].what \in MayPrecede(r)
Reaches(k, a, r, s, t) ==
    /\ s \in DOMAIN k /\ a < s /\ s < t /\ k[s].what = r
    /\ Clear(k, a, r, s)
    /\ \A q \in DOMAIN k : s <= q /\ q < t => k[q].what \in {r, "fill"}

(* In a file that is written up to z the region of n bytes is complete.    *)
Counts(k, z, a, r, n) ==
    \E s \in DOMAIN k :
        /\ Reaches(k, a, r, s, s + n)
        /\ s + n = z \/ (s + n < z /\ s + n \in DOMAIN k /\ k[s + n].what # r)

(* The file k becomes new when something is written from at to end.        *)
Put(k, new, at, end, what) ==
    /\ DOMAIN k \subseteq Nat /\ at \in Nat /\ end \in Nat /\ at < end
    /\ at \in DOMAIN new /\ new[at].what = what
    /\ \A q \in DOMAIN new : q # at => q \in DOMAIN k /\ new[q] = k[q] /\ (q < at \/ q >= end)
    /\ \A q \in DOMAIN k : q < at \/ q >= end => q \in DOMAIN new /\ new[q] = k[q]

PackBetween(k, a, z) == \E q \in DOMAIN k : a < q /\ q < z /\ k[q].what = "pack"

LEMMA PutStays ==
    ASSUME NEW k, NEW new, NEW at, NEW end, NEW what, Put(k, new, at, end, what)
    PROVE  /\ DOMAIN new \subseteq Nat /\ DOMAIN k \subseteq Nat /\ at \in Nat /\ end \in Nat /\ at < end
           /\ \A q \in DOMAIN new : q < at => q \in DOMAIN k /\ new[q] = k[q]
           /\ \A q \in DOMAIN new : q < end => q = at \/ (q < at /\ q \in DOMAIN k /\ new[q] = k[q])
           /\ \A q \in DOMAIN new : q >= end => q \in DOMAIN k /\ new[q] = k[q]
           /\ \A q \in DOMAIN k : q < at => q \in DOMAIN new /\ new[q] = k[q]
           /\ \A q \in DOMAIN k : q >= end => q \in DOMAIN new /\ new[q] = k[q]
           /\ at \in DOMAIN new /\ new[at].what = what
  <1>1. DOMAIN new \subseteq Nat
    BY DEF Put
  <1>2. \A q \in DOMAIN new : q < end => q = at \/ (q < at /\ q \in DOMAIN k /\ new[q] = k[q])
    BY <1>1 DEF Put
  <1> QED BY <1>1, <1>2 DEF Put

LEMMA PutClear ==
    ASSUME NEW k, NEW new, NEW at, NEW end, NEW what, Put(k, new, at, end, what),
           NEW a \in Nat, NEW r \in Regions, Clear(k, a, r, at), what \in MayPrecede(r)
    PROVE  Clear(new, a, r, end)
  BY PutStays DEF Clear

LEMMA PutStarts ==
    ASSUME NEW k, NEW new, NEW at, NEW end, NEW r \in Regions, Put(k, new, at, end, r),
           NEW a \in Nat, a < at, Clear(k, a, r, at)
    PROVE  Reaches(new, a, r, at, end)
  <1>1. Clear(new, a, r, at)
    BY PutStays DEF Clear
  <1>2. \A q \in DOMAIN new : at <= q /\ q < end => new[q].what = r
    BY PutStays
  <1> QED BY <1>1, <1>2, PutStays DEF Reaches

LEMMA PutGrows ==
    ASSUME NEW k, NEW new, NEW at, NEW end, NEW what, Put(k, new, at, end, what),
           NEW a \in Nat, NEW r \in Regions, NEW s, Reaches(k, a, r, s, at), what \in {r, "fill"}
    PROVE  Reaches(new, a, r, s, end)
  <1>1. s \in DOMAIN k /\ a < s /\ s < at /\ k[s].what = r /\ s \in Nat /\ at \in Nat /\ end \in Nat /\ at < end
    BY PutStays DEF Reaches
  <1>2. s \in DOMAIN new /\ new[s].what = r /\ s < end
    BY <1>1, PutStays
  <1>3. Clear(new, a, r, s)
    <2> SUFFICES ASSUME NEW q \in DOMAIN new, a < q, q < s PROVE new[q].what \in MayPrecede(r)
      BY DEF Clear
    <2>1. q \in Nat /\ q < at
      BY <1>1, PutStays
    <2>2. q \in DOMAIN k /\ new[q] = k[q]
      BY <2>1, PutStays
    <2> QED BY <2>2 DEF Reaches, Clear
  <1>4. ASSUME NEW q \in DOMAIN new, s <= q, q < end PROVE new[q].what \in {r, "fill"}
    <2>1. q = at \/ (q < at /\ q \in DOMAIN k /\ new[q] = k[q])
      BY <1>4, PutStays
    <2> QED BY <1>4, <2>1, PutStays DEF Reaches
  <1> QED BY <1>1, <1>2, <1>3, <1>4 DEF Reaches

(* A region stays as it is if nothing is written in it or before it.       *)
LEMMA PutBehind ==
    ASSUME NEW k, NEW new, NEW at, NEW end, NEW what, Put(k, new, at, end, what),
           NEW a \in Nat, NEW r \in Regions, NEW s, NEW t \in Nat, Reaches(k, a, r, s, t), t <= at
    PROVE  Reaches(new, a, r, s, t)
  <1>1. s \in DOMAIN k /\ a < s /\ s < t /\ k[s].what = r /\ s \in Nat /\ at \in Nat /\ end \in Nat /\ at < end
    BY PutStays DEF Reaches
  <1>2. s \in DOMAIN new /\ new[s].what = r
    BY <1>1, PutStays
  <1>3. \A q \in DOMAIN new : q < t => q \in Nat /\ q \in DOMAIN k /\ new[q] = k[q]
    BY <1>1, PutStays
  <1>4. \A q \in DOMAIN new : q < s => q < t
    BY <1>1, PutStays
  <1>5. Clear(new, a, r, s)
    BY <1>3, <1>4 DEF Reaches, Clear
  <1>6. \A q \in DOMAIN new : s <= q /\ q < t => new[q].what \in {r, "fill"}
    BY <1>3 DEF Reaches
  <1> QED BY <1>1, <1>2, <1>5, <1>6 DEF Reaches

LEMMA PutBefore ==
    ASSUME NEW k, NEW new, NEW at, NEW end, NEW what, Put(k, new, at, end, what),
           NEW a \in Nat, NEW r \in Regions, NEW z, NEW n \in Nat, Counts(k, z, a, r, n), end <= a
    PROVE  Counts(new, z, a, r, n)
  <1>1. PICK s \in DOMAIN k : /\ Reaches(k, a, r, s, s + n)
                              /\ s + n = z \/ (s + n < z /\ s + n \in DOMAIN k /\ k[s + n].what # r)
    BY DEF Counts
  <1>2. s \in Nat /\ a < s /\ s < s + n /\ k[s].what = r /\ end \in Nat
    BY <1>1, PutStays DEF Reaches
  <1>3. \A q \in DOMAIN new : a < q => q \in DOMAIN k /\ new[q] = k[q]
    BY PutStays
  <1>4. \A q \in DOMAIN k : a < q => q \in DOMAIN new /\ new[q] = k[q]
    BY PutStays
  <1>5. Clear(new, a, r, s)
    BY <1>1, <1>3 DEF Reaches, Clear
  <1>6. \A q \in DOMAIN new : s <= q => a < q
    BY <1>2, PutStays
  <1>7. Reaches(new, a, r, s, s + n)
    BY <1>1, <1>2, <1>3, <1>4, <1>5, <1>6 DEF Reaches
  <1>8. s + n \in DOMAIN k => s + n \in DOMAIN new /\ new[s + n] = k[s + n]
    <2>1. a < s + n
      BY <1>2
    <2> QED BY <1>4, <2>1
  <1> QED BY <1>1, <1>2, <1>4, <1>7, <1>8 DEF Counts

(* What is written at the end leaves the regions before it complete, if it *)
(* is not more of the same.                                                *)
LEMMA PutAtEnd ==
    ASSUME NEW k, NEW new, NEW at, NEW end, NEW what, Put(k, new, at, end, what),
           NEW a \in Nat, NEW r \in Regions, NEW n \in Nat, Counts(k, at, a, r, n),
           what # r \/ PackBetween(k, a, at)
    PROVE  Counts(new, end, a, r, n)
  <1>1. PICK s \in DOMAIN k : /\ Reaches(k, a, r, s, s + n)
                              /\ s + n = at \/ (s + n < at /\ s + n \in DOMAIN k /\ k[s + n].what # r)
    BY DEF Counts
  <1>2. s \in Nat /\ at \in Nat /\ end \in Nat /\ at < end /\ s + n \in Nat /\ s + n <= at
    BY <1>1, PutStays
  <1>3. Reaches(new, a, r, s, s + n)
    BY <1>1, <1>2, PutBehind
  <1>4. CASE s + n < at
    <2>1. s + n \in DOMAIN new /\ new[s + n].what # r
      BY <1>1, <1>2, <1>4, PutStays
    <2> QED BY <1>2, <1>3, <1>4, <2>1, PutStays DEF Counts, Reaches
  <1>5. CASE s + n = at
    <2>1. ~PackBetween(k, a, at)
      <3> SUFFICES ASSUME NEW q \in DOMAIN k, a < q, q < at, k[q].what = "pack" PROVE FALSE
        BY DEF PackBetween
      <3>1. q \in Nat
        BY PutStays
      <3>2. CASE q < s
        BY <1>1, <3>2 DEF Reaches, Clear, MayPrecede
      <3>3. CASE ~(q < s)
        <4>1. s <= q /\ q < s + n
          BY <1>2, <1>5, <3>1, <3>3
        <4> QED BY <1>1, <4>1 DEF Reaches, Regions
      <3> QED BY <3>2, <3>3
    <2>2. s + n \in DOMAIN new /\ new[s + n].what # r
      BY <1>5, <2>1, PutStays
    <2> QED BY <1>2, <1>3, <1>5, <2>2, PutStays DEF Counts, Reaches
  <1> QED BY <1>2, <1>4, <1>5

(* Where KLVs are exchanged for others of their kind regions are the same. *)
LEMMA SameKinds ==
    ASSUME NEW k, NEW new, DOMAIN new = DOMAIN k, \A q \in DOMAIN k : new[q].what = k[q].what,
           NEW z, NEW a, NEW r, NEW n, Counts(k, z, a, r, n)
    PROVE  Counts(new, z, a, r, n)
  BY DEF Counts, Reaches, Clear
-----------------------------------------------------------------------------
(* What byte counts and marks are worth in each state.  Of the header that *)
(* is written over itself only those count that have been marked anew.     *)
Count(e, r) == partitions[e].byteCount[r]
Mark(e, r) == partitions[e].markInPos[r]
Again(e) == InPlace /\ e = 1
Extent(e) == IF Again(e) THEN position ELSE size
Marked(r) == (region = r /\ stage = "ended") \/ (region = "index" /\ r = "header")

CountsTrue ==
    ~Overrun =>
        \A e \in 1 .. LastPartition, r \in Regions :
            Count(e, r) # 0 /\ (Again(e) => Marked(r)) => Counts(klvs, Extent(e), At(e), r, Count(e, r))

(* Regions of the last partition that have not been marked count nothing.  *)
Unfinished(r) ==
    \/ pc \in {"appended", "packed"}
    \/ pc = "content" /\ (region = "pack" \/ (region = r /\ stage # "ended") \/ (region = "header" /\ r = "index"))
Fresh == cur = LastPartition /\ cur > 0 => \A r \in Regions : Unfinished(r) => Count(cur, r) = 0

(* What is between the pack and the position while content is written      *)
AfterPack == pc = "packed" \/ (pc = "content" /\ region = "pack")
AfterHeader == pc = "content" /\ region = "header" /\ stage = "ended"
AtMark == pc = "content" /\ region \in Regions /\ stage = "marked"
InRegion == pc = "content" /\ region \in Regions /\ stage \in {"written", "filled"}
Progress ==
    ~Overrun =>
        /\ AfterPack => Clear(klvs, At(cur), "header", position)
        /\ AfterHeader => Clear(klvs, At(cur), "index", position)
        /\ AtMark => Clear(klvs, At(cur), region, position) /\ Mark(cur, region) = position
        /\ InRegion => Reaches(klvs, At(cur), region, Mark(cur, region), position)

HeaderMarked == cur = 1 /\ (region = "index" \/ (region = "header" /\ stage = "ended"))
HeaderCounted ==
    /\ ~Overrun /\ (HeaderDone \/ (pc = "content" /\ HeaderMarked)) => Count(1, "header") # 0
    /\ LastPartition > 0 /\ ~HeaderHasIndex => Count(1, "index") = 0

BodyClear == ~Overrun /\ HeaderDone /\ BodyOffset \in DOMAIN klvs => klvs[BodyOffset].what \notin Regions

(* The packs that are written again say what is in memory.                 *)
PacksTell ==
    Updating =>
        /\ \A e \in 1 .. next - 1 : /\ klvs[At(e)].holds.byteCount = partitions[e].byteCount
                                    /\ klvs[At(e)].holds.footerPartition = partitions[e].footerPartition
        /\ HasFooter => \A e \in 1 .. LastPartition : partitions[e].footerPartition = At(LastPartition)

CInv == CountsTrue /\ Fresh /\ Progress /\ HeaderCounted /\ BodyClear /\ PacksTell

LEMMA Putting ==
    ASSUME IInv, ~Overrun, position = size \/ InPlace, NEW klv, IsKLV(klv), Write(klv)
    PROVE  /\ Put(klvs, klvs', position, position', klv.what)
           /\ position' = position + klv.len /\ size' = Larger(size, position')
  <1>1. /\ klvs' = WithKLV(klvs, position, klv) /\ position' = position + klv.len
        /\ size' = Larger(size, position')
    BY WriteIs
  <1>2. klv.len \in Nat /\ klv.len > 0
    BY Lengths DEF IsKLV
  <1>3. size \in Nat /\ Apart(klvs, size) /\ position \in Nat /\ DOMAIN klvs \subseteq Nat
    BY NumbersHold DEF IInv, KLVsApart, Numbers
  <1>4. \A q \in DOMAIN klvs : q < position => q + klvs[q].len <= position
    <2>1. CASE position = size
      BY <1>3, <2>1 DEF Apart
    <2>2. CASE InPlace
      <3>1. Tiled(klvs, 0, position)
        BY <2>2 DEF IInv, Whole
      <3> QED BY <1>3, <3>1 DEF Tiled, Apart
    <2> QED BY <2>1, <2>2
  <1>5. /\ position \in DOMAIN klvs' /\ klvs'[position] = klv
        /\ \A p \in DOMAIN klvs' : p # position => /\ p \in DOMAIN klvs /\ klvs'[p] = klvs[p]
                                                   /\ p + klvs[p].len <= position \/ p >= position + klv.len
        /\ \A p \in DOMAIN klvs : p + klvs[p].len <= position \/ p >= position + klv.len =>
                                      p \in DOMAIN klvs' /\ klvs'[p] = klvs[p]
    <2> DEFINE new == klvs'
    <2>1. new = WithKLV(klvs, position, klv)
      BY <1>1
    <2> HIDE DEF new
    <2>2. /\ position \in DOMAIN new /\ new[position] = klv
          /\ \A p \in DOMAIN new : p # position => /\ p \in DOMAIN klvs /\ new[p] = klvs[p]
                                                   /\ p + klvs[p].len <= position \/ p >= position + klv.len
          /\ \A p \in DOMAIN klvs : p + klvs[p].len <= position \/ p >= position + klv.len =>
                                      p \in DOMAIN new /\ new[p] = klvs[p]
      BY <1>3, <2>1, WithKLVIs
    <2> QED BY <2>2 DEF new
  <1>6. \A p \in DOMAIN klvs : p + klvs[p].len <= position => p < position
    BY <1>3, NumbersHold DEF Numbers
  <1> QED BY <1>1, <1>2, <1>3, <1>4, <1>5, <1>6 DEF Put

(* What is added to the file, if anything                                  *)
Grows(what) ==
    \/ klvs' = klvs /\ position' = position /\ size' = size
    \/ Put(klvs, klvs', position, position', what) /\ size' = Larger(size, position')

LEMMA GrowsIs ==
    ASSUME IInv, NEW what, Grows(what)
    PROVE  /\ position' \in Nat /\ position <= position'
           /\ position = size => position' = size'
           /\ position' <= size => size' = size
  BY NumbersHold DEF Grows, Put, Larger, Numbers

LEMMA Allocated ==
    ASSUME IInv, position = size, ~InPlace, ~Overrun, cur \in 1 .. Written, NEW space \in Nat,
           AllocateSpaceToKag(partitions[cur], space)
    PROVE  Grows("fill") /\ position' = size'
  <1>1. partitions[cur].kagSize \in Nat \ {0} /\ At(cur) \in Nat /\ position \in Nat /\ At(cur) <= position
    <2>1. Numbers /\ At(cur) + PackSize <= size
      BY NumbersHold DEF IInv, InOrder
    <2> QED BY <2>1 DEF Numbers
  <1>2. \/ UNCHANGED fileVars
        \/ \E len \in Nat : len >= KeyLen + MinLLen /\ Write(KLV("fill", len, <<>>))
    BY <1>1, Allocating DEF At
  <1>3. CASE UNCHANGED fileVars
    BY <1>3 DEF fileVars, Grows
  <1>4. ASSUME NEW len \in Nat, len >= KeyLen + MinLLen, Write(KLV("fill", len, <<>>))
        PROVE  Grows("fill") /\ position' = size'
    <2> DEFINE klv == KLV("fill", len, <<>>)
    <2>1. IsKLV(klv) /\ klv.what = "fill" /\ klv.len = len /\ Write(klv)
      BY <1>4 DEF IsKLV, KLV
    <2> HIDE DEF klv
    <2>2. /\ Put(klvs, klvs', position, position', klv.what)
          /\ position' = position + klv.len /\ size' = Larger(size, position')
      BY <2>1, Putting
    <2>3. Grows("fill")
      BY <2>1, <2>2 DEF Grows
    <2> QED BY <2>3, GrowsIs
  <1> QED BY <1>2, <1>3, <1>4

LEMMA HeaderFilled ==
    ASSUME IInv, FillHeader, ~Overrun, position = size \/ InPlace
    PROVE  Grows("fill")
  <1>1. CASE position = BodyOffset /\ UNCHANGED fileVars
    BY <1>1 DEF fileVars, Grows
  <1>2. ASSUME NEW len \in Nat, len >= KeyLen + MinLLen, Write(KLV("fill", len, <<>>))
        PROVE  Grows("fill")
    <2> DEFINE klv == KLV("fill", len, <<>>)
    <2>1. IsKLV(klv) /\ klv.what = "fill" /\ Write(klv)
      BY <1>2 DEF IsKLV, KLV
    <2> HIDE DEF klv
    <2> QED BY <2>1, Putting DEF Grows
  <1> QED BY <1>1, <1>2, FillingHeader

(* The pack of every partition but the last has another behind it.         *)
LEMMA LaterPack ==
    ASSUME IInv, ~Overrun, Written = LastPartition, NEW e \in 1 .. LastPartition, e # LastPartition
    PROVE  PackBetween(klvs, At(e), size)
  <1> DEFINE n == LastPartition
  <1>1. Numbers /\ InOrder /\ Whole
    BY NumbersHold DEF IInv
  <1>2. n \in 1 .. n /\ e < n
    BY <1>1 DEF Numbers
  <1>3. At(n) \in Packs /\ At(e) + PackSize <= At(n) /\ At(n) + PackSize <= size
    BY <1>1, <1>2 DEF InOrder, Whole
  <1>4. At(n) \in DOMAIN klvs /\ klvs[At(n)].what = "pack" /\ At(e) < At(n) /\ At(n) < size
    BY <1>1, <1>2, <1>3 DEF Packs, Numbers
  <1> QED BY <1>4 DEF PackBetween

(* Steps that add to the end of the file, or leave it alone                *)
LEMMA CountsAtEnd ==
    ASSUME IInv, CountsTrue, ~Overrun, ~InPlace, ~InPlace', NEW what,
           (klvs' = klvs /\ size' = size) \/ (Grows(what) /\ position = size /\ position' = size'),
           \A e \in 1 .. LastPartition', r \in Regions :
              (Count(e, r))' # 0 =>
                 \/ Counts(klvs', size', (At(e))', r, (Count(e, r))')
                 \/ /\ e \in 1 .. LastPartition /\ (Count(e, r))' = Count(e, r) /\ (At(e))' = At(e)
                    /\ what # r \/ PackBetween(klvs, At(e), size)
    PROVE  CountsTrue'
  <1> SUFFICES ASSUME NEW e \in 1 .. LastPartition', NEW r \in Regions, (Count(e, r))' # 0
               PROVE  Counts(klvs', size', (At(e))', r, (Count(e, r))')
    BY DEF CountsTrue, Again, Extent
  <1> SUFFICES ASSUME e \in 1 .. LastPartition, (Count(e, r))' = Count(e, r), (At(e))' = At(e),
                      what # r \/ PackBetween(klvs, At(e), size)
               PROVE  Counts(klvs', size', At(e), r, Count(e, r))
    BY Zenon
  <1>1. Counts(klvs, size, At(e), r, Count(e, r))
    BY DEF CountsTrue, Again, Extent
  <1>2. At(e) \in Nat /\ Count(e, r) \in Nat
    BY NumbersHold DEF Numbers, Count
  <1>3. CASE klvs' = klvs /\ size' = size
    BY <1>1, <1>3
  <1>4. CASE Put(klvs, klvs', position, position', what) /\ position = size /\ position' = size'
    BY <1>1, <1>2, <1>4, PutAtEnd
  <1> QED BY <1>3, <1>4 DEF Grows

(* Steps that write over header metadata                                   *)
LEMMA CountsInPlace ==
    ASSUME IInv, CountsTrue, ~Overrun, InPlace, ~Overrun', InPlace', size' = size, NEW what, Grows(what),
           LastPartition' = LastPartition,
           \A e \in 2 .. LastPartition, r \in Regions : (Count(e, r))' = Count(e, r) /\ (At(e))' = At(e),
           \A r \in Regions :
              (Count(1, r))' # 0 /\ Marked(r)' =>
                 \/ Counts(klvs', position', (At(1))', r, (Count(1, r))')
                 \/ (Count(1, r))' = Count(1, r) /\ (At(1))' = At(1) /\ Marked(r) /\ what # r
    PROVE  CountsTrue'
  <1>1. Numbers /\ LastPartition > 1 /\ Written = LastPartition /\ InOrder
    BY NumbersHold, InPlaceIs DEF IInv
  <1>2. position' <= BodyOffset
    BY <1>1 DEF Overrun, Grows, Put, Numbers
  <1>3. ASSUME NEW e \in 2 .. LastPartition, NEW r \in Regions, (Count(e, r))' # 0
        PROVE  Counts(klvs', size', (At(e))', r, (Count(e, r))')
    <2>1. Counts(klvs, size, At(e), r, Count(e, r))
      BY <1>1, <1>3 DEF CountsTrue, Again, Extent, Numbers
    <2>2. At(e) \in Nat /\ Count(e, r) \in Nat /\ BodyOffset <= At(e)
      BY <1>1 DEF Numbers, Count, InOrder
    <2>3. Counts(klvs', size, At(e), r, Count(e, r))
      <3>1. CASE Put(klvs, klvs', position, position', what)
        <4>1. position' <= At(e)
          BY <1>1, <1>2, <2>2, <3>1 DEF Put, Numbers
        <4> QED BY <2>1, <2>2, <3>1, <4>1, PutBefore
      <3>2. CASE klvs' = klvs
        BY <2>1, <3>2
      <3> QED BY <3>1, <3>2 DEF Grows
    <2>4. (At(e))' = At(e) /\ (Count(e, r))' = Count(e, r)
      OBVIOUS
    <2> QED BY <2>3, <2>4
  <1>4. ASSUME NEW r \in Regions, (Count(1, r))' # 0, Marked(r)'
        PROVE  Counts(klvs', position', (At(1))', r, (Count(1, r))')
    <2> SUFFICES ASSUME (Count(1, r))' = Count(1, r), (At(1))' = At(1), Marked(r), what # r
                 PROVE  Counts(klvs', position', At(1), r, Count(1, r))
      BY <1>4, Zenon
    <2>1. Counts(klvs, position, At(1), r, Count(1, r))
      BY <1>1, <1>4 DEF CountsTrue, Again, Extent, Numbers
    <2>2. At(1) \in Nat /\ Count(1, r) \in Nat
      BY <1>1 DEF Numbers, Count
    <2> QED BY <2>1, <2>2, PutAtEnd DEF Grows
  <1>5. \A e \in 1 .. LastPartition : e = 1 \/ e \in 2 .. LastPartition
    BY <1>1 DEF Numbers
  <1> QED BY <1>1, <1>3, <1>4, <1>5 DEF CountsTrue, Again, Extent, Numbers
-----------------------------------------------------------------------------
(* Steps while the content of a partition is written                       *)
LEMMA BodyKept ==
    ASSUME IInv, BodyClear, ~Overrun, HeaderDone' => HeaderDone, NEW what, Grows(what),
           what \notin Regions \/ position # BodyOffset \/ ~HeaderDone'
    PROVE  BodyClear'
  <1> SUFFICES ASSUME HeaderDone', BodyOffset \in DOMAIN klvs' PROVE klvs'[BodyOffset].what \notin Regions
    BY DEF BodyClear
  <1>1. CASE klvs' = klvs
    BY <1>1 DEF BodyClear
  <1>2. CASE Put(klvs, klvs', position, position', what)
    <2>1. CASE BodyOffset = position
      BY <1>2, <2>1, PutStays
    <2>2. CASE BodyOffset # position
      BY <1>2, <2>2 DEF BodyClear, Put
    <2> QED BY <2>1, <2>2
  <1> QED BY <1>1, <1>2 DEF Grows

(* Where content is written: at the end, or over header metadata           *)
LEMMA ContentWhere ==
    ASSUME IInv, pc = "content"
    PROVE  /\ cur \in 1 .. LastPartition /\ LastPartition \in Nat /\ LastPartition > 0 /\ Written = LastPartition
           /\ At(cur) \in Nat /\ position \in Nat /\ size \in Nat /\ At(cur) < position
           /\ cur = LastPartition => ~InPlace /\ ~Overrun /\ position = size
           /\ cur # LastPartition => InPlace /\ cur = 1
           /\ ~Overrun /\ InPlace => position <= BodyOffset /\ BodyOffset < size
           /\ ~Updating
           /\ HeaderDone => LastPartition > 1
           /\ HeaderDone /\ cur = LastPartition => BodyOffset < position
  <1>1. Numbers /\ Control /\ Positions /\ InOrder
    BY NumbersHold DEF IInv
  <1>2. /\ cur \in 1 .. LastPartition /\ LastPartition > 0 /\ Written = LastPartition
        /\ cur # LastPartition => InPlace /\ cur = 1
        /\ ~Updating /\ (HeaderDone => LastPartition > 1)
    BY <1>1 DEF Control, Numbers, Written, InPlace, Updating, HeaderDone
  <1>3. At(cur) + PackSize <= position /\ At(cur) \in Nat /\ At(cur) < position
    BY <1>1, <1>2 DEF Positions, Numbers
  <1>4. cur = LastPartition => ~InPlace /\ ~Overrun /\ position = size
    BY AtEnd
  <1>5. ~Overrun /\ InPlace => position <= BodyOffset /\ BodyOffset < size
    BY InPlaceIs
  <1>6. HeaderDone /\ cur = LastPartition => BodyOffset < position
    <2> SUFFICES ASSUME HeaderDone, cur = LastPartition PROVE BodyOffset < position
      OBVIOUS
    <2>1. cur \in 2 .. Written
      BY <1>1, <1>2 DEF Numbers
    <2>2. BodyOffset <= At(cur)
      BY <1>1, <2>1 DEF InOrder
    <2> QED BY <1>1, <1>3, <2>2 DEF Numbers
  <1> QED BY <1>1, <1>2, <1>3, <1>4, <1>5, <1>6 DEF Numbers

(* A KLV of the region that has been marked, or fill behind it             *)
LEMMA ContentStep ==
    ASSUME IInv, CInv, pc = "content", region \in Regions, stage \in {"marked", "written"},
           stage' \in {"written", "filled"}, UNCHANGED <<partitions, pc, region, cur, next, back>>,
           position <= position', position' \in Nat, NEW what,
           ~Overrun => Grows(what),
           stage = "marked" => what = region /\ (~Overrun => Put(klvs, klvs', position, position', what)),
           stage = "written" => what = "fill"
    PROVE  CInv'
  <1>1. /\ cur \in 1 .. LastPartition /\ LastPartition \in Nat /\ LastPartition > 0 /\ Written = LastPartition
        /\ At(cur) \in Nat /\ position \in Nat /\ size \in Nat /\ At(cur) < position
        /\ cur = LastPartition => ~InPlace /\ ~Overrun /\ position = size
        /\ cur # LastPartition => InPlace /\ cur = 1
        /\ ~Overrun /\ InPlace => position <= BodyOffset /\ BodyOffset < size
        /\ ~Updating
        /\ HeaderDone => LastPartition > 1
        /\ HeaderDone /\ cur = LastPartition => BodyOffset < position
    BY ContentWhere
  <1>2. /\ LastPartition' = LastPartition /\ InPlace' = InPlace /\ Updating' = Updating /\ HeaderDone' = HeaderDone
        /\ \A e : (At(e))' = At(e)
        /\ \A e, r : (Count(e, r))' = Count(e, r) /\ (Mark(e, r))' = Mark(e, r)
    BY DEF LastPartition, InPlace, Updating, HeaderDone, At, Count, Mark
  <1>3. CInv /\ BodyOffset \in Nat /\ Numbers
    BY NumbersHold DEF Numbers
  <1>4. ASSUME ~Overrun'
        PROVE  ~Overrun /\ Grows(what) /\ (InPlace => position' <= BodyOffset /\ size' = size)
               /\ (~InPlace => position' = size')
    <2>1. InPlace => position' <= BodyOffset
      BY <1>2, <1>3, <1>4 DEF Overrun
    <2>2. pc \notin {"failed", "assert"}
      OBVIOUS
    <2>3. ~Overrun
      BY <1>1, <1>3, <2>1, <2>2 DEF Overrun
    <2>4. Grows(what)
      BY <2>3
    <2>5. position' <= size => size' = size
      BY <2>4, GrowsIs
    <2>6. InPlace => size' = size
      BY <1>1, <1>3, <2>1, <2>3, <2>5
    <2>7. ~InPlace => position' = size'
      BY <1>1, <2>4, GrowsIs
    <2> QED BY <2>1, <2>3, <2>4, <2>6, <2>7
  <1>5. CountsTrue'
    <2> SUFFICES ASSUME ~Overrun' PROVE CountsTrue'
      BY DEF CountsTrue
    <2>1. CountsTrue /\ Fresh /\ ~Overrun /\ Grows(what)
      BY <1>4 DEF CInv
    <2>2. CASE InPlace
      <3>1. \A r \in Regions : Marked(r)' => Marked(r) /\ what # r
        BY DEF Marked, Regions
      <3>2. size' = size /\ InPlace'
        BY <1>2, <1>4, <2>2
      <3> QED BY <1>2, <2>1, <2>2, <3>1, <3>2, CountsInPlace
    <2>3. CASE ~InPlace
      <3>1. cur = LastPartition /\ position = size /\ position' = size'
        BY <1>1, <1>4, <2>3
      <3>2. ASSUME NEW e \in 1 .. LastPartition, NEW r \in Regions, Count(e, r) # 0
            PROVE  what # r \/ PackBetween(klvs, At(e), size)
        <4>1. CASE e = LastPartition
          <5>1. ~Unfinished(r)
            BY <1>1, <2>1, <3>1, <3>2, <4>1 DEF Fresh
          <5> QED BY <5>1 DEF Unfinished, Regions
        <4>2. CASE e # LastPartition
          BY <1>1, <2>1, <4>2, LaterPack
        <4> QED BY <4>1, <4>2
      <3> QED BY <1>2, <2>1, <2>3, <3>1, <3>2, CountsAtEnd
    <2> QED BY <2>2, <2>3
  <1>6. Fresh'
    <2>1. \A r : Unfinished(r)' => Unfinished(r)
      BY DEF Unfinished
    <2> QED BY <1>2, <2>1 DEF Fresh, CInv
  <1>7. Progress'
    <2> SUFFICES ASSUME ~Overrun' PROVE Progress'
      BY DEF Progress
    <2>1. Progress /\ ~Overrun /\ Grows(what)
      BY <1>4 DEF CInv
    <2>2. ~AfterPack' /\ ~AfterHeader' /\ ~AtMark'
      BY DEF AfterPack, AfterHeader, AtMark, Regions
    <2>3. Reaches(klvs', At(cur), region, Mark(cur, region), position')
      <3>1. CASE stage = "marked"
        <4>1. Clear(klvs, At(cur), region, position) /\ Mark(cur, region) = position
          BY <2>1, <3>1 DEF Progress, AtMark
        <4> QED BY <1>1, <2>1, <3>1, <4>1, PutStarts
      <3>2. CASE stage = "written"
        <4>1. Reaches(klvs, At(cur), region, Mark(cur, region), position)
          BY <2>1, <3>2 DEF Progress, InRegion
        <4>2. CASE klvs' = klvs /\ position' = position
          BY <4>1, <4>2
        <4>3. CASE Put(klvs, klvs', position, position', what)
          BY <1>1, <3>2, <4>1, <4>3, PutGrows
        <4> QED BY <2>1, <4>2, <4>3 DEF Grows
      <3> QED BY <3>1, <3>2
    <2>4. (At(cur))' = At(cur) /\ (Mark(cur, region))' = Mark(cur, region)
      BY DEF At, Mark
    <2> QED BY <2>2, <2>3, <2>4 DEF Progress
  <1>8. HeaderCounted'
    <2>1. HeaderMarked' => HeaderMarked
      BY DEF HeaderMarked
    <2> QED BY <1>2, <1>4, <2>1 DEF HeaderCounted, CInv
  <1>9. BodyClear'
    <2> SUFFICES ASSUME ~Overrun', HeaderDone' PROVE BodyClear'
      BY DEF BodyClear
    <2>1. ~Overrun /\ Grows(what) /\ BodyClear
      BY <1>4 DEF CInv
    <2>2. CASE klvs' = klvs
      BY <1>2, <2>1, <2>2 DEF BodyClear
    <2>3. CASE Put(klvs, klvs', position, position', what)
      <3>1. position # BodyOffset
        BY <1>1, <1>2, <1>3, <1>4, <2>3 DEF Put
      <3> QED BY <1>2, <2>1, <3>1, BodyKept
    <2> QED BY <2>1, <2>2, <2>3 DEF Grows
  <1>10. PacksTell'
    BY <1>1, <1>2 DEF PacksTell
  <1> QED BY <1>5, <1>6, <1>7, <1>8, <1>9, <1>10 DEF CInv

LEMMA CWriteContent ==
    ASSUME IInv, CInv, NEW len, WriteContent(len)
    PROVE  CInv'
  <1>1. /\ pc = "content" /\ stage = "marked" /\ region \in Regions
        /\ len \in Nat /\ len >= KeyLen + MinLLen
        /\ Write(KLV(region, len, <<>>))
        /\ stage' = "written"
        /\ UNCHANGED <<partitions, pc, region, cur, next, back>>
    BY ContentIs
  <1> DEFINE klv == KLV(region, len, <<>>)
  <1>2. IsKLV(klv) /\ klv.what = region /\ klv.len = len /\ Write(klv)
    BY <1>1 DEF IsKLV, KLV
  <1> HIDE DEF klv
  <1>3. position' = position + len /\ position \in Nat
    BY <1>2, WriteIs, NumbersHold DEF Numbers
  <1>4. ~Overrun => Put(klvs, klvs', position, position', region) /\ Grows(region)
    BY <1>1, <1>2, Putting, ContentWhere DEF Grows
  <1>5. position <= position' /\ position' \in Nat
    BY <1>1, <1>3
  <1> QED BY <1>1, <1>4, <1>5, ContentStep

LEMMA CFillContent ==
    ASSUME IInv, CInv, NEW space \in Spaces, FillContent(space)
    PROVE  CInv'
  <1>1. /\ pc = "content" /\ stage = "written" /\ cur > 1
        /\ AllocateSpaceToKag(partitions[cur], space)
        /\ stage' = "filled"
        /\ UNCHANGED <<partitions, pc, region, cur, next, back>>
    BY DEF FillContent
  <1>2. cur = LastPartition /\ region \in Regions
    BY <1>1, ContentWhere DEF IInv, Control
  <1>3. Grows("fill")
    BY <1>1, <1>2, AtEnd, Allocated, PartitionAssumption
  <1>4. position <= position' /\ position' \in Nat
    BY <1>3, GrowsIs
  <1> QED BY <1>1, <1>2, <1>3, <1>4, ContentStep

LEMMA CFillHeader ==
    ASSUME IInv, CInv, FillHeader
    PROVE  CInv'
  <1>1. /\ pc = "content" /\ stage = "written" /\ RoomLeft
        /\ stage' = "filled"
        /\ UNCHANGED <<partitions, pc, region, cur, next, back>>
    BY DEF FillHeader
  <1>2. region \in Regions
    BY <1>1 DEF IInv, Control
  <1>3. position \in Nat
    BY NumbersHold DEF Numbers
  <1>4. position <= position' /\ position' \in Nat
    <2>1. ASSUME NEW len \in Nat, Write(KLV("fill", len, <<>>))
          PROVE  position <= position' /\ position' \in Nat
      <3>1. position' = position + len
        BY <2>1, WriteIs DEF KLV
      <3> QED BY <1>3, <3>1
    <2>2. CASE UNCHANGED fileVars
      BY <1>3, <2>2 DEF fileVars
    <2> QED BY <2>1, <2>2, FillingHeader
  <1>5. ~Overrun => Grows("fill")
    BY <1>1, ContentWhere, HeaderFilled
  <1> QED BY <1>1, <1>2, <1>4, <1>5, ContentStep
-----------------------------------------------------------------------------
(* Steps that begin and end partitions                                     *)
LEMMA CAppend ==
    ASSUME IInv, CInv, NEW kind, NEW kagSize, AppendPartition(kind, kagSize)
    PROVE  CInv'
  <1> DEFINE n == LastPartition
             new == NewPartition(kind, kagSize)
  <1>1. /\ pc = "filled" /\ partitions' = Append(partitions, new)
        /\ cur' = n + 1 /\ pc' = "appended"
        /\ klvs' = klvs /\ size' = size /\ position' = position
        /\ region' = region /\ stage' = stage /\ next' = next /\ back' = back
    BY DEF AppendPartition, fileVars
  <1>2. Numbers /\ CInv
    BY NumbersHold
  <1>3. \A r \in Regions : new.byteCount[r] = 0
    BY DEF NewPartition
  <1> HIDE DEF new
  <1>4. /\ LastPartition' = n + 1 /\ n \in Nat
        /\ \A e \in 1 .. n : partitions'[e] = partitions[e]
        /\ partitions'[n + 1] = new
    BY <1>1, <1>2 DEF LastPartition, IInv, InOrder
  <1>5. /\ \A e \in 1 .. n, r \in Regions : (Count(e, r))' = Count(e, r) /\ (At(e))' = At(e)
        /\ \A r \in Regions : partitions'[n + 1].byteCount[r] = 0
    BY <1>3, <1>4 DEF Count, At
  <1>6. ~InPlace /\ ~InPlace' /\ ~Overrun /\ ~Overrun' /\ ~Updating'
    BY <1>1 DEF InPlace, Overrun, Updating
  <1>7. HeaderDone' => HeaderDone /\ n > 0
    BY <1>1, <1>4 DEF HeaderDone, Updating
  <1>8. CountsTrue'
    <2>1. \A e \in 1 .. n + 1 : e = n + 1 \/ e \in 1 .. n
      BY <1>4
    <2>2. \A e \in 1 .. LastPartition', r \in Regions : (Count(e, r))' # 0 => e \in 1 .. n
      BY <1>4, <1>5, <2>1 DEF Count
    <2>3. \A r \in Regions : "fill" # r
      BY DEF Regions
    <2> QED BY <1>1, <1>2, <1>5, <1>6, <2>2, <2>3, CountsAtEnd DEF CInv
  <1>9. Fresh'
    <2>1. \A r \in Regions : (Count(cur, r))' = 0
      BY <1>1, <1>5 DEF Count
    <2> QED BY <2>1 DEF Fresh
  <1>10. Progress'
    BY <1>1 DEF Progress, AfterPack, AfterHeader, AtMark, InRegion
  <1>11. HeaderCounted'
    <2>1. CASE n = 0
      <3>1. (Count(1, "index"))' = 0
        BY <1>5, <2>1 DEF Count, Regions
      <3> QED BY <1>1, <1>7, <2>1, <3>1 DEF HeaderCounted
    <2>2. CASE n # 0
      <3>1. 1 \in 1 .. n
        BY <1>4, <2>2
      <3> QED BY <1>1, <1>2, <1>4, <1>5, <1>6, <1>7, <3>1 DEF HeaderCounted, CInv, Regions
    <2> QED BY <2>1, <2>2
  <1>12. BodyClear'
    BY <1>1, <1>2, <1>6, <1>7 DEF BodyClear, CInv
  <1> QED BY <1>6, <1>8, <1>9, <1>10, <1>11, <1>12 DEF CInv, PacksTell

LEMMA CWritePartition ==
    ASSUME IInv, CInv, WritePartition
    PROVE  CInv'
  <1> DEFINE n == LastPartition
             pack == KLV("pack", KLVLen(PackLen), Pack(Placed(partitions[cur])))
  <1>1. /\ pc = "appended" /\ partitions' = [partitions EXCEPT ![cur] = Placed(@)]
        /\ Write(pack)
        /\ pc' = "packed" /\ region' = region /\ stage' = stage /\ cur' = cur /\ next' = next /\ back' = back
    BY DEF WritePartition, WritePack, client
  <1>2. Numbers /\ Control /\ Positions /\ InOrder /\ CInv
    BY NumbersHold DEF IInv
  <1>3. cur = n /\ n > 0 /\ n \in 1 .. n /\ n \in Nat /\ position = size /\ ~InPlace /\ ~Overrun
    BY <1>1, <1>2 DEF Control, Positions, Numbers, InPlace, Overrun
  <1>4. IsKLV(pack) /\ pack.what = "pack"
    BY <1>2 DEF IsKLV, KLV, PackSize, Numbers
  <1> HIDE DEF pack
  <1>5. /\ LastPartition' = n
        /\ \A j \in 1 .. n : j # n => partitions'[j] = partitions[j]
        /\ partitions'[n].thisPartition = position
        /\ partitions'[n].byteCount = partitions[n].byteCount
    BY <1>1, <1>3, PlacedIs
  <1>6. Grows("pack") /\ Put(klvs, klvs', position, position', "pack") /\ position' = size'
    <2>1. Grows("pack") /\ Put(klvs, klvs', position, position', "pack")
      BY <1>1, <1>3, <1>4, Putting DEF Grows
    <2> QED BY <1>3, <2>1, GrowsIs
  <1>7. /\ \A e \in 1 .. n, r \in Regions : (Count(e, r))' = Count(e, r)
        /\ \A e \in 1 .. n : e # n => (At(e))' = At(e)
    BY <1>5 DEF Count, At
  <1>8. ~InPlace' /\ ~Overrun' /\ ~Updating'
    BY <1>1 DEF InPlace, Overrun, Updating
  <1>9. \A r \in Regions : Count(n, r) = 0
    BY <1>1, <1>2, <1>3 DEF CInv, Fresh, Unfinished
  <1>10. CountsTrue'
    <2>1. \A r \in Regions : "pack" # r
      BY DEF Regions
    <2> QED BY <1>2, <1>3, <1>5, <1>6, <1>7, <1>8, <1>9, <2>1, CountsAtEnd DEF CInv
  <1>11. Fresh'
    <2>1. \A r \in Regions : (Count(cur, r))' = 0
      BY <1>1, <1>3, <1>5, <1>9 DEF Count
    <2> QED BY <2>1 DEF Fresh
  <1>12. Progress'
    <2>1. (At(cur))' = position
      BY <1>1, <1>3, <1>5 DEF At
    <2>2. Clear(klvs', position, "header", position')
      BY <1>6, PutStays DEF Clear
    <2> QED BY <1>1, <2>1, <2>2 DEF Progress, AfterPack, AfterHeader, AtMark, InRegion
  <1>13. HeaderDone' => HeaderDone /\ 1 # n
    BY <1>1, <1>5 DEF HeaderDone, Updating
  <1>14. HeaderCounted'
    <2>1. 1 \in 1 .. n
      BY <1>3
    <2> QED BY <1>1, <1>2, <1>3, <1>5, <1>7, <1>13, <2>1 DEF HeaderCounted, CInv, Regions
  <1>15. BodyClear'
    BY <1>2, <1>3, <1>6, <1>13, BodyKept DEF CInv, Regions
  <1> QED BY <1>8, <1>10, <1>11, <1>12, <1>14, <1>15 DEF CInv, PacksTell

(* Steps that leave partitions as they are and add to the end of the file, *)
(* if anything, something that is not of a region                          *)
LEMMA EndStep ==
    ASSUME IInv, CInv, partitions' = partitions, ~Overrun, ~InPlace, ~Overrun', ~InPlace', ~Updating',
           position = size, NEW what, what \notin Regions, Grows(what),
           cur' = cur, \A r \in Regions : Unfinished(r)' => Unfinished(r),
           HeaderDone' => HeaderDone \/ (pc = "content" /\ HeaderMarked /\ position = BodyOffset),
           ~(pc' = "content" /\ HeaderMarked'),
           ~AfterHeader', ~AtMark', ~InRegion',
           AfterPack' => AfterPack /\ what = "fill" /\ cur \in 1 .. LastPartition
    PROVE  CInv'
  <1>1. CInv /\ Numbers
    BY NumbersHold
  <1>2. position' = size'
    BY GrowsIs
  <1>3. /\ LastPartition' = LastPartition
        /\ \A e : (At(e))' = At(e)
        /\ \A e, r : (Count(e, r))' = Count(e, r)
    BY DEF LastPartition, At, Count
  <1>4. CountsTrue'
    <2>1. \A r \in Regions : what # r
      OBVIOUS
    <2> QED BY <1>1, <1>2, <1>3, <2>1, CountsAtEnd DEF CInv
  <1>5. Fresh'
    BY <1>1, <1>3 DEF CInv, Fresh
  <1>6. Progress'
    <2>1. SUFFICES ASSUME AfterPack' PROVE Clear(klvs', (At(cur))', "header", position')
      BY DEF Progress
    <2>2. Clear(klvs, At(cur), "header", position) /\ At(cur) \in Nat
      BY <1>1, <2>1 DEF CInv, Progress, Numbers
    <2>3. Clear(klvs', At(cur), "header", position')
      BY <2>1, <2>2, PutClear DEF Grows, MayPrecede, Regions
    <2>4. (At(cur))' = At(cur)
      BY DEF At
    <2> QED BY <2>3, <2>4
  <1>7. HeaderCounted'
    BY <1>1, <1>3 DEF HeaderCounted, CInv
  <1>8. BodyClear'
    <2> SUFFICES ASSUME HeaderDone', BodyOffset \in DOMAIN klvs' PROVE klvs'[BodyOffset].what \notin Regions
      BY DEF BodyClear
    <2>1. CASE HeaderDone
      BY <1>1, <2>1, BodyKept DEF BodyClear, CInv
    <2>2. CASE position = BodyOffset
      <3>1. BodyOffset \notin DOMAIN klvs
        BY <1>1, <2>2 DEF Numbers
      <3>2. CASE Put(klvs, klvs', position, position', what)
        BY <2>2, <3>2, PutStays
      <3> QED BY <3>1, <3>2 DEF Grows
    <2> QED BY <2>1, <2>2
  <1> QED BY <1>4, <1>5, <1>6, <1>7, <1>8 DEF CInv, PacksTell

LEMMA CFillAfterPack ==
    ASSUME IInv, CInv, FillAfterPack
    PROVE  CInv'
  <1>1. /\ pc = "packed" /\ AllocateSpaceToKag(partitions[cur], 0)
        /\ pc' = "content" /\ region' = "pack" /\ stage' = "ended"
        /\ partitions' = partitions /\ cur' = cur /\ next' = next /\ back' = back
    BY DEF FillAfterPack
  <1>2. Numbers /\ Control /\ Positions
    BY NumbersHold DEF IInv
  <1>3. cur = LastPartition /\ cur \in 1 .. LastPartition /\ cur \in 1 .. Written /\ position = size
    BY <1>1, <1>2 DEF Control, Positions, Written, Numbers
  <1>4. ~InPlace /\ ~Overrun /\ LastPartition' = LastPartition
    BY <1>1 DEF InPlace, Overrun, LastPartition
  <1>5. ~InPlace' /\ ~Overrun' /\ ~Updating'
    BY <1>1, <1>2, <1>3, <1>4 DEF InPlace, Overrun, Numbers, Updating
  <1>6. Grows("fill")
    BY <1>1, <1>3, <1>4, Allocated
  <1>7. \A r \in Regions : Unfinished(r)
    BY <1>1 DEF Unfinished
  <1>8. /\ HeaderDone' => HeaderDone
        /\ ~HeaderMarked' /\ ~AfterHeader' /\ ~AtMark' /\ ~InRegion' /\ AfterPack
    BY <1>1, <1>4 DEF HeaderDone, Updating, HeaderMarked, AfterHeader, AtMark, InRegion, AfterPack, Regions
  <1> QED BY <1>1, <1>3, <1>4, <1>5, <1>6, <1>7, <1>8, EndStep DEF Regions

LEMMA CWriteEssence ==
    ASSUME IInv, CInv, NEW len \in ContentSizes["essence"], WriteEssence(len)
    PROVE  CInv'
  <1>1. /\ pc = "content" /\ stage = "ended" /\ partitions[cur].kind = "body"
        /\ Write(KLV("essence", len, <<>>))
        /\ region' = "essence"
        /\ UNCHANGED <<partitions, pc, stage, cur, next, back>>
    BY DEF WriteEssence
  <1>2. Control /\ Numbers /\ InOrder
    BY NumbersHold DEF IInv
  <1>3. cur = LastPartition /\ cur # 1
    BY <1>1, <1>2 DEF Control, InOrder, Numbers
  <1>4. ~InPlace /\ ~Overrun /\ position = size
    BY <1>1, <1>3, AtEnd
  <1> DEFINE klv == KLV("essence", len, <<>>)
  <1>5. IsKLV(klv) /\ klv.what = "essence" /\ Write(klv)
    <2>1. ContentSizes["essence"] \subseteq Nat \ 0 .. KeyLen + MinLLen - 1
      BY PartitionAssumption
    <2>2. len \in Nat /\ len >= KeyLen + MinLLen
      BY <2>1, Lengths
    <2> QED BY <1>1, <2>2 DEF IsKLV, KLV
  <1> HIDE DEF klv
  <1>6. Grows("essence")
    BY <1>4, <1>5, Putting DEF Grows
  <1>7. ~InPlace' /\ ~Overrun' /\ ~Updating' /\ (HeaderDone' => HeaderDone)
    BY <1>1, <1>2, <1>3 DEF InPlace, Overrun, Updating, HeaderDone, LastPartition, Numbers
  <1>8. /\ \A r \in Regions : ~Unfinished(r)'
        /\ ~HeaderMarked' /\ ~AfterHeader' /\ ~AtMark' /\ ~InRegion' /\ ~AfterPack'
    BY <1>1 DEF Unfinished, HeaderMarked, AfterHeader, AtMark, InRegion, AfterPack, Regions
  <1> QED BY <1>1, <1>4, <1>6, <1>7, <1>8, EndStep DEF Regions

LEMMA CFillAfterContent ==
    ASSUME IInv, CInv, FillAfterContent
    PROVE  CInv'
  <1>1. /\ pc = "content" /\ stage = "ended" /\ cur = LastPartition
        /\ cur = 1 => region = LastOfHeader
        /\ AllocateSpaceToKag(partitions[cur], 0)
        /\ pc' = "filled" /\ region' = "none"
        /\ UNCHANGED <<partitions, stage, cur, next, back>>
    BY DEF FillAfterContent
  <1>2. Control /\ Positions /\ Numbers
    BY NumbersHold DEF IInv
  <1>3. position = size /\ ~InPlace /\ ~Overrun /\ cur \in 1 .. Written /\ LastPartition > 0
    BY <1>1, AtEnd
  <1>4. Grows("fill")
    BY <1>1, <1>3, Allocated
  <1>5. ~InPlace' /\ ~Overrun' /\ ~Updating' /\ LastPartition' = LastPartition
    BY <1>1 DEF InPlace, Overrun, Updating, LastPartition
  <1>6. HeaderDone' => HeaderDone \/ (pc = "content" /\ HeaderMarked /\ position = BodyOffset)
    <2>1. CASE LastPartition > 1
      BY <2>1 DEF HeaderDone
    <2>2. CASE LastPartition = 1
      <3>1. cur = 1 /\ region = LastOfHeader /\ position = BodyOffset
        BY <1>1, <1>2, <2>2 DEF Positions
      <3> QED BY <1>1, <3>1 DEF HeaderMarked, LastOfHeader
    <2> QED BY <1>2, <1>3, <2>1, <2>2 DEF Numbers
  <1>7. /\ \A r \in Regions : ~Unfinished(r)'
        /\ ~AfterHeader' /\ ~AtMark' /\ ~InRegion' /\ ~AfterPack'
    BY <1>1 DEF Unfinished, AfterHeader, AtMark, InRegion, AfterPack
  <1> QED BY <1>1, <1>3, <1>4, <1>5, <1>6, <1>7, EndStep DEF Regions

LEMMA CWriteRIP ==
    ASSUME IInv, CInv, WriteRIP
    PROVE  CInv'
  <1> DEFINE n == LastPartition
             rip == KLV("rip", KLVLen(12 * n + 4), [e \in 1 .. n |-> partitions[e].thisPartition])
  <1>1. /\ pc = "filled" /\ n > 0 /\ Write(rip) /\ pc' = "rip"
        /\ UNCHANGED <<partitions, region, stage, cur, next, back>>
    BY DEF WriteRIP, client
  <1>2. Numbers /\ Control /\ Positions
    BY NumbersHold DEF IInv
  <1>3. IsKLV(rip) /\ rip.what = "rip"
    <2> DEFINE m == 12 * n + 4
    <2>1. m \in Nat
      BY <1>2 DEF Numbers
    <2>2. LLen(m) \in Nat /\ LLen(m) >= MinLLen
      BY <2>1, LLenIs
    <2> HIDE DEF m
    <2>3. KLVLen(m) \in Nat /\ KLVLen(m) >= KeyLen + MinLLen
      BY <2>1, <2>2, Lengths DEF KLVLen
    <2>4. rip.what = "rip" /\ rip.len = KLVLen(m)
      BY DEF KLV, m
    <2> QED BY <2>3, <2>4 DEF IsKLV
  <1> HIDE DEF rip
  <1>4. position = size /\ ~InPlace /\ ~Overrun /\ ~InPlace' /\ ~Overrun' /\ ~Updating'
    BY <1>1, <1>2 DEF Positions, InPlace, Overrun, Updating
  <1>5. Grows("rip")
    BY <1>1, <1>3, <1>4, Putting DEF Grows
  <1>6. HeaderDone' => HeaderDone
    BY <1>1 DEF HeaderDone, Updating, LastPartition
  <1>7. /\ \A r \in Regions : ~Unfinished(r)'
        /\ ~AfterHeader' /\ ~AtMark' /\ ~InRegion' /\ ~AfterPack'
    BY <1>1 DEF Unfinished, AfterHeader, AtMark, InRegion, AfterPack
  <1> QED BY <1>1, <1>4, <1>5, <1>6, <1>7, EndStep DEF Regions

LEMMA CFillHeaderFails ==
    ASSUME IInv, CInv, FillHeaderFails
    PROVE  CInv'
  <1>1. /\ pc = "content" /\ pc' \in {"failed", "assert"}
        /\ partitions' = partitions /\ region' = region /\ stage' = stage /\ cur' = cur
    BY DEF FillHeaderFails, client
  <1>2. Overrun' /\ ~Updating' /\ LastPartition' = LastPartition /\ (HeaderDone' => HeaderDone)
    BY <1>1 DEF Overrun, Updating, LastPartition, HeaderDone
  <1>3. \A e, r : (Count(e, r))' = Count(e, r)
    BY <1>1 DEF Count
  <1>4. Fresh' /\ HeaderCounted'
    BY <1>1, <1>2, <1>3 DEF CInv, Fresh, Unfinished, HeaderCounted
  <1> QED BY <1>2, <1>4 DEF CInv, CountsTrue, Progress, BodyClear, PacksTell
-----------------------------------------------------------------------------
(* Marks, and what they make of byte counts                                *)
LEMMA MarkStartIs ==
    ASSUME IInv, NEW r \in Regions, MarkStart(r)
    PROVE  /\ LastPartition' = LastPartition
           /\ \A e \in 1 .. LastPartition : (At(e))' = At(e)
           /\ \A e \in 1 .. LastPartition, x \in Regions : (Count(e, x))' = Count(e, x)
           /\ partitions'[cur].markInPos[r] = position
  <1> DEFINE old == partitions[cur]
             new == [old EXCEPT !.markInPos = [old.markInPos EXCEPT ![r] = position]]
  <1>1. pc = "content" /\ partitions' = [partitions EXCEPT ![cur].markInPos[r] = position]
    BY DEF MarkStart
  <1>2. partitions' = [partitions EXCEPT ![cur] = new]
    BY <1>1
  <1>3. partitions \in Seq(PartitionPacks) /\ cur \in 1 .. Len(partitions) /\ old \in PartitionPacks
    BY <1>1, ContentWhere DEF IInv, InOrder, LastPartition
  <1>4. new.byteCount = old.byteCount /\ new.thisPartition = old.thisPartition /\ new.markInPos[r] = position
    <2> HIDE DEF old
    <2> QED BY <1>3 DEF PartitionPacks
  <1> HIDE DEF new
  <1>5. /\ Len(partitions') = Len(partitions) /\ partitions'[cur] = new
        /\ \A e \in 1 .. Len(partitions) : e # cur => partitions'[e] = partitions[e]
    BY <1>2, <1>3
  <1>6. \A e \in 1 .. Len(partitions) : /\ partitions'[e].byteCount = partitions[e].byteCount
                                        /\ partitions'[e].thisPartition = partitions[e].thisPartition
    BY <1>4, <1>5
  <1> QED BY <1>4, <1>5, <1>6 DEF At, Count, LastPartition

LEMMA MarkEndIs ==
    ASSUME IInv, MarkEnd
    PROVE  /\ LastPartition' = LastPartition
           /\ \A e \in 1 .. LastPartition : (At(e))' = At(e)
           /\ \A e \in 1 .. LastPartition, x \in Regions :
                 (Count(e, x))' = IF e = cur /\ x = region THEN position - Mark(cur, region) ELSE Count(e, x)
  <1> DEFINE old == partitions[cur]
             count == position - old.markInPos[region]
             new == [old EXCEPT !.byteCount = [old.byteCount EXCEPT ![region] = count],
                                !.markInPos = [old.markInPos EXCEPT ![region] = -1]]
  <1>1. /\ pc = "content" /\ stage # "ended"
        /\ partitions' = [partitions EXCEPT ![cur].byteCount[region] = count,
                                            ![cur].markInPos[region] = -1]
    BY DEF MarkEnd, ByteCount
  <1>2. /\ partitions \in Seq(PartitionPacks) /\ cur \in 1 .. Len(partitions) /\ old \in PartitionPacks
        /\ region \in Regions /\ cur \in DOMAIN partitions
    BY <1>1, ContentWhere DEF IInv, InOrder, LastPartition, Control
  <1>3. partitions' = [partitions EXCEPT ![cur] = new]
    <2> DEFINE counted == [old EXCEPT !.byteCount[region] = count]
               marked == [counted EXCEPT !.markInPos[region] = -1]
    <2>1. partitions' = [[partitions EXCEPT ![cur] = counted] EXCEPT ![cur].markInPos[region] = -1]
      BY <1>1
    <2>2. [partitions EXCEPT ![cur] = counted][cur] = counted
      BY <1>2
    <2>3. marked = new
      <3> HIDE DEF old, count
      <3> QED BY <1>2 DEF PartitionPacks
    <2> HIDE DEF counted, count, old
    <2>4. partitions' = [[partitions EXCEPT ![cur] = counted] EXCEPT ![cur] = marked]
      BY <2>1, <2>2
    <2> HIDE DEF marked, new
    <2> QED BY <2>3, <2>4
  <1>4. /\ new.thisPartition = old.thisPartition
        /\ \A x \in Regions : new.byteCount[x] = IF x = region THEN count ELSE old.byteCount[x]
    <2> HIDE DEF old, count
    <2> QED BY <1>2 DEF PartitionPacks
  <1> HIDE DEF new
  <1>5. /\ Len(partitions') = Len(partitions) /\ partitions'[cur] = new
        /\ \A e \in 1 .. Len(partitions) : e # cur => partitions'[e] = partitions[e]
    BY <1>2, <1>3
  <1>6. \A e \in 1 .. Len(partitions) : partitions'[e].thisPartition = partitions[e].thisPartition
    BY <1>4, <1>5
  <1>7. \A e \in 1 .. Len(partitions), x \in Regions :
           partitions'[e].byteCount[x] = IF e = cur /\ x = region THEN count ELSE partitions[e].byteCount[x]
    BY <1>4, <1>5
  <1> QED BY <1>5, <1>6, <1>7 DEF At, Count, Mark, LastPartition

(* Counts that are not touched while the file is not                       *)
LEMMA CountsSame ==
    ASSUME IInv, CountsTrue, klvs' = klvs, size' = size, position' = position, LastPartition' = LastPartition,
           InPlace' = InPlace, Overrun' = Overrun,
           \A e \in 1 .. LastPartition, r \in Regions :
              (Count(e, r))' # 0 /\ (Again(e) => Marked(r)') =>
                 \/ Counts(klvs, Extent(e), At(e), r, (Count(e, r))')
                 \/ (Count(e, r))' = Count(e, r) /\ (Again(e) => Marked(r)),
           \A e \in 1 .. LastPartition : (At(e))' = At(e)
    PROVE  CountsTrue'
  <1> SUFFICES ASSUME ~Overrun, NEW e \in 1 .. LastPartition, NEW r \in Regions,
                      (Count(e, r))' # 0, Again(e) => Marked(r)'
               PROVE  Counts(klvs, Extent(e), At(e), r, (Count(e, r))')
    BY DEF CountsTrue, Extent, Again
  <1>1. CASE (Count(e, r))' = Count(e, r) /\ (Again(e) => Marked(r))
    BY <1>1 DEF CountsTrue
  <1> QED BY <1>1

LEMMA CMarkStart ==
    ASSUME IInv, CInv, NEW r \in Regions, MarkStart(r)
    PROVE  CInv'
  <1>1. /\ pc = "content" /\ stage = "ended" /\ MayFollow(r)
        /\ region' = r /\ stage' = "marked"
        /\ klvs' = klvs /\ size' = size /\ position' = position
        /\ pc' = pc /\ cur' = cur /\ next' = next /\ back' = back
    BY DEF MarkStart, fileVars
  <1>2. /\ LastPartition' = LastPartition
        /\ \A e \in 1 .. LastPartition : (At(e))' = At(e)
        /\ \A e \in 1 .. LastPartition, x \in Regions : (Count(e, x))' = Count(e, x)
        /\ partitions'[cur].markInPos[r] = position
    BY MarkStartIs
  <1>3. /\ cur \in 1 .. LastPartition /\ LastPartition > 0 /\ 1 \in 1 .. LastPartition
        /\ cur # LastPartition => InPlace /\ cur = 1
        /\ InPlace => cur = 1
    BY <1>1, ContentWhere, InPlaceIs
  <1>4. InPlace' = InPlace /\ Overrun' = Overrun /\ ~Updating' /\ (HeaderDone' => HeaderDone)
    BY <1>1, <1>2 DEF InPlace, Overrun, Updating, HeaderDone
  <1>5. (region = "pack" /\ (cur = 1 => r = "header")) \/ (region = "header" /\ r = "index")
    BY <1>1 DEF MayFollow
  <1>6. CountsTrue'
    <2>1. \A e \in 1 .. LastPartition, x \in Regions : Again(e) /\ Marked(x)' => Marked(x)
      BY <1>1, <1>3, <1>5 DEF Again, Marked, Regions
    <2> QED BY <1>1, <1>2, <1>4, <2>1, CountsSame DEF CInv
  <1>7. Fresh'
    <2>1. \A x \in Regions : Unfinished(x)' => Unfinished(x)
      BY <1>1, <1>5 DEF Unfinished, Regions
    <2>2. \A x \in Regions : (Count(cur, x))' = Count(cur, x)
      <3>1. \A x \in Regions : (Count(cur, x))' = partitions'[cur].byteCount[x]
        BY <1>1 DEF Count
      <3> QED BY <1>2, <1>3, <3>1 DEF Count
    <2> QED BY <1>1, <1>2, <2>1, <2>2 DEF CInv, Fresh
  <1>8. Progress'
    <2> SUFFICES ASSUME ~Overrun PROVE Progress'
      BY <1>4 DEF Progress
    <2>1. ~AfterPack' /\ ~AfterHeader' /\ ~InRegion'
      BY <1>1 DEF AfterPack, AfterHeader, InRegion, Regions
    <2>2. Clear(klvs, At(cur), r, position)
      <3>1. CASE region = "pack"
        <4>1. Clear(klvs, At(cur), "header", position)
          BY <1>1, <3>1 DEF CInv, Progress, AfterPack
        <4> QED BY <4>1 DEF Clear, MayPrecede, Regions
      <3>2. CASE region = "header" /\ r = "index"
        BY <1>1, <3>2 DEF CInv, Progress, AfterHeader
      <3> QED BY <1>5, <3>1, <3>2
    <2>3. (At(cur))' = At(cur)
      <3>1. (At(cur))' = partitions'[cur].thisPartition
        BY <1>1 DEF At
      <3> QED BY <1>2, <1>3, <3>1 DEF At
    <2>4. (Mark(cur, region))' = position
      BY <1>1, <1>2 DEF Mark
    <2> QED BY <1>1, <2>1, <2>2, <2>3, <2>4 DEF Progress
  <1>9. HeaderCounted'
    <2>1. HeaderMarked' => HeaderMarked
      BY <1>1, <1>5 DEF HeaderMarked
    <2> QED BY <1>1, <1>2, <1>3, <1>4, <2>1 DEF HeaderCounted, CInv, Regions
  <1>10. BodyClear'
    BY <1>1, <1>4 DEF BodyClear, CInv
  <1> QED BY <1>4, <1>6, <1>7, <1>8, <1>9, <1>10 DEF CInv, PacksTell

LEMMA CMarkEnd ==
    ASSUME IInv, CInv, MarkEnd
    PROVE  CInv'
  <1>1. /\ pc = "content" /\ stage \in {"written", "filled"} /\ stage' = "ended"
        /\ klvs' = klvs /\ size' = size /\ position' = position
        /\ pc' = pc /\ region' = region /\ cur' = cur /\ next' = next /\ back' = back
    BY DEF MarkEnd, fileVars
  <1>2. /\ LastPartition' = LastPartition
        /\ \A e \in 1 .. LastPartition : (At(e))' = At(e)
        /\ \A e \in 1 .. LastPartition, x \in Regions :
              (Count(e, x))' = IF e = cur /\ x = region THEN position - Mark(cur, region) ELSE Count(e, x)
    BY MarkEndIs
  <1>3. /\ cur \in 1 .. LastPartition /\ LastPartition > 0 /\ 1 \in 1 .. LastPartition
        /\ cur = LastPartition => ~InPlace /\ ~Overrun /\ position = size
        /\ cur # LastPartition => InPlace /\ cur = 1
        /\ InPlace => cur = 1
        /\ position \in Nat
    BY <1>1, ContentWhere, InPlaceIs
  <1>4. InPlace' = InPlace /\ Overrun' = Overrun /\ ~Updating' /\ (HeaderDone' => HeaderDone)
    BY <1>1, <1>2 DEF InPlace, Overrun, Updating, HeaderDone
  <1>5. region \in Regions /\ Mark(cur, region) \in 0 .. position
    BY <1>1 DEF IInv, Control, Positions, Mark
  <1>6. ASSUME ~Overrun
        PROVE  /\ Reaches(klvs, At(cur), region, Mark(cur, region), position)
               /\ position - Mark(cur, region) # 0
    <2>1. Reaches(klvs, At(cur), region, Mark(cur, region), position)
      BY <1>1, <1>5, <1>6 DEF CInv, Progress, InRegion
    <2>2. Mark(cur, region) < position
      BY <2>1 DEF Reaches
    <2> QED BY <1>3, <1>5, <2>1, <2>2
  <1>7. CountsTrue'
    <2> SUFFICES ASSUME ~Overrun PROVE CountsTrue'
      BY <1>4 DEF CountsTrue
    <2>1. Counts(klvs, position, At(cur), region, position - Mark(cur, region))
      <3> DEFINE s == Mark(cur, region)
      <3>1. Reaches(klvs, At(cur), region, s, position)
        BY <1>6
      <3>2. s \in Nat
        BY <1>5
      <3> HIDE DEF s
      <3>3. s + (position - s) = position
        BY <1>3, <3>2
      <3>4. s \in DOMAIN klvs
        BY <3>1 DEF Reaches
      <3>5. Counts(klvs, position, At(cur), region, position - s)
        BY <3>1, <3>3, <3>4 DEF Counts
      <3> QED BY <3>5 DEF s
    <2>2. Extent(cur) = position
      BY <1>3 DEF Extent, Again
    <2>3. ASSUME NEW e \in 1 .. LastPartition, NEW x \in Regions, Again(e) => Marked(x)', ~(e = cur /\ x = region)
          PROVE  Again(e) => Marked(x)
      BY <1>1, <1>3, <2>3 DEF Again, Marked
    <2>4. ASSUME NEW e \in 1 .. LastPartition, NEW x \in Regions, (Count(e, x))' # 0, Again(e) => Marked(x)'
          PROVE  \/ Counts(klvs, Extent(e), At(e), x, (Count(e, x))')
                 \/ (Count(e, x))' = Count(e, x) /\ (Again(e) => Marked(x))
      <3>1. CASE e = cur /\ x = region
        <4>1. (Count(e, x))' = position - Mark(cur, region)
          BY <1>2, <3>1
        <4> QED BY <2>1, <2>2, <3>1, <4>1
      <3>2. CASE ~(e = cur /\ x = region)
        BY <1>2, <2>3, <2>4, <3>2
      <3> QED BY <3>1, <3>2
    <2> QED BY <1>1, <1>2, <1>4, <2>4, CountsSame DEF CInv
  <1>8. Fresh'
    <2>1. \A x \in Regions : Unfinished(x)' => Unfinished(x) /\ x # region
      BY <1>1, <1>5 DEF Unfinished, Regions
    <2>2. \A x \in Regions : x # region => (Count(cur, x))' = Count(cur, x)
      <3>1. \A x \in Regions : (Count(cur, x))' = partitions'[cur].byteCount[x]
        BY <1>1 DEF Count
      <3> QED BY <1>2, <1>3, <3>1 DEF Count
    <2> QED BY <1>1, <1>2, <2>1, <2>2 DEF CInv, Fresh
  <1>9. Progress'
    <2>0. ~AfterPack' /\ ~AtMark' /\ ~InRegion'
      BY <1>1, <1>5 DEF AfterPack, AtMark, InRegion, Regions
    <2> SUFFICES ASSUME ~Overrun, AfterHeader' PROVE Clear(klvs, (At(cur))', "index", position)
      BY <1>1, <1>4, <2>0 DEF Progress
    <2>1. (At(cur))' = At(cur)
      <3>1. (At(cur))' = partitions'[cur].thisPartition
        BY <1>1 DEF At
      <3> QED BY <1>2, <1>3, <3>1 DEF At
    <2>2. region = "header" /\ Reaches(klvs, At(cur), "header", Mark(cur, region), position)
      BY <1>1, <1>6 DEF AfterHeader
    <2> DEFINE s == Mark(cur, region)
    <2>3. s \in Nat /\ DOMAIN klvs \subseteq Nat
      BY <1>5, NumbersHold DEF Numbers
    <2> HIDE DEF s
    <2>4. Reaches(klvs, At(cur), "header", s, position)
      BY <2>2 DEF s
    <2>5. ASSUME NEW q \in DOMAIN klvs, At(cur) < q, q < position PROVE klvs[q].what \in {"fill", "header"}
      <3>1. q < s \/ s <= q
        BY <2>3
      <3> QED BY <2>4, <2>5, <3>1 DEF Reaches, Clear, MayPrecede
    <2>6. Clear(klvs, At(cur), "index", position)
      BY <2>5 DEF Clear, MayPrecede
    <2> QED BY <2>1, <2>6
  <1>10. HeaderCounted'
    <2>1. region = "index" /\ cur = 1 => HeaderHasIndex
      BY <1>1 DEF IInv, Positions
    <2>2. LastPartition > 0 /\ ~HeaderHasIndex => (Count(1, "index"))' = 0
      BY <1>2, <1>3, <2>1 DEF CInv, HeaderCounted, Regions
    <2>3. ASSUME ~Overrun, HeaderDone' \/ (pc' = "content" /\ HeaderMarked') PROVE (Count(1, "header"))' # 0
      <3>1. CASE cur = 1 /\ region = "header"
        BY <1>2, <1>3, <1>6, <2>3, <3>1 DEF Regions
      <3>2. CASE ~(cur = 1 /\ region = "header")
        <4>1. (Count(1, "header"))' = Count(1, "header")
          BY <1>2, <1>3, <3>2 DEF Regions
        <4>2. HeaderMarked' => HeaderMarked
          BY <1>1, <3>2 DEF HeaderMarked
        <4> QED BY <1>1, <1>4, <2>3, <4>1, <4>2 DEF CInv, HeaderCounted
      <3> QED BY <3>1, <3>2
    <2> QED BY <1>1, <1>2, <1>4, <2>2, <2>3 DEF HeaderCounted
  <1>11. BodyClear'
    BY <1>1, <1>4 DEF BodyClear, CInv
  <1> QED BY <1>4, <1>7, <1>8, <1>9, <1>10, <1>11 DEF CInv, PacksTell
-----------------------------------------------------------------------------
(* Steps that go back to header metadata and to packs                      *)
LEMMA StillCounts ==
    ASSUME IInv, CInv, klvs' = klvs, size' = size, cur' = cur, LastPartition' = LastPartition,
           \A e \in 1 .. LastPartition, r \in Regions : (Count(e, r))' = Count(e, r) /\ (At(e))' = At(e),
           ~Overrun, ~InPlace, ~Overrun', ~InPlace', HeaderDone, LastPartition > 0,
           pc' \in {"filled", "rip", "update", "rewrite"}
    PROVE  CountsTrue' /\ Fresh' /\ Progress' /\ HeaderCounted' /\ BodyClear'
  <1>1. CInv /\ Numbers
    BY NumbersHold
  <1>2. CountsTrue'
    <2>1. \A r \in Regions : "fill" # r
      BY DEF Regions
    <2> QED BY <1>1, <2>1, CountsAtEnd DEF CInv
  <1>3. Fresh' /\ Progress'
    BY DEF Fresh, Unfinished, Progress, AfterPack, AfterHeader, AtMark, InRegion
  <1>4. HeaderCounted'
    <2>1. 1 \in 1 .. LastPartition
      BY <1>1 DEF Numbers
    <2> QED BY <1>1, <2>1 DEF HeaderCounted, CInv, Regions
  <1>5. BodyClear'
    BY <1>1 DEF BodyClear, CInv
  <1> QED BY <1>2, <1>3, <1>4, <1>5

LEMMA CGoToMetadata ==
    ASSUME IInv, CInv, GoToMetadata
    PROVE  CInv'
  <1>1. /\ pc \in {"filled", "rip"} /\ LastPartition > 1
        /\ position' = MetadataPos /\ klvs' = klvs /\ size' = size
        /\ pc' = "content" /\ region' = "pack" /\ stage' = "ended"
        /\ cur' = 1 /\ back' = pc
        /\ partitions' = partitions /\ next' = next
    BY DEF GoToMetadata, Seek
  <1>2. Numbers /\ CInv
    BY NumbersHold
  <1>3. /\ LastPartition' = LastPartition
        /\ \A e : (At(e))' = At(e)
        /\ \A e, r : (Count(e, r))' = Count(e, r)
    BY <1>1 DEF LastPartition, At, Count
  <1>4. ~InPlace /\ ~Overrun /\ HeaderDone /\ ~Updating' /\ InPlace' /\ 1 \in 1 .. LastPartition
    BY <1>1, <1>2, <1>3 DEF InPlace, Overrun, HeaderDone, Updating, Numbers
  <1>5. \A e \in 1 .. LastPartition, r \in Regions : Count(e, r) # 0 => Counts(klvs, size, At(e), r, Count(e, r))
    BY <1>2, <1>4 DEF CInv, CountsTrue, Again, Extent
  <1>6. CountsTrue'
    <2>1. \A r \in Regions : ~Marked(r)'
      BY <1>1 DEF Marked, Regions
    <2>2. \A e \in 1 .. LastPartition, r \in Regions : (Again(e) => Marked(r))' => Extent(e)' = size
      BY <1>1, <1>4, <2>1 DEF Again, Extent
    <2> QED BY <1>1, <1>3, <1>5, <2>2 DEF CountsTrue
  <1>7. Fresh'
    BY <1>1, <1>3 DEF Fresh
  <1>8. Progress'
    <2>1. ~AfterHeader' /\ ~AtMark' /\ ~InRegion'
      BY <1>1 DEF AfterHeader, AtMark, InRegion, Regions
    <2>2. Counts(klvs, size, At(1), "header", Count(1, "header"))
      BY <1>2, <1>4, <1>5 DEF CInv, HeaderCounted, Regions
    <2>3. PICK s \in DOMAIN klvs : klvs[s].what = "header" /\ Clear(klvs, At(1), "header", s)
      BY <2>2 DEF Counts, Reaches
    <2>4. MetadataPos <= s /\ MetadataPos \in Nat /\ DOMAIN klvs \subseteq Nat
      BY <1>2, <1>4, <2>3, MetadataPosIs DEF Numbers
    <2>5. Clear(klvs, At(1), "header", MetadataPos)
      <3>1. \A q \in DOMAIN klvs : q < MetadataPos => q < s
        BY <2>4
      <3> QED BY <2>3, <3>1 DEF Clear
    <2>6. (At(cur))' = At(1)
      BY <1>1 DEF At
    <2> QED BY <1>1, <2>1, <2>5, <2>6 DEF Progress
  <1>9. HeaderCounted'
    BY <1>1, <1>2, <1>3, <1>4 DEF HeaderCounted, CInv
  <1>10. BodyClear'
    BY <1>1, <1>2, <1>4 DEF BodyClear, CInv
  <1> QED BY <1>4, <1>6, <1>7, <1>8, <1>9, <1>10 DEF CInv, PacksTell

LEMMA CGoToEnd ==
    ASSUME IInv, CInv, GoToEnd
    PROVE  CInv'
  <1>1. /\ pc = "content" /\ stage = "ended" /\ cur = 1 /\ LastPartition > 1 /\ region = LastOfHeader
        /\ klvs' = klvs /\ size' = size
        /\ pc' = back /\ cur' = LastPartition
        /\ partitions' = partitions
    BY DEF GoToEnd, SeekEnd, Seek
  <1>2. Numbers /\ Control /\ Positions /\ CInv
    BY NumbersHold DEF IInv
  <1>3. InPlace /\ position = BodyOffset
    BY <1>1, <1>2 DEF InPlace, Positions, Numbers
  <1>4. ~Overrun /\ HeaderDone /\ BodyOffset < size /\ BodyOffset \in DOMAIN klvs /\ BodyOffset \in Nat
    BY <1>2, <1>3, InPlaceIs DEF Numbers
  <1>5. /\ LastPartition' = LastPartition
        /\ \A e : (At(e))' = At(e)
        /\ \A e, r : (Count(e, r))' = Count(e, r)
    BY <1>1 DEF LastPartition, At, Count
  <1>6. pc' \in {"filled", "rip"} /\ ~InPlace' /\ ~Overrun' /\ ~Updating'
    BY <1>1, <1>2 DEF Control, InPlace, Overrun, Updating
  <1>7. klvs[BodyOffset].what \notin Regions
    BY <1>2, <1>4 DEF CInv, BodyClear
  <1>8. CountsTrue'
    <2> SUFFICES ASSUME NEW e \in 1 .. LastPartition, NEW r \in Regions, Count(e, r) # 0
                 PROVE  Counts(klvs, size, At(e), r, Count(e, r))
      BY <1>1, <1>5, <1>6 DEF CountsTrue, Again, Extent
    <2>1. CASE e = 1
      <3>1. Marked(r)
        <4>1. r = "index" => HeaderHasIndex
          BY <1>1, <1>2, <2>1 DEF CInv, HeaderCounted, Numbers
        <4> QED BY <1>1, <4>1 DEF Marked, LastOfHeader, Regions
      <3>2. Counts(klvs, BodyOffset, At(e), r, Count(e, r))
        BY <1>2, <1>3, <1>4, <2>1, <3>1 DEF CInv, CountsTrue, Again, Extent
      <3> DEFINE n == Count(e, r)
                 z == BodyOffset
      <3>3. PICK s \in DOMAIN klvs : /\ Reaches(klvs, At(e), r, s, s + n)
                                     /\ s + n = z \/ (s + n < z /\ s + n \in DOMAIN klvs /\ klvs[s + n].what # r)
        BY <3>2 DEF Counts
      <3>4. n \in Nat /\ s \in Nat /\ z \in Nat /\ z < size /\ size \in Nat
        BY <1>2, <1>4 DEF Numbers, Count
      <3>5. z \in DOMAIN klvs /\ klvs[z].what # r
        BY <1>4, <1>7
      <3> HIDE DEF n, z
      <3>6. s + n < size /\ s + n \in DOMAIN klvs /\ klvs[s + n].what # r
        <4>1. CASE s + n = z
          BY <3>4, <3>5, <4>1
        <4>2. CASE s + n # z
          BY <3>3, <3>4, <4>2
        <4> QED BY <4>1, <4>2
      <3>7. Counts(klvs, size, At(e), r, n)
        BY <3>3, <3>6 DEF Counts
      <3> QED BY <3>7 DEF n
    <2>2. CASE e # 1
      BY <1>2, <1>4, <2>2 DEF CInv, CountsTrue, Again, Extent
    <2> QED BY <2>1, <2>2
  <1>9. Fresh' /\ Progress'
    BY <1>6 DEF Fresh, Unfinished, Progress, AfterPack, AfterHeader, AtMark, InRegion
  <1>10. HeaderCounted'
    BY <1>2, <1>4, <1>5, <1>6 DEF HeaderCounted, CInv
  <1>11. BodyClear'
    BY <1>1, <1>2, <1>4 DEF BodyClear, CInv
  <1> QED BY <1>6, <1>8, <1>9, <1>10, <1>11 DEF CInv, PacksTell
-----------------------------------------------------------------------------
(* Steps of mxf_update_partitions                                          *)
LEMMA LinkedIs ==
    ASSUME IInv, NEW e \in 1 .. LastPartition
    PROVE  /\ Linked(e).byteCount = partitions[e].byteCount
           /\ HasFooter => Linked(e).footerPartition = At(LastPartition)
  <1> DEFINE old == partitions[e]
             previous == IF e > 1 THEN partitions[e - 1].thisPartition ELSE old.previousPartition
             last == IF HaveFooter THEN At(LastPartition) ELSE old.footerPartition
  <1>1. old \in PartitionPacks
    BY DEF IInv, InOrder, LastPartition
  <1>2. Linked(e) = [old EXCEPT !.previousPartition = previous, !.footerPartition = last]
    BY <1>1 DEF Linked, At, PartitionPacks
  <1>3. HasFooter => last = At(LastPartition)
    BY DEF HasFooter, FooterAppended, HaveFooter
  <1> HIDE DEF old, previous, last
  <1>4. Linked(e).byteCount = old.byteCount /\ Linked(e).footerPartition = last
    BY <1>1, <1>2 DEF PartitionPacks
  <1> QED BY <1>3, <1>4 DEF old

LEMMA CUpdateInMemory ==
    ASSUME IInv, CInv, UpdateInMemory
    PROVE  CInv'
  <1> DEFINE n == LastPartition
  <1>1. /\ pc = "filled" \/ pc = "rip"
        /\ pc = "filled" => n > 0
        /\ partitions' = [e \in 1 .. n |-> Linked(e)]
        /\ pc' = "update" /\ next' = 1
        /\ klvs' = klvs /\ size' = size /\ cur' = cur
    BY DEF UpdateInMemory, fileVars
  <1>2. Numbers /\ Control /\ InOrder /\ SamePlaces
    BY NumbersHold, UpdateInMemoryStep DEF IInv
  <1>3. n \in Nat /\ n > 0 /\ ~InPlace /\ ~Overrun /\ ~InPlace' /\ ~Overrun'
    BY <1>1, <1>2 DEF Numbers, Control, InPlace, Overrun
  <1>4. HeaderDone
    <2>1. pc = "rip" => n # 1
      BY <1>2, <1>3 DEF Control, InOrder, HasFooter, FooterAppended
    <2> QED BY <1>1, <1>3, <2>1 DEF HeaderDone
  <1>5. LastPartition' = n /\ HasFooter' = HasFooter /\ \A e \in 1 .. n : (At(e))' = At(e)
    BY <1>2, SameAt DEF SamePlaces
  <1>6. \A e \in 1 .. n : partitions'[e] = Linked(e)
    BY <1>1
  <1>7. \A e \in 1 .. n, r \in Regions : (Count(e, r))' = Count(e, r)
    BY <1>6, LinkedIs DEF Count
  <1>8. CountsTrue' /\ Fresh' /\ Progress' /\ HeaderCounted' /\ BodyClear'
    BY <1>1, <1>3, <1>4, <1>5, <1>7, StillCounts
  <1>9. PacksTell'
    <2>1. (At(LastPartition))' = At(n)
      <3>1. n \in 1 .. n
        BY <1>3
      <3>2. (At(LastPartition))' = partitions'[n].thisPartition
        BY <1>5 DEF At
      <3> QED BY <1>2, <3>1, <3>2 DEF SamePlaces, At
    <2>2. HasFooter => \A e \in 1 .. n : partitions'[e].footerPartition = At(n)
      BY <1>6, LinkedIs
    <2>3. \A e \in 1 .. next' - 1 : FALSE
      BY <1>1
    <2> QED BY <1>5, <2>1, <2>2, <2>3 DEF PacksTell
  <1> QED BY <1>8, <1>9 DEF CInv

LEMMA CSeekToPartition ==
    ASSUME IInv, CInv, SeekToPartition
    PROVE  CInv'
  <1>1. /\ pc = "update" /\ pc' = "rewrite"
        /\ klvs' = klvs /\ size' = size /\ partitions' = partitions /\ cur' = cur /\ next' = next
    BY DEF SeekToPartition, Seek, client
  <1>2. Updating /\ ~InPlace' /\ ~Overrun'
    BY <1>1 DEF Updating, InPlace, Overrun
  <1>3. ~InPlace /\ ~Overrun /\ HeaderDone /\ LastPartition > 0
    BY <1>2, UpdatingIs
  <1>4. /\ LastPartition' = LastPartition /\ HasFooter' = HasFooter
        /\ \A e : (At(e))' = At(e)
        /\ \A e, r : (Count(e, r))' = Count(e, r)
    BY <1>1 DEF LastPartition, At, Count, HasFooter, FooterAppended
  <1>5. CountsTrue' /\ Fresh' /\ Progress' /\ HeaderCounted' /\ BodyClear'
    BY <1>1, <1>2, <1>3, <1>4, StillCounts
  <1>6. PacksTell'
    <2>1. (At(LastPartition))' = At(LastPartition)
      BY <1>1 DEF At, LastPartition
    <2> QED BY <1>1, <1>2, <1>4, <2>1 DEF CInv, PacksTell
  <1> QED BY <1>5, <1>6 DEF CInv

LEMMA CUpdateReturns ==
    ASSUME IInv, CInv, UpdateReturns
    PROVE  CInv'
  <1>1. /\ pc = "update" /\ pc' = back
        /\ klvs' = klvs /\ size' = size /\ partitions' = partitions /\ cur' = cur
    BY DEF UpdateReturns, SeekEnd, Seek
  <1>2. pc' \in {"filled", "rip"}
    BY <1>1 DEF IInv, Control
  <1>3. Updating /\ ~Updating' /\ ~InPlace' /\ ~Overrun'
    BY <1>1, <1>2 DEF Updating, InPlace, Overrun
  <1>4. ~InPlace /\ ~Overrun /\ HeaderDone /\ LastPartition > 0
    BY <1>3, UpdatingIs
  <1>5. /\ LastPartition' = LastPartition
        /\ \A e : (At(e))' = At(e)
        /\ \A e, r : (Count(e, r))' = Count(e, r)
    BY <1>1 DEF LastPartition, At, Count
  <1>6. CountsTrue' /\ Fresh' /\ Progress' /\ HeaderCounted' /\ BodyClear'
    BY <1>1, <1>2, <1>3, <1>4, <1>5, StillCounts
  <1> QED BY <1>3, <1>6 DEF CInv, PacksTell

(* What the file is after a pack has been written over itself              *)
LEMMA Rewritten ==
    ASSUME IInv, RewritePartition
    PROVE  /\ next \in 1 .. LastPartition /\ Written = LastPartition
           /\ size' = size /\ DOMAIN klvs' = DOMAIN klvs
           /\ \A q \in DOMAIN klvs : klvs'[q].what = klvs[q].what
           /\ \A q \in DOMAIN klvs : q # At(next) => klvs'[q] = klvs[q]
           /\ At(next) \in DOMAIN klvs
           /\ klvs'[At(next)].holds.byteCount = partitions'[next].byteCount
           /\ klvs'[At(next)].holds.footerPartition = partitions'[next].footerPartition
           /\ \A e \in 1 .. LastPartition : partitions'[e].byteCount = partitions[e].byteCount
           /\ \A e \in 1 .. LastPartition :
                 partitions'[e].footerPartition =
                    IF e = next /\ partitions[e].kind = "footer" THEN At(e) ELSE partitions[e].footerPartition
  <1> DEFINE n == LastPartition
             at == At(next)
             pack == KLV("pack", KLVLen(PackLen), Pack(Placed(partitions[next])))
  <1>1. /\ pc = "rewrite" /\ partitions' = [partitions EXCEPT ![next] = Placed(@)] /\ Write(pack)
    BY DEF RewritePartition, WritePack
  <1>2. Numbers /\ Control /\ InOrder /\ PacksTrue /\ KLVsApart /\ Whole
    BY NumbersHold DEF IInv
  <1>3. Updating
    BY <1>1 DEF Updating
  <1>4. ~Overrun /\ n > 0 /\ Written = n /\ Tiled(klvs, 0, size)
    BY <1>3, UpdatingIs
  <1>5. next \in 1 .. n /\ position = at
    BY <1>1, <1>2, <1>3 DEF Control, Numbers
  <1>6. /\ at \in Nat /\ at + PackSize <= size
        /\ at \in DOMAIN klvs /\ klvs[at].len = PackSize /\ klvs[at].what = "pack"
    <2>1. at \in Nat /\ at + PackSize <= size /\ at \in Packs
      BY <1>2, <1>4, <1>5 DEF InOrder, Whole, Numbers
    <2> QED BY <1>2, <2>1 DEF Packs, PacksTrue
  <1>7. /\ \A j \in 1 .. n : j # next => partitions'[j] = partitions[j]
        /\ partitions'[next] = Placed(partitions[next])
        /\ partitions'[next].byteCount = partitions[next].byteCount
        /\ partitions'[next].footerPartition =
              IF partitions[next].kind = "footer" THEN at ELSE partitions[next].footerPartition
    <2> HIDE DEF at
    <2> QED BY <1>1, <1>5, PlacedIs
  <1>8. /\ pack.what = "pack" /\ pack.len = PackSize
        /\ pack.holds.byteCount = partitions'[next].byteCount
        /\ pack.holds.footerPartition = partitions'[next].footerPartition
    <2>1. pack.what = "pack" /\ pack.len = PackSize /\ pack.holds = Pack(Placed(partitions[next]))
      BY DEF KLV, PackSize
    <2> HIDE DEF pack, at
    <2> QED BY <1>7, <2>1 DEF Pack
  <1>9. \A e \in 1 .. n :
           /\ partitions'[e].byteCount = partitions[e].byteCount
           /\ partitions'[e].footerPartition =
                 IF e = next /\ partitions[e].kind = "footer" THEN At(e) ELSE partitions[e].footerPartition
    BY <1>7
  <1> HIDE DEF pack, at
  <1>10. /\ size' = size /\ DOMAIN klvs' = DOMAIN klvs
         /\ \A q \in DOMAIN klvs : q # at => klvs'[q] = klvs[q]
         /\ klvs'[at] = pack
    <2>1. klvs' = WithKLV(klvs, at, pack) /\ size' = Larger(size, at + pack.len)
      BY <1>1, <1>5, WriteIs
    <2>2. IsKLV(pack) /\ pack.len = klvs[at].len /\ Apart(klvs, size)
      BY <1>2, <1>6, <1>8 DEF IsKLV, Numbers, KLVsApart
    <2>3. size' = size
      BY <1>2, <1>6, <1>8, <2>1 DEF Larger, Numbers
    <2>4. klvs'[at] = pack
      BY <1>6, <2>1, <2>2, WithKLVIs
    <2>5. /\ DOMAIN klvs' = DOMAIN klvs
          /\ \A q \in DOMAIN klvs : q # at => klvs'[q] = klvs[q]
      BY <1>2, <1>4, <1>6, <2>1, <2>2, TiledAround DEF Numbers
    <2> QED BY <2>3, <2>4, <2>5
  <1>11. \A q \in DOMAIN klvs : klvs'[q].what = klvs[q].what
    BY <1>6, <1>8, <1>10
  <1> QED BY <1>4, <1>5, <1>6, <1>8, <1>9, <1>10, <1>11 DEF at

LEMMA CRewritePartition ==
    ASSUME IInv, CInv, RewritePartition
    PROVE  CInv'
  <1> DEFINE n == LastPartition
  <1>1. pc = "rewrite" /\ next' = next + 1 /\ pc' = "update" /\ cur' = cur
    BY DEF RewritePartition
  <1>2. Numbers /\ Control /\ InOrder /\ Whole /\ CInv
    BY NumbersHold DEF IInv
  <1>3. Updating /\ Updating' /\ ~InPlace' /\ ~Overrun'
    BY <1>1 DEF Updating, InPlace, Overrun
  <1>4. ~InPlace /\ ~Overrun /\ HeaderDone /\ n > 0 /\ Written = n
    BY <1>3, UpdatingIs
  <1>5. SamePlaces
    BY RewritePartitionStep
  <1>6. LastPartition' = n /\ HasFooter' = HasFooter /\ \A e \in 1 .. n : (At(e))' = At(e)
    BY <1>5, SameAt DEF SamePlaces
  <1>7. \A e \in 1 .. n, r \in Regions : (Count(e, r))' = Count(e, r)
    BY Rewritten DEF Count
  <1>8. CountsTrue'
    <2> SUFFICES ASSUME NEW e \in 1 .. n, NEW r \in Regions, Count(e, r) # 0
                 PROVE  Counts(klvs', size', At(e), r, Count(e, r))
      BY <1>3, <1>6, <1>7 DEF CountsTrue, Again, Extent
    <2>1. Counts(klvs, size, At(e), r, Count(e, r))
      BY <1>2, <1>4 DEF CInv, CountsTrue, Again, Extent
    <2> QED BY <2>1, Rewritten, SameKinds
  <1>9. Fresh' /\ Progress'
    BY <1>1 DEF Fresh, Unfinished, Progress, AfterPack, AfterHeader, AtMark, InRegion
  <1>10. HeaderCounted'
    <2>1. 1 \in 1 .. n
      BY <1>2, <1>4 DEF Numbers
    <2> QED BY <1>1, <1>2, <1>4, <1>6, <1>7, <2>1 DEF HeaderCounted, CInv, Regions
  <1>11. BodyClear'
    BY <1>2, <1>4, Rewritten DEF BodyClear, CInv
  <1>12. PacksTell'
    <2>1. n \in 1 .. n /\ next \in Nat /\ n \in Nat /\ next \in 1 .. n
      BY <1>2, <1>4, Rewritten DEF Numbers
    <2>2. (At(LastPartition))' = At(n)
      <3>1. (At(LastPartition))' = partitions'[n].thisPartition
        BY <1>6 DEF At
      <3> QED BY <1>5, <2>1, <3>1 DEF SamePlaces, At
    <2>3. ASSUME HasFooter, NEW e \in 1 .. n PROVE partitions'[e].footerPartition = At(n)
      <3>1. partitions[e].footerPartition = At(n)
        BY <1>2, <1>3, <2>3 DEF CInv, PacksTell
      <3>2. partitions[e].kind = "footer" => e = n
        BY <1>2 DEF InOrder
      <3> QED BY <3>1, <3>2, Rewritten
    <2>4. ASSUME NEW e \in 1 .. next
          PROVE  /\ klvs'[(At(e))'].holds.byteCount = partitions'[e].byteCount
                 /\ klvs'[(At(e))'].holds.footerPartition = partitions'[e].footerPartition
      <3>1. e \in 1 .. n /\ (At(e))' = At(e)
        BY <1>6, <2>1
      <3>2. CASE e = next
        BY <3>1, <3>2, Rewritten
      <3>3. CASE e # next
        <4>1. e \in 1 .. next - 1
          BY <2>1, <3>3
        <4>2. /\ klvs[At(e)].holds.byteCount = partitions[e].byteCount
              /\ klvs[At(e)].holds.footerPartition = partitions[e].footerPartition
          BY <1>2, <1>3, <4>1 DEF CInv, PacksTell
        <4>3. At(e) # At(next)
          <5>1. At(e) + PackSize <= At(next) /\ At(e) \in Nat /\ PackSize \in Nat /\ PackSize > 0
            BY <1>2, <1>4, <2>1, <3>1, <4>1 DEF InOrder, Numbers
          <5> QED BY <5>1
        <4>4. At(e) \in DOMAIN klvs
          BY <1>2, <1>4, <3>1 DEF Whole, Packs
        <4>5. klvs'[At(e)] = klvs[At(e)]
          BY <4>3, <4>4, Rewritten
        <4>6. /\ partitions'[e].byteCount = partitions[e].byteCount
              /\ partitions'[e].footerPartition = partitions[e].footerPartition
          BY <3>1, <3>3, Rewritten
        <4> QED BY <3>1, <4>2, <4>5, <4>6
      <3> QED BY <3>2, <3>3
    <2>5. next' - 1 = next
      BY <1>1, <2>1
    <2> QED BY <1>3, <1>6, <2>2, <2>3, <2>4, <2>5 DEF PacksTell
  <1> QED BY <1>8, <1>9, <1>10, <1>11, <1>12 DEF CInv
-----------------------------------------------------------------------------
LEMMA InitCInv == Init => CInv
  <1> SUFFICES ASSUME Init PROVE CInv
    OBVIOUS
  <1>1. LastPartition = 0 /\ pc = "filled" /\ cur = 0
    BY DEF Init, LastPartition
  <1>2. CountsTrue /\ Fresh
    BY <1>1 DEF CountsTrue, Fresh
  <1>3. ~Updating /\ ~HeaderDone
    BY <1>1 DEF Updating, HeaderDone
  <1>4. Progress
    BY <1>1 DEF Progress, AfterPack, AfterHeader, AtMark, InRegion
  <1> QED BY <1>1, <1>2, <1>3, <1>4 DEF CInv, HeaderCounted, BodyClear, PacksTell

LEMMA NextCInv == IInv /\ CInv /\ [Next]_vars => CInv'
  <1> SUFFICES ASSUME IInv, CInv, [Next]_vars PROVE CInv'
    OBVIOUS
  <1>1. ASSUME NEW kind \in {"header", "body", "footer"}, NEW kagSize \in KagSizes, AppendPartition(kind, kagSize)
        PROVE  CInv'
    BY <1>1, CAppend
  <1>2. CASE WritePartition
    BY <1>2, CWritePartition
  <1>3. CASE FillAfterPack
    BY <1>3, CFillAfterPack
  <1>4. ASSUME NEW r \in Regions, MarkStart(r) PROVE CInv'
    BY <1>4, CMarkStart
  <1>5. ASSUME NEW len, WriteContent(len) PROVE CInv'
    BY <1>5, CWriteContent
  <1>6. ASSUME NEW space \in Spaces, FillContent(space) PROVE CInv'
    BY <1>6, CFillContent
  <1>7. CASE FillHeader
    BY <1>7, CFillHeader
  <1>8. CASE FillHeaderFails
    BY <1>8, CFillHeaderFails
  <1>9. CASE MarkEnd
    BY <1>9, CMarkEnd
  <1>10. ASSUME NEW len \in ContentSizes["essence"], WriteEssence(len) PROVE CInv'
    BY <1>10, CWriteEssence
  <1>11. CASE FillAfterContent
    BY <1>11, CFillAfterContent
  <1>12. CASE WriteRIP
    BY <1>12, CWriteRIP
  <1>13. CASE GoToMetadata
    BY <1>13, CGoToMetadata
  <1>14. CASE GoToEnd
    BY <1>14, CGoToEnd
  <1>15. CASE UpdateInMemory
    BY <1>15, CUpdateInMemory
  <1>16. CASE SeekToPartition
    BY <1>16, CSeekToPartition
  <1>17. CASE RewritePartition
    BY <1>17, CRewritePartition
  <1>18. CASE UpdateReturns
    BY <1>18, CUpdateReturns
  <1>19. CASE UNCHANGED vars
    <2>1. /\ partitions' = partitions /\ klvs' = klvs /\ size' = size /\ position' = position /\ pc' = pc
          /\ region' = region /\ stage' = stage /\ cur' = cur /\ next' = next
      BY <1>19 DEF vars
    <2>2. /\ LastPartition' = LastPartition /\ HasFooter' = HasFooter /\ Updating' = Updating
          /\ InPlace' = InPlace /\ Overrun' = Overrun /\ HeaderDone' = HeaderDone
      BY <2>1 DEF LastPartition, HasFooter, FooterAppended, Updating, InPlace, Overrun, HeaderDone
    <2>3. CountsTrue'
      BY <2>1, <2>2 DEF CInv, CountsTrue, Count, At, Again, Extent, Marked
    <2>4. Fresh' /\ Progress'
      BY <2>1, <2>2 DEF CInv, Fresh, Unfinished, Progress, AfterPack, AfterHeader, AtMark, InRegion, Count, Mark, At
    <2>5. HeaderCounted' /\ BodyClear' /\ PacksTell'
      BY <2>1, <2>2 DEF CInv, HeaderCounted, HeaderMarked, BodyClear, PacksTell, Count, At
    <2> QED BY <2>3, <2>4, <2>5 DEF CInv
  <1> QED BY <1>1, <1>2, <1>3, <1>4, <1>5, <1>6, <1>7, <1>8, <1>9, <1>10, <1>11, <1>12, <1>13, <1>14,
             <1>15, <1>16, <1>17, <1>18, <1>19 DEF Next

LEMMA CountInvariance == Spec => []CInv
  BY InitCInv, NextCInv, Invariance, PTL DEF Spec

(* Counts is all that the reader of a region asks for.                     *)
LEMMA CountsLead ==
    ASSUME IInv, NEW pos \in DOMAIN klvs, NEW r \in Regions, NEW n \in Nat,
           klvs[pos].holds.byteCount[r] = n, Counts(klvs, size, pos, r, n)
    PROVE  CountLeadsToEnd(pos, r)
  <1>1. PICK s \in DOMAIN klvs : /\ Reaches(klvs, pos, r, s, s + n)
                                 /\ s + n = size \/ (s + n < size /\ s + n \in DOMAIN klvs /\ klvs[s + n].what # r)
    BY DEF Counts
  <1>2. DOMAIN klvs \subseteq Nat /\ size \in Nat /\ \A q \in DOMAIN klvs : q < size
    <2>1. /\ DOMAIN klvs \subseteq Nat /\ size \in Nat
          /\ \A q \in DOMAIN klvs : klvs[q].len \in Nat /\ klvs[q].len > 0 /\ q + klvs[q].len <= size
      BY NumbersHold DEF Numbers
    <2>2. ASSUME NEW q \in DOMAIN klvs PROVE q < size
      <3>1. q \in Nat /\ klvs[q].len \in Nat /\ klvs[q].len > 0 /\ q + klvs[q].len <= size
        BY <2>1
      <3> QED BY <2>1, <3>1
    <2> QED BY <2>1, <2>2
  <1>3. pos < s /\ klvs[s].what = r
    BY <1>1 DEF Reaches
  <1>4. \A q \in DOMAIN klvs : pos < q /\ klvs[q].what = r => s <= q
    <2> SUFFICES ASSUME NEW q \in DOMAIN klvs, pos < q, klvs[q].what = r, q < s PROVE FALSE
      BY <1>2
    <2> QED BY <1>1 DEF Reaches, Clear, MayPrecede, Regions
  <1>5. RegionAt(pos, r) = s
    <2>1. \A p \in DOMAIN klvs : p > pos <=> pos < p
      BY <1>2
    <2>2. \A p \in DOMAIN klvs :
             (p > pos /\ klvs[p].what = r /\ \A q \in DOMAIN klvs : q > pos /\ klvs[q].what = r => p <= q) <=> p = s
      BY <1>2, <1>3, <1>4
    <2> QED BY <2>2 DEF RegionAt
  <1>6. s + n \in DOMAIN klvs => klvs[s + n].what # r
    BY <1>1, <1>2
  <1>7. \A q \in DOMAIN klvs : s <= q /\ q < s + n => klvs[q].what \in {r, "fill"}
    BY <1>1 DEF Reaches
  <1> QED BY <1>1, <1>5, <1>6, <1>7 DEF CountLeadsToEnd

LEMMA UpdateTells ==
    ASSUME IInv, CInv, LastPartition <= MaxPartitions, pc = "update", next > LastPartition
    PROVE  ByteCounts /\ (FooterAppended => EveryPack(FromFooter))
  <1> DEFINE n == LastPartition
  <1>1. Numbers /\ Control /\ InOrder /\ Whole /\ PacksTrue /\ Links /\ CInv
    BY NumbersHold DEF IInv
  <1>2. Updating
    BY DEF Updating
  <1>3. ~InPlace /\ ~Overrun /\ n > 0 /\ Written = n /\ n \in Nat /\ 1 \in 1 .. n
    BY <1>1, <1>2, UpdatingIs DEF Numbers
  <1>4. \A e \in 1 .. n : e \in 1 .. next - 1
    BY <1>1 DEF Control, Numbers
  <1>5. \A e \in 1 .. n : /\ klvs[At(e)].holds.byteCount = partitions[e].byteCount
                          /\ klvs[At(e)].holds.footerPartition = partitions[e].footerPartition
                          /\ klvs[At(e)].holds.previousPartition = Previous(e)
    BY <1>1, <1>2, <1>4 DEF CInv, PacksTell, Links
  <1>6. ByteCounts
    <2> SUFFICES ASSUME NEW pos \in Packs, NEW r \in Regions, klvs[pos].holds.byteCount[r] # 0
                 PROVE  CountLeadsToEnd(pos, r)
      BY DEF ByteCounts
    <2>1. PICK e \in 1 .. n : pos = At(e)
      BY <1>1, <1>3 DEF PacksTrue
    <2>2. klvs[pos].holds.byteCount[r] = Count(e, r) /\ Count(e, r) # 0 /\ Count(e, r) \in Nat
      BY <1>1, <1>5, <2>1 DEF Count, Numbers
    <2>3. Counts(klvs, size, pos, r, Count(e, r))
      BY <1>1, <1>3, <2>1, <2>2 DEF CInv, CountsTrue, Again, Extent
    <2> QED BY <2>2, <2>3, CountsLead DEF Packs
  <1>7. ASSUME FooterAppended PROVE EveryPack(FromFooter)
    <2>1. HasFooter
      BY <1>3, <1>7 DEF HasFooter
    <2>2. klvs[0].holds.footerPartition = At(n)
      BY <1>1, <1>2, <1>3, <1>5, <2>1 DEF CInv, PacksTell, InOrder
    <2>3. At(n) # 0
      <3>1. n # 1 /\ n \in 1 .. n
        BY <1>1, <1>3, <1>7 DEF InOrder, FooterAppended
      <3>2. At(1) + PackSize <= At(n)
        BY <1>1, <1>3, <3>1 DEF InOrder
      <3> QED BY <1>1, <1>3, <3>1, <3>2 DEF Numbers
    <2>4. \A e \in 1 .. n : At(e) \in Packs
      BY <1>1, <1>3 DEF Whole
    <2>5. PICK l \in 1 .. n : Steps[MaxPartitions] = Suffix(l) /\ (l = 1 \/ At(l) \notin Packs)
      BY <1>3, <1>5, <2>1, <2>2, FooterReader
    <2>6. Steps[MaxPartitions] = Suffix(1)
      BY <2>4, <2>5
    <2>7. Suffix(1) \in Seq(Nat) /\ Len(Suffix(1)) = n /\ Head(Suffix(1)) = At(1)
      <3>1. n - 1 + 1 = n
        BY <1>3
      <3> QED BY <1>3, <3>1, SuffixIs
    <2>8. ASSUME NEW e \in 1 .. n PROVE Suffix(1)[e] = At(e)
      <3>1. n - 1 + 1 = n /\ 1 + e - 1 = e
        BY <1>3
      <3> QED BY <3>1 DEF Suffix
    <2>9. IsPack(At(1))
      BY <1>3, <2>4 DEF IsPack, Packs
    <2>10. FromFooter = Suffix(1)
      BY <2>2, <2>3, <2>6, <2>7, <2>9 DEF FromFooter
    <2> QED BY <1>3, <2>4, <2>7, <2>8, <2>10, AllPlaces
  <1> QED BY <1>6, <1>7

(* Whenever mxf_update_partitions returns, every byte count in a pack of   *)
(* the file leads from the first KLV of the region past the last, and with *)
(* a footer the packs lead from the header to every partition.             *)
THEOREM UpdatesComplete == Spec => UpdateCompletes
  <1>1. IInv /\ CInv /\ LastPartition <= MaxPartitions /\ [Next]_vars =>
           [pc = "update" /\ pc' # "update" /\ pc' # "rewrite" =>
               /\ ByteCounts
               /\ FooterAppended => EveryPack(FromFooter)]_vars
    <2> SUFFICES ASSUME IInv, CInv, LastPartition <= MaxPartitions, Next,
                        pc = "update", pc' # "update", pc' # "rewrite"
                 PROVE  ByteCounts /\ (FooterAppended => EveryPack(FromFooter))
      OBVIOUS
    <2>1. next > LastPartition
      BY DEF Next, AppendPartition, WritePartition, FillAfterPack, MarkStart, WriteContent, FillContent, FillHeader,
         FillHeaderFails, MarkEnd, WriteEssence, FillAfterContent, WriteRIP, GoToMetadata, GoToEnd, UpdateInMemory,
         SeekToPartition, RewritePartition, UpdateReturns
    <2> QED BY <2>1, UpdateTells
  <1> QED BY <1>1, Invariance, CountInvariance, AtMost, PTL DEF Spec, UpdateCompletes
-----------------------------------------------------------------------------
(* A client that leaves room for the smallest fill, key and length, meets  *)
(* neither the assertion of mxf_fill_to_position nor the fill size that    *)
(* wraps and writes over all that follows.                                 *)
THEOREM RoomIsEnough ==
    ASSUME MinRoom >= KeyLen + MinLLen - 1
    PROVE  Spec => []NoAssertFails /\ [][pc' = "failed" => klvs' = klvs]_vars
  <1>1. ASSUME IInv, RoomLeft
        PROVE  ~FillAsserts(BodyOffset) /\ ~FillFloods(BodyOffset)
    <2> DEFINE room == Room(BodyOffset)
    <2>1. position \in Nat /\ BodyOffset \in Nat /\ MinRoom \in Int
      BY <1>1, NumbersHold, PartitionAssumption DEF Numbers
    <2>2. room \in Int /\ room >= MinLLen
      BY <1>1, <2>1, Lengths DEF Room, RoomLeft
    <2>3. room \in 0 .. LLen(room) - 1 => room < 9
      BY <2>2, LLenIs
    <2>4. room \in 0 .. LLen(room) - 1 => LLen(room) \in {1, MinLLen}
      <3> HIDE DEF room
      <3>1. \A n \in Nat : n < 9 => LLen(n) \in {1, MinLLen}
        BY Lengths DEF LLen, Larger
      <3>2. room \in Nat
        BY <2>2, Lengths
      <3> QED BY <2>3, <3>1, <3>2
    <2>5. room \notin 0 .. LLen(room) - 1
      <3> HIDE DEF room
      <3> QED BY <2>2, <2>4, Lengths
    <2> QED BY <2>2, <2>5, Lengths DEF FillAsserts, FillFloods
  <1>2. Init => NoAssertFails
    BY DEF Init, NoAssertFails
  <1>3. IInv /\ NoAssertFails /\ [Next]_vars => NoAssertFails'
    <2> SUFFICES ASSUME IInv, NoAssertFails, [Next]_vars PROVE pc' # "assert"
      BY DEF NoAssertFails
    <2>1. CASE FillHeaderFails
      BY <1>1, <2>1 DEF FillHeaderFails
    <2>2. CASE ~FillHeaderFails
      <3>1. pc # "assert" /\ back # "assert"
        BY DEF NoAssertFails, IInv, Control
      <3> QED BY <2>2, <3>1 DEF Next, vars, AppendPartition, WritePartition, FillAfterPack, MarkStart, WriteContent,
              FillContent, FillHeader, MarkEnd, WriteEssence, FillAfterContent, WriteRIP, GoToMetadata, GoToEnd,
              UpdateInMemory, SeekToPartition, RewritePartition, UpdateReturns
    <2> QED BY <2>1, <2>2
  <1>4. IInv /\ [Next]_vars => [pc' = "failed" => klvs' = klvs]_vars
    <2> SUFFICES ASSUME IInv, Next, pc' = "failed" PROVE FillHeaderFails /\ klvs' = klvs
      BY DEF vars
    <2>1. back # "failed"
      BY DEF IInv, Control
    <2>2. FillHeaderFails
      BY <2>1 DEF Next, AppendPartition, WritePartition, FillAfterPack, MarkStart, WriteContent,
         FillContent, FillHeader, MarkEnd, WriteEssence, FillAfterContent, WriteRIP, GoToMetadata, GoToEnd,
         UpdateInMemory, SeekToPartition, RewritePartition, UpdateReturns
    <2> QED BY <1>1, <2>2 DEF FillHeaderFails, fileVars
  <1> QED BY <1>2, <1>3, <1>4, Invariance, PTL DEF Spec

-----------------------------------------------------------------------------
(* The searches for the header and the footer partition.                   *)
Kinds == {Header, Body, Footer}
KeyByte(kind, k) == IF k <= Prefix THEN k ELSE kind
(* The first n bytes of a key stand at p.                                  *)
Stands(f, kind, p, n) == \A k \in 1 .. n : f[p + k] = KeyByte(kind, k)

-----------------------------------------------------------------------------
(* Sequences of bytes.                                                     *)
LEMMA Constants ==
    /\ Start \in Nat /\ Prefix \in Nat /\ KeySize \in Nat /\ Window \in Nat
    /\ MaxIterations \in Nat /\ MaxIterations > 0 /\ MaxRunIn \in Nat
    /\ 1 <= Start /\ Start <= Prefix /\ Prefix < KeySize /\ KeySize < Window
    /\ \A kind \in Kinds : kind \in Nat
BY SearchAssumption DEF Kinds, Header, Body, Footer

LEMMA SubSeqIs ==
    ASSUME NEW s \in Seq(Nat), NEW a \in Nat, NEW n \in Nat, a + n <= Len(s)
    PROVE  /\ SubSeq(s, a + 1, a + n) \in Seq(Nat) /\ Len(SubSeq(s, a + 1, a + n)) = n
           /\ \A k \in 1 .. n : SubSeq(s, a + 1, a + n)[k] = s[a + k]
<1> DEFINE u == SubSeq(s, a + 1, a + n)
<1>1. Len(s) \in Nat /\ a + n \in 0 .. Len(s) /\ 1 .. a + n \subseteq 1 .. Len(s)
  OBVIOUS
<1>2. \A k \in a + 1 .. a + n : s[k] \in Nat
  BY <1>1
<1>3. u \in Seq(Nat)
  BY <1>2, SubSeqProperties, <1>1
<1>4. Len(u) = n
  BY <1>1, SubSeqProperties
<1>5. \A k \in 1 .. n : u[k] = s[a + k]
  BY <1>1, SubSeqProperties
<1>6. QED
  BY <1>3, <1>4, <1>5

LEMMA PrefixStands ==
    ASSUME NEW f, NEW kind, NEW p \in Nat, NEW n \in 0 .. Prefix
    PROVE  Stands(f, kind, p, n) <=> \A k \in 1 .. n : f[p + k] = k
<1>1. \A k \in 1 .. n : KeyByte(kind, k) = k
  BY Constants DEF KeyByte
<1>2. QED
  BY <1>1 DEF Stands

LEMMA KeyIsSeq ==
    ASSUME NEW kind \in Kinds
    PROVE  /\ Key(kind) \in Seq(Nat) /\ Len(Key(kind)) = KeySize
           /\ \A k \in 1 .. Prefix + 1 : Key(kind)[k] = KeyByte(kind, k)
<1>1. \A k \in 1 .. Prefix + 1 : k \in 1 .. KeySize
  BY Constants
<1>2. \A k \in 1 .. KeySize : Key(kind)[k] = (IF k <= Prefix THEN k ELSE IF k = Prefix + 1 THEN kind ELSE Other)
  BY DEF Key
<1>3. \A k \in 1 .. KeySize : Key(kind)[k] \in Nat
  BY <1>2, Constants DEF Other
<1>4. Key(kind) \in [1 .. KeySize -> Nat]
  BY <1>3 DEF Key
<1>5. Key(kind) \in Seq(Nat) /\ Len(Key(kind)) = KeySize
  BY <1>4, Constants
<1>6. ASSUME NEW k \in 1 .. Prefix + 1 PROVE Key(kind)[k] = KeyByte(kind, k)
  BY <1>1, <1>2, Constants DEF KeyByte
<1>7. QED
  BY <1>5, <1>6

LEMMA KeyStands ==
    ASSUME NEW f \in Seq(Nat), NEW kind \in Kinds, NEW p \in Nat, NEW n \in 0 .. Prefix + 1, p + n <= Len(f)
    PROVE  SubSeq(f, p + 1, p + n) = SubSeq(Key(kind), 1, n) <=> Stands(f, kind, p, n)
<1> DEFINE key == Key(kind)
           u == SubSeq(f, p + 1, p + n)
           v == SubSeq(key, 0 + 1, 0 + n)
<1>1. key \in Seq(Nat) /\ 0 + n <= Len(key) /\ n \in Nat
  BY KeyIsSeq, Constants
<1>2. SubSeq(key, 1, n) = v
  OBVIOUS
<1>3. \A k \in 1 .. n : key[0 + k] = KeyByte(kind, k)
  BY KeyIsSeq, Constants
<1> HIDE DEF key
<1>4. u \in Seq(Nat) /\ Len(u) = n /\ \A k \in 1 .. n : u[k] = f[p + k]
  BY <1>1, SubSeqIs
<1>5. v \in Seq(Nat) /\ Len(v) = n /\ \A k \in 1 .. n : v[k] = key[0 + k]
  BY <1>1, SubSeqIs
<1> HIDE DEF u, v
<1>6. u = v <=> \A k \in 1 .. n : u[k] = v[k]
  BY <1>1, <1>4, <1>5
<1>7. u = v <=> Stands(f, kind, p, n)
  BY <1>3, <1>4, <1>5, <1>6 DEF Stands
<1>8. QED
  BY <1>2, <1>7 DEF u, key

(* The places of keys in a file, by their bytes.                           *)
LEMMA PlaceStands ==
    ASSUME NEW f \in Seq(Nat), NEW kind \in Kinds, NEW n \in 0 .. Prefix + 1, NEW p
    PROVE  p \in PlacesIn(f, kind, n) <=> p \in Nat /\ p + n <= Len(f) /\ Stands(f, kind, p, n)
<1>1. Len(f) \in Nat /\ n \in Nat
  BY Constants
<1>2. p \in 0 .. Len(f) - n <=> p \in Nat /\ p + n <= Len(f)
  BY <1>1
<1>3. p \in Nat /\ p + n <= Len(f) =>
          (SubSeq(f, p + 1, p + n) = SubSeq(Key(kind), 1, n) <=> Stands(f, kind, p, n))
  BY KeyStands
<1>4. QED
  BY <1>2, <1>3 DEF PlacesIn

(* The file ends, or the run-in does, in the first k bytes of a key.       *)
LEMMA EndStands ==
    ASSUME file \in Seq(Nat), NEW p \in 0 .. Size, NEW longest \in 0 .. Prefix
    PROVE  EndsInKey(p, longest) <=> \E k \in 1 .. longest : k <= p /\ Stands(file, Header, p - k, k)
<1>1. ASSUME NEW k \in 1 .. longest, k <= p
      PROVE  SubSeq(file, p - k + 1, p) = SubSeq(Key(Header), 1, k) <=> Stands(file, Header, p - k, k)
  <2>1. p - k \in Nat /\ k \in 0 .. Prefix + 1 /\ p - k + k <= Len(file) /\ p - k + k = p
    BY <1>1, Constants DEF Size
  <2>2. Header \in Kinds
    BY DEF Kinds
  <2>3. SubSeq(file, (p - k) + 1, (p - k) + k) = SubSeq(Key(Header), 1, k) <=> Stands(file, Header, p - k, k)
    BY <2>1, <2>2, KeyStands
  <2>4. QED
    BY <2>1, <2>3
<1>2. QED
  BY <1>1 DEF EndsInKey

(* Every set of naturals has a first one.                                  *)
LEMMA FirstIsLeast ==
    ASSUME NEW S \in SUBSET Nat, S # {}
    PROVE  First(S) \in S /\ \A k \in S : First(S) <= k
<1>1. IsWellFoundedOn(OpToRel(<, Nat), Nat)
  BY NatLessThanWellFounded, Zenon
<1>2. PICK j \in S : \A k \in S : ~(<<k, j>> \in OpToRel(<, Nat))
  BY <1>1, WFMin, Zenon
<1>3. \A k \in S : ~(k < j)
  BY <1>2, Zenon DEF OpToRel
<1>4. \A k \in S : j <= k
  BY <1>3
<1>5. QED
  BY <1>4 DEF First

-----------------------------------------------------------------------------
(* The run-in.  Where the search stands, the bytes that match are those    *)
(* behind the run-in so far; and it has not gone past the beginning of a   *)
(* key but where that was preceded by another.                             *)
RunInInv ==
    /\ filePos \in 0 .. Size
    /\ keyCompareByte \in 0 .. Start /\ keyCompareByte <= filePos
    /\ runinCheckCount = filePos - keyCompareByte
    /\ runinCheckCount <= MaxRunIn + Start
    /\ Stands(file, Header, runinCheckCount, keyCompareByte)
    /\ \A p \in RunInEnds : runinCheckCount <= p \/ EndsInKey(p, Start - 1)

HeaderInv ==
    /\ phase = "run-in" => header = NotFound
    /\ phase # "run-in" =>
        /\ runinCheckCount > MaxRunIn \/ KeyReached \/ filePos = Size
        /\ header = IF KeyReached /\ HeaderKeyThere THEN runinCheckCount ELSE NotFound

IsFile == file \in Files

LEMMA FileIsSeq == ASSUME IsFile PROVE file \in Seq(Nat) /\ Size \in Nat
BY SearchAssumption DEF IsFile, Size

LEMMA RunInPlace ==
    ASSUME IsFile, NEW n \in 0 .. Prefix + 1, NEW p
    PROVE  p \in Places(Header, n) <=> p \in Nat /\ p + n <= Size /\ Stands(file, Header, p, n)
BY FileIsSeq, PlaceStands DEF Places, Size, Kinds

LEMMA GetByteRunIn == ASSUME IsFile, RunInInv, GetByte PROVE RunInInv'
<1> DEFINE m == keyCompareByte
           r == runinCheckCount
           x == filePos
<1>1. /\ x \in Nat /\ m \in Nat /\ m < Start /\ m <= x /\ r = x - m /\ r \in Nat /\ r <= MaxRunIn
      /\ x < Size /\ Size \in Nat /\ file' = file /\ x' = x + 1 /\ Start \in 0 .. Prefix + 1
      /\ Start <= Prefix /\ MaxRunIn \in Nat
  BY FileIsSeq, Constants DEF GetByte, Searching, KeyReached, RunInInv
<1>2. Size' = Size /\ RunInEnds' = RunInEnds
      /\ \A p : EndsInKey(p, Start - 1)' <=> EndsInKey(p, Start - 1)
  BY <1>1 DEF Size, RunInEnds, Places, EndsInKey
<1>3. \A k \in 1 .. m : file[r + k] = k
  <2>1. m \in 0 .. Prefix
    BY <1>1, Constants
  <2>2. Stands(file, Header, r, m)
    BY DEF RunInInv
  <2>3. QED
    BY <2>1, <2>2, <1>1, PrefixStands
<1>4. CASE file[x + 1] = m + 1
  <2>1. m' = m + 1 /\ r' = r
    BY <1>4 DEF GetByte
  <2>2. \A k \in 1 .. m + 1 : file[r + k] = k
    <3> SUFFICES ASSUME NEW k \in 1 .. m + 1 PROVE file[r + k] = k
      OBVIOUS
    <3>1. CASE k = m + 1
      <4>1. r + k = x + 1
        BY <3>1, <1>1
      <4>2. QED
        BY <4>1, <3>1, <1>4
    <3>2. CASE k \in 1 .. m
      BY <3>2, <1>3
    <3>3. QED
      BY <3>1, <3>2, <1>1
  <2>3. Stands(file, Header, r, m + 1)
    <3>1. m + 1 \in 0 .. Prefix
      BY <1>1, Constants
    <3>2. QED
      BY <2>2, <3>1, <1>1, PrefixStands
  <2> HIDE DEF m, r, x
  <2>4. /\ x + 1 \in 0 .. Size /\ m + 1 \in 0 .. Start /\ m + 1 <= x + 1 /\ r = (x + 1) - (m + 1)
        /\ r <= MaxRunIn + Start
    BY <1>1
  <2>5. QED
    BY <2>1, <2>3, <2>4, <1>1, <1>2 DEF RunInInv, Stands, m, r, x
<1>5. CASE file[x + 1] # m + 1
  <2>1. m' = 0 /\ r' = r + (m + 1)
    BY <1>5 DEF GetByte, Missed
  <2>2. ASSUME NEW p \in RunInEnds, ~EndsInKey(p, Start - 1) PROVE x + 1 <= p
    <3>1. p \in Nat /\ p + Start <= Size /\ Stands(file, Header, p, Start)
      BY <1>1, RunInPlace DEF RunInEnds
    <3>2. \A k \in 1 .. Start : file[p + k] = k
      <4>1. Start \in 0 .. Prefix
        BY Constants
      <4>2. QED
        BY <3>1, <4>1, PrefixStands
    <3>3. r <= p
      BY <2>2 DEF RunInInv
    <3> SUFFICES ASSUME p <= x PROVE FALSE
      BY <3>1, <1>1
    <3>4. CASE p = r
      <4>1. file[p + (m + 1)] = m + 1
        BY <3>2, <1>1
      <4>2. p + (m + 1) = x + 1
        BY <3>4, <1>1
      <4>3. QED
        BY <4>1, <4>2, <1>5
    <3>5. CASE r < p /\ p < x
      <4>1. file[p + 1] = 1
        BY <3>2, <1>1
      <4>2. (p + 1) - r \in 1 .. m /\ r + ((p + 1) - r) = p + 1
        BY <3>1, <3>5, <1>1
      <4>3. file[p + 1] = (p + 1) - r
        BY <4>2, <1>3
      <4>4. QED
        BY <4>1, <4>3, <3>1, <3>5, <1>1
    <3>6. CASE p = x /\ r < p
      <4>1. m \in 1 .. Start - 1 /\ m <= p /\ p - m = r
        BY <3>6, <1>1
      <4>2. Stands(file, Header, p - m, m)
        BY <4>1 DEF RunInInv
      <4>3. p \in 0 .. Size /\ Start - 1 \in 0 .. Prefix
        BY <3>1, <1>1, Constants
      <4>4. EndsInKey(p, Start - 1)
        BY <4>1, <4>2, <4>3, FileIsSeq, EndStands
      <4>5. QED
        BY <4>4, <2>2
    <3>7. QED
      BY <3>1, <3>3, <3>4, <3>5, <3>6, <1>1
  <2>3. Stands(file, Header, r', 0)
    BY DEF Stands
  <2> HIDE DEF m, r, x
  <2>4. /\ x + 1 \in 0 .. Size /\ 0 \in 0 .. Start /\ 0 <= x + 1 /\ r + (m + 1) = (x + 1) - 0
        /\ r + (m + 1) <= MaxRunIn + Start
    BY <1>1
  <2>5. \A p \in RunInEnds : r' <= p \/ EndsInKey(p, Start - 1)
    BY <2>1, <2>2, <2>4, <1>1
  <2>6. QED
    BY <2>1, <2>3, <2>4, <2>5, <1>1, <1>2 DEF RunInInv, Stands, m, r, x
<1>6. QED
  BY <1>4, <1>5

(* Once the first bytes of a key are reached, what follows is the rest of  *)
(* it just when a whole key stands there.                                  *)
LEMMA KeyGoesOn ==
    ASSUME IsFile, RunInInv, KeyReached
    PROVE  /\ runinCheckCount \in Nat /\ runinCheckCount \in RunInEnds
           /\ HeaderKeyThere <=> /\ runinCheckCount <= MaxRunIn /\ runinCheckCount + KeySize < Size
                                 /\ runinCheckCount \in Places(Header, Prefix + 1)
<1> DEFINE r == runinCheckCount
           x == filePos
           n == Prefix + 1 - Start
<1>1. /\ r \in Nat /\ x = r + Start /\ x \in Nat /\ x <= Size /\ Size \in Nat /\ n \in Nat
      /\ Start \in 0 .. Prefix + 1 /\ Prefix + 1 \in 0 .. Prefix + 1 /\ Prefix + 1 <= KeySize
      /\ KeySize \in Nat /\ Prefix \in Nat /\ Start <= Prefix
  BY FileIsSeq, Constants DEF RunInInv, KeyReached
<1>2. Stands(file, Header, r, Start)
  BY DEF RunInInv, KeyReached
<1>3. r \in RunInEnds
  BY <1>1, <1>2, RunInPlace DEF RunInEnds
<1>4. r \in Places(Header, Prefix + 1) <=> r + (Prefix + 1) <= Size /\ Stands(file, Header, r, Prefix + 1)
  BY <1>1, RunInPlace
<1>5. Stands(file, Header, r, Prefix + 1)
          <=> \A k \in 1 .. n : file[x + k] = KeyByte(Header, Start + k)
  <2>1. ASSUME \A k \in 1 .. n : file[x + k] = KeyByte(Header, Start + k), NEW j \in 1 .. Prefix + 1
        PROVE  file[r + j] = KeyByte(Header, j)
    <3>1. CASE j <= Start
      <4>1. j \in 1 .. Start
        BY <3>1, <1>1
      <4>2. QED
        BY <4>1, <1>2 DEF Stands
    <3>2. CASE j > Start
      <4>1. j - Start \in 1 .. n /\ x + (j - Start) = r + j /\ Start + (j - Start) = j
        BY <3>2, <1>1
      <4>2. file[x + (j - Start)] = KeyByte(Header, Start + (j - Start))
        BY <2>1, <4>1
      <4>3. QED
        BY <4>1, <4>2
    <3>3. QED
      BY <3>1, <3>2, <1>1
  <2>2. ASSUME Stands(file, Header, r, Prefix + 1), NEW k \in 1 .. n
        PROVE  file[x + k] = KeyByte(Header, Start + k)
    <3>1. Start + k \in 1 .. Prefix + 1 /\ r + (Start + k) = x + k
      BY <1>1
    <3>2. file[r + (Start + k)] = KeyByte(Header, Start + k)
      BY <2>2, <3>1 DEF Stands
    <3>3. QED
      BY <3>1, <3>2
  <2>3. QED
    BY <2>1, <2>2 DEF Stands
<1>6. ASSUME x + n <= Size
      PROVE  SubSeq(file, x + 1, x + n) = SubSeq(Key(Header), Start + 1, Start + n)
                 <=> \A k \in 1 .. n : file[x + k] = KeyByte(Header, Start + k)
  <2>1. Header \in Kinds
    BY DEF Kinds
  <2>2. /\ Key(Header) \in Seq(Nat) /\ Start + n <= Len(Key(Header)) /\ Start \in Nat
        /\ file \in Seq(Nat) /\ x + n <= Len(file)
    BY <1>1, <1>6, <2>1, KeyIsSeq, FileIsSeq DEF Size
  <2>3. SubSeq(file, x + 1, x + n) = SubSeq(Key(Header), Start + 1, Start + n)
            <=> \A k \in 1 .. n : file[x + k] = Key(Header)[Start + k]
    <3> DEFINE key == Key(Header)
    <3>1. /\ x \in Nat /\ n \in Nat /\ Start \in Nat /\ key \in Seq(Nat) /\ file \in Seq(Nat)
          /\ x + n <= Len(file) /\ Start + n <= Len(key)
      BY <1>1, <2>2
    <3> HIDE DEF x, n, key
    <3>2. SubSeq(file, x + 1, x + n) = SubSeq(key, Start + 1, Start + n)
              <=> \A k \in 1 .. n : file[x + k] = key[Start + k]
      <4> DEFINE u == SubSeq(file, x + 1, x + n)
                 v == SubSeq(key, Start + 1, Start + n)
      <4>1. u \in Seq(Nat) /\ Len(u) = n /\ \A k \in 1 .. n : u[k] = file[x + k]
        BY <3>1, SubSeqIs
      <4>2. v \in Seq(Nat) /\ Len(v) = n /\ \A k \in 1 .. n : v[k] = key[Start + k]
        BY <3>1, SubSeqIs
      <4> HIDE DEF u, v
      <4>3. u = v <=> \A k \in 1 .. n : u[k] = v[k]
        <5>1. u \in Seq(Nat) /\ v \in Seq(Nat) /\ Len(u) = n /\ Len(v) = n
          BY <4>1, <4>2
        <5>2. (\A k \in 1 .. n : u[k] = v[k]) => u = v
          BY <5>1, SeqEqual
        <5>3. QED
          BY <5>2
      <4>4. QED
        BY <4>1, <4>2, <4>3 DEF u, v
    <3>3. QED
      BY <3>2 DEF key
  <2>4. \A k \in 1 .. n : Start + k \in 1 .. Prefix + 1
    BY <1>1
  <2>5. \A k \in 1 .. n : Key(Header)[Start + k] = KeyByte(Header, Start + k)
    BY <2>1, <2>4, KeyIsSeq
  <2>6. QED
    BY <2>3, <2>5
<1>7. x - Start + KeySize = r + KeySize /\ x + Prefix - Start + 1 = x + n /\ Start + n = Prefix + 1
  BY <1>1
<1>8. r + KeySize < Size => x + n <= Size /\ r + (Prefix + 1) <= Size
  BY <1>1
<1> HIDE DEF r, x, n
<1>9. HeaderKeyThere <=> /\ r <= MaxRunIn /\ r + KeySize < Size
                         /\ SubSeq(file, x + 1, x + n) = SubSeq(Key(Header), Start + 1, Start + n)
  BY <1>7 DEF HeaderKeyThere, r, x
<1>10. QED
  BY <1>1, <1>3, <1>4, <1>5, <1>6, <1>8, <1>9 DEF r

LEMMA FoundAtPlace == ASSUME IsFile, RunInInv, HeaderInv, RunInsProper PROVE HeaderFound
<1> SUFFICES ASSUME phase # "run-in" 
             PROVE  /\ header # NotFound => HeaderThere /\ header = HeaderPlace
                    /\ HeaderThere /\ ~EndsInKey(HeaderPlace, Start - 1) => header # NotFound
  BY DEF HeaderFound
<1> DEFINE r == runinCheckCount
           p0 == HeaderPlace
<1>1. /\ header = IF KeyReached /\ HeaderKeyThere THEN r ELSE NotFound
      /\ r > MaxRunIn \/ KeyReached \/ filePos = Size
  BY DEF HeaderInv
<1>2. /\ Size \in Nat /\ Start \in Nat /\ MaxRunIn \in Nat /\ keyCompareByte \in 0 .. Start
      /\ filePos \in Nat /\ r = filePos - keyCompareByte /\ r \in Nat
  BY FileIsSeq, Constants DEF RunInInv
<1>3. \A p \in RunInEnds : p \in Nat /\ p + Start <= Size
  <2>1. Start \in 0 .. Prefix + 1
    BY Constants
  <2>2. QED
    BY <2>1, RunInPlace DEF RunInEnds
<1>4. RunInEnds # {} => p0 \in RunInEnds /\ \A p \in RunInEnds : p0 <= p
  <2>1. RunInEnds \in SUBSET Nat
    BY <1>3
  <2>2. QED
    BY <2>1, FirstIsLeast DEF HeaderPlace
<1> HIDE DEF p0, r
<1>5. ASSUME header # NotFound PROVE HeaderThere /\ header = p0
  <2>1. KeyReached /\ HeaderKeyThere /\ header = r
    BY <1>1, <1>5
  <2>2. /\ r \in RunInEnds /\ r <= MaxRunIn /\ r + KeySize < Size
        /\ r \in Places(Header, Prefix + 1)
    BY <2>1, KeyGoesOn DEF r
  <2>3. \A p \in RunInEnds : r <= p
    BY <2>2 DEF RunInsProper, IsFile, RunInEnds, Places
  <2>4. p0 = r
    <3>1. p0 \in RunInEnds /\ p0 <= r
      BY <2>2, <1>4
    <3>2. p0 \in Nat /\ r <= p0
      BY <3>1, <2>3, <1>3
    <3>3. QED
      BY <3>1, <3>2, <1>2
  <2>5. QED
    BY <2>1, <2>2, <2>4 DEF HeaderThere, p0
<1>6. ASSUME HeaderThere, ~EndsInKey(p0, Start - 1) PROVE header # NotFound
  <2>1. p0 \in RunInEnds /\ p0 <= MaxRunIn /\ p0 \in Places(Header, Prefix + 1) /\ p0 + KeySize < Size
    BY <1>4, <1>6 DEF HeaderThere, p0
  <2>2. r <= p0
    BY <2>1, <1>6 DEF RunInInv, r
  <2>3. KeyReached
    <3> SUFFICES ASSUME ~KeyReached PROVE FALSE
      OBVIOUS
    <3>1. keyCompareByte < Start
      BY <1>2 DEF KeyReached
    <3>2. p0 \in Nat /\ p0 + Start <= Size
      BY <1>3, <2>1
    <3>3. r <= MaxRunIn
      BY <2>1, <2>2, <1>2, <3>2
    <3>4. filePos = Size
      BY <1>1, <1>2, <3>3
    <3>5. QED
      BY <1>2, <2>2, <3>1, <3>2, <3>4
  <2>4. r \in RunInEnds
    BY <2>3, KeyGoesOn DEF r
  <2>5. r = p0
    BY <2>1, <2>2, <2>4, <1>2, <1>3, <1>4
  <2>6. HeaderKeyThere
    BY <2>1, <2>3, <2>5, KeyGoesOn DEF r
  <2>7. header = r
    BY <1>1, <2>3, <2>6
  <2>8. QED
    BY <2>7, <1>2 DEF NotFound
<1>7. QED
  BY <1>5, <1>6 DEF p0

(* The other steps leave the run-in alone.                                 *)
RunInStays == UNCHANGED <<file, filePos, keyCompareByte, runinCheckCount>>

LEMMA FooterStepKeeps ==
    ASSUME FirstWindow \/ NextWindow \/ FooterMissed
    PROVE  /\ UNCHANGED <<file, filePos, keyCompareByte, runinCheckCount, header>>
           /\ phase # "run-in" /\ phase' # "run-in"
<1>1. CASE FirstWindow
  BY <1>1 DEF FirstWindow, Goes, Searched, FooterEnds
<1>2. CASE NextWindow
  BY <1>2 DEF NextWindow, Goes, Searched, FooterEnds
<1>3. CASE FooterMissed
  BY <1>3 DEF FooterMissed, FooterEnds
<1>4. QED
  BY <1>1, <1>2, <1>3

LEMMA RunInKept ==
    ASSUME RunInInv, RunInStays
    PROVE  RunInInv'
BY DEF RunInInv, RunInStays, Size, RunInEnds, Places, EndsInKey, Stands

LEMMA HeaderKept ==
    ASSUME HeaderInv, RunInStays, header' = header, phase # "run-in", phase' # "run-in"
    PROVE  HeaderInv'
BY DEF HeaderInv, RunInStays, Size, KeyReached, HeaderKeyThere

HeaderSearched == IsFile /\ RunInInv /\ HeaderInv

LEMMA HeaderSearchedStep == HeaderSearched /\ [NextSearch]_searchVars => HeaderSearched'
<1> SUFFICES ASSUME HeaderSearched, [NextSearch]_searchVars PROVE HeaderSearched'
  OBVIOUS
<1>1. CASE GetByte
  <2>1. IsFile' /\ phase' = phase /\ phase = "run-in" /\ header' = header
    BY <1>1 DEF GetByte, HeaderSearched, IsFile, Searching
  <2>2. RunInInv'
    BY <1>1, GetByteRunIn DEF HeaderSearched
  <2>3. QED
    BY <2>1, <2>2 DEF HeaderSearched, HeaderInv
<1>2. CASE HeaderEnds
  <2>1. RunInStays /\ IsFile'
    BY <1>2 DEF HeaderEnds, RunInStays, HeaderSearched, IsFile
  <2>2. RunInInv'
    BY <2>1, RunInKept DEF HeaderSearched
  <2>3. runinCheckCount > MaxRunIn \/ KeyReached \/ filePos = Size
    <3>1. runinCheckCount \in Int /\ MaxRunIn \in Int
      BY FileIsSeq, Constants DEF HeaderSearched, RunInInv
    <3>2. QED
      BY <1>2, <3>1 DEF HeaderEnds, Searching
  <2>4. HeaderInv'
    BY <1>2, <2>3 DEF HeaderEnds, HeaderInv, KeyReached, Size, HeaderKeyThere
  <2>5. QED
    BY <2>1, <2>2, <2>4 DEF HeaderSearched
<1>3. CASE FirstWindow \/ NextWindow \/ FooterMissed
  <2>1. RunInStays /\ header' = header /\ phase # "run-in" /\ phase' # "run-in" /\ IsFile'
    BY <1>3, FooterStepKeeps DEF RunInStays, HeaderSearched, IsFile
  <2>2. QED
    BY <2>1, RunInKept, HeaderKept DEF HeaderSearched
<1>4. CASE UNCHANGED searchVars
  <2>1. RunInStays /\ header' = header /\ phase' = phase /\ IsFile'
    BY <1>4 DEF RunInStays, searchVars, HeaderSearched, IsFile
  <2>2. RunInInv'
    BY <2>1, RunInKept DEF HeaderSearched
  <2>3. HeaderInv'
    BY <2>1, HeaderKept DEF HeaderSearched, HeaderInv
  <2>4. QED
    BY <2>1, <2>2, <2>3 DEF HeaderSearched
<1>5. QED
  BY <1>1, <1>2, <1>3, <1>4 DEF NextSearch

LEMMA HeaderSearchedInit == SearchInit => HeaderSearched
<1> SUFFICES ASSUME SearchInit PROVE HeaderSearched
  OBVIOUS
<1>1. IsFile
  BY DEF SearchInit, IsFile
<1>2. RunInInv
  <2>1. Size \in Nat /\ Start \in Nat /\ MaxRunIn \in Nat /\ Start \in 0 .. Prefix + 1
    BY <1>1, FileIsSeq, Constants
  <2>2. Stands(file, Header, 0, 0)
    BY DEF Stands
  <2>3. \A p \in RunInEnds : 0 <= p
    BY <1>1, <2>1, RunInPlace DEF RunInEnds
  <2>4. QED
    BY <2>1, <2>2, <2>3 DEF SearchInit, RunInInv
<1>3. QED
  BY <1>1, <1>2 DEF HeaderSearched, HeaderInv, SearchInit

(* The header partition is found behind a run-in of any length that does   *)
(* not contain the first bytes of a key, in a file with one header         *)
(* partition, but where the run-in ends with bytes that begin a key; and   *)
(* nothing else is taken for it: mxf_read_header_pp_kl_with_runin.         *)
THEOREM HeaderAlwaysFound == ASSUME RunInsProper PROVE SearchSpec => []HeaderFound
<1>1. SearchInit => HeaderSearched
  BY HeaderSearchedInit
<1>2. HeaderSearched /\ [NextSearch]_searchVars => HeaderSearched'
  BY HeaderSearchedStep
<1>3. HeaderSearched => HeaderFound
  BY FoundAtPlace DEF HeaderSearched
<1>4. QED
  BY <1>1, <1>2, <1>3, PTL DEF SearchSpec

-----------------------------------------------------------------------------
(* The footer partition.  The file was searched down to offset, and what   *)
(* stands in the first bytes of the buffer is what stands there.           *)
SoFar ==
    /\ phase \in {"run-in", "footer", "done"}
    /\ offset \in 0 .. Size /\ i \in 0 .. MaxIterations /\ lastIteration \in BOOLEAN
    /\ footer \in 0 .. Size \cup {NotFound}
    /\ phase = "run-in" => i = 0
    /\ i = 0 => offset = Size /\ buffer = <<>> /\ lastIteration = FALSE
    /\ i > 0 => /\ offset + KeySize <= Size
                /\ buffer \in Seq(Nat) /\ Len(buffer) = KeySize - 1
                /\ \A k \in 1 .. KeySize - 1 : buffer[k] = file[offset + k]
    /\ offset = 0 \/ offset = Size - i * Window
    /\ \A p \in Places(Footer, Prefix + 1) : p < offset
    /\ lastIteration => \/ EndsInKey(Size, Prefix)
                        \/ \E kind \in {Header, Body} : \E q \in Places(kind, Prefix + 1) : q >= offset

LEMMA SoFarInit == SearchInit => SoFar
<1> SUFFICES ASSUME SearchInit PROVE SoFar
  OBVIOUS
<1>1. IsFile
  BY DEF SearchInit, IsFile
<1>2. Size \in Nat /\ MaxIterations \in Nat /\ Window \in Nat /\ Prefix \in Nat
  BY <1>1, FileIsSeq, Constants
<1>3. \A p \in Places(Footer, Prefix + 1) : p < Size
  <2>1. file \in Seq(Nat) /\ Footer \in Kinds /\ Prefix + 1 \in 0 .. Prefix + 1
    BY <1>1, <1>2, FileIsSeq DEF Kinds
  <2>2. \A p \in Places(Footer, Prefix + 1) : p \in Nat /\ p + (Prefix + 1) <= Len(file)
    BY <2>1, PlaceStands DEF Places
  <2>3. QED
    BY <2>2, <1>2 DEF Size
<1>4. 0 * Window = 0
  BY <1>2
<1>5. offset = Size - i * Window
  BY <1>2, <1>4 DEF SearchInit, Size
<1>6. offset \in 0 .. Size /\ i \in 0 .. MaxIterations /\ offset = Size /\ i = 0
  BY <1>2 DEF SearchInit, Size
<1>7. \A p \in Places(Footer, Prefix + 1) : p < offset
  BY <1>3, <1>6
<1>8. phase = "run-in" /\ buffer = <<>> /\ lastIteration = FALSE /\ footer = NotFound
  BY DEF SearchInit
<1>9. ~(i > 0)
  BY <1>6
<1>10. lastIteration \in BOOLEAN /\ ~lastIteration
  BY <1>8, Zenon
<1>11. QED
  BY <1>5, <1>6, <1>7, <1>8, <1>9, <1>10, Zenon DEF SoFar

(* What is read of the file, and how much.                                 *)
Base == offset - NumRead
AsFile(bytes) ==
    /\ bytes \in Seq(Nat) /\ Len(bytes) = NumRead + KeySize - 1
    /\ \A k \in 1 .. NumRead + KeySize - 1 : Base + k <= Size => bytes[k] = file[Base + k]

LEMMA ReadSizes ==
    ASSUME IsFile, SoFar, Goes
    PROVE  /\ NumRead \in Nat /\ NumRead >= KeySize + 1 /\ NumRead <= offset /\ NumRead <= Window
           /\ Base \in Nat /\ Base + NumRead = offset /\ offset \in Nat /\ offset <= Size /\ Size \in Nat
           /\ Base = 0 \/ Base = offset - Window
           /\ offset = Size - i * Window
           /\ KeySize \in Nat /\ Prefix \in Nat /\ Prefix < KeySize /\ Window \in Nat /\ i \in Nat
<1>1. /\ Size \in Nat /\ offset \in Nat /\ offset <= Size /\ KeySize \in Nat /\ Window \in Nat
      /\ offset >= KeySize + 1 /\ Window > KeySize /\ Prefix \in Nat /\ Prefix < KeySize /\ i \in Nat
      /\ offset = 0 \/ offset = Size - i * Window
  BY FileIsSeq, Constants DEF SoFar, Goes, TooNear
<1>2. offset = Size - i * Window
  BY <1>1
<1>3. CASE Window <= offset
  BY <1>1, <1>2, <1>3 DEF NumRead, Smaller, Base
<1>4. CASE ~(Window <= offset)
  BY <1>1, <1>2, <1>4 DEF NumRead, Smaller, Base
<1>5. QED
  BY <1>3, <1>4

LEMMA WindowReads ==
    ASSUME IsFile, SoFar, Goes, NEW behind \in Seq(Nat), Len(behind) = KeySize - 1,
           i > 0 => behind = buffer
    PROVE  AsFile(WindowWith(behind))
<1> DEFINE n == NumRead
           b == Base
           u == SubSeq(file, b + 1, b + n)
           bytes == u \o behind
<1>1. /\ n \in Nat /\ b \in Nat /\ offset \in Nat /\ b + n = offset /\ offset <= Size /\ Size \in Nat
      /\ n >= KeySize + 1 /\ KeySize \in Nat /\ i \in Nat
  BY ReadSizes
<1>2. file \in Seq(Nat) /\ b + n <= Len(file)
  BY <1>1, FileIsSeq DEF Size
<1>3. WindowWith(behind) = bytes
  BY <1>1 DEF WindowWith, Base
<1>4. u \in Seq(Nat) /\ Len(u) = n /\ \A k \in 1 .. n : u[k] = file[b + k]
  <2> HIDE DEF n, b
  <2>1. QED
    BY <1>1, <1>2, SubSeqIs
<1>5. /\ bytes \in Seq(Nat) /\ Len(bytes) = n + (KeySize - 1)
      /\ \A k \in 1 .. n + (KeySize - 1) : bytes[k] = IF k <= n THEN u[k] ELSE behind[k - n]
  <2> HIDE DEF n, b, u
  <2>1. /\ u \o behind \in Seq(Nat) /\ Len(u \o behind) = Len(u) + Len(behind)
        /\ \A k \in 1 .. Len(u) + Len(behind) :
               (u \o behind)[k] = IF k <= Len(u) THEN u[k] ELSE behind[k - Len(u)]
    BY <1>4, ConcatProperties
  <2>2. Len(u) = n /\ Len(behind) = KeySize - 1
    BY <1>4
  <2>3. QED
    BY <2>1, <2>2
<1>6. i > 0 => \A k \in 1 .. KeySize - 1 : behind[k] = file[offset + k]
  BY DEF SoFar
<1>7. i = 0 => offset = Size
  BY DEF SoFar
<1> HIDE DEF n, b, u, bytes
<1>8. ASSUME NEW k \in 1 .. n + (KeySize - 1), b + k <= Size PROVE bytes[k] = file[b + k]
  <2>1. CASE k <= n
    <3>1. k \in 1 .. n
      BY <2>1, <1>1
    <3>2. QED
      BY <3>1, <2>1, <1>4, <1>5
  <2>2. CASE k > n
    <3>1. k - n \in 1 .. KeySize - 1 /\ offset + (k - n) = b + k
      BY <2>2, <1>1
    <3>2. i > 0
      BY <1>1, <1>7, <1>8, <2>2
    <3>3. behind[k - n] = file[offset + (k - n)]
      BY <3>1, <3>2, <1>6
    <3>4. ~(k <= n)
      BY <2>2, <1>1
    <3>5. bytes[k] = behind[k - n]
      BY <3>4, <1>5
    <3>6. QED
      BY <3>1, <3>3, <3>5
  <2>3. QED
    BY <2>1, <2>2, <1>1
<1>9. n + KeySize - 1 = n + (KeySize - 1)
  BY <1>1
<1>10. AsFile(bytes)
  BY <1>5, <1>8, <1>9 DEF AsFile, n, b
<1>11. QED
  BY <1>3, <1>10

(* A key in what was read is one in the file, or the file ends in it; and  *)
(* every key of the file that starts in what was read is found.            *)
LEMMA FoundWhere ==
    ASSUME IsFile, SoFar, Goes, NEW bytes, AsFile(bytes), NEW kinds \in SUBSET Kinds
    PROVE  /\ Found(bytes, kinds) \in SUBSET Nat
           /\ \A j \in Found(bytes, kinds) :
                 /\ j < NumRead
                 /\ \E kind \in kinds : /\ Stands(bytes, kind, j, Prefix + 1)
                                        /\ \/ Base + j \in Places(kind, Prefix + 1)
                                           \/ EndsInKey(Size, Prefix)
           /\ \A kind \in kinds : \A p \in Places(kind, Prefix + 1) :
                 Base <= p /\ p < offset => p - Base \in Found(bytes, kinds)
<1> DEFINE n == NumRead
           b == Base
           m == Prefix + 1
<1>1. /\ n \in Nat /\ b \in Nat /\ offset \in Nat /\ b + n = offset /\ offset <= Size /\ Size \in Nat
      /\ n >= KeySize + 1 /\ KeySize \in Nat /\ Prefix \in Nat /\ Prefix < KeySize
  BY ReadSizes
<1>2. /\ bytes \in Seq(Nat) /\ Len(bytes) = n + KeySize - 1
      /\ \A k \in 1 .. n + KeySize - 1 : b + k <= Size => bytes[k] = file[b + k]
  BY DEF AsFile
<1>3. file \in Seq(Nat) /\ m \in 0 .. Prefix + 1 /\ m \in Nat /\ Size = Len(file)
  BY <1>1, FileIsSeq DEF Size
<1> HIDE DEF n, b
<1>4. ASSUME NEW j \in 0 .. n - 1, NEW kind \in Kinds
      PROVE  SubSeq(bytes, j + 1, j + Prefix + 1) = SubSeq(Key(kind), 1, Prefix + 1)
                 <=> Stands(bytes, kind, j, m)
  <2>1. j \in Nat /\ j + m <= Len(bytes) /\ j + m = j + Prefix + 1
    BY <1>1, <1>2
  <2> HIDE DEF m
  <2>2. SubSeq(bytes, j + 1, j + m) = SubSeq(Key(kind), 1, m) <=> Stands(bytes, kind, j, m)
    BY <1>2, <1>3, <2>1, KeyStands
  <2>3. QED
    BY <2>1, <2>2 DEF m
<1>5. \A j : j \in Found(bytes, kinds) <=>
          j \in 0 .. n - 1 /\ \E kind \in kinds : Stands(bytes, kind, j, m)
  <2> HIDE DEF m
  <2>1. QED
    BY <1>4 DEF Found, n
<1>6. ASSUME NEW kind \in Kinds, NEW p
      PROVE  p \in Places(kind, m) <=> p \in Nat /\ p + m <= Size /\ Stands(file, kind, p, m)
  <2> HIDE DEF m
  <2>1. QED
    BY <1>3, PlaceStands DEF Places
<1>7. ASSUME NEW j \in 0 .. n - 1, NEW k \in 1 .. m, (b + j) + k <= Size
      PROVE  bytes[j + k] = file[(b + j) + k]
  <2>1. j + k \in 1 .. n + KeySize - 1 /\ b + (j + k) = (b + j) + k
    BY <1>1
  <2>2. QED
    BY <2>1, <1>2, <1>7
<1>8. ASSUME NEW j \in 0 .. n - 1, NEW kind \in Kinds, (b + j) + m <= Size
      PROVE  Stands(bytes, kind, j, m) <=> b + j \in Places(kind, m)
  <2>1. b + j \in Nat /\ \A k \in 1 .. m : (b + j) + k <= Size
    BY <1>1, <1>8
  <2>2. \A k \in 1 .. m : bytes[j + k] = file[(b + j) + k]
    BY <2>1, <1>7
  <2> HIDE DEF m
  <2>3. Stands(bytes, kind, j, m) <=> Stands(file, kind, b + j, m)
    BY <2>2 DEF Stands
  <2>4. QED
    BY <2>1, <2>3, <1>6, <1>8
<1>9. ASSUME NEW j \in 0 .. n - 1, NEW kind \in Kinds, Stands(bytes, kind, j, m), (b + j) + m > Size
      PROVE  EndsInKey(Size, Prefix)
  <2> DEFINE e == Size - (b + j)
  <2>1. e \in 1 .. Prefix /\ e <= Size /\ Size - e = b + j /\ b + j \in Nat
    BY <1>1, <1>9
  <2>2. ASSUME NEW k \in 1 .. e PROVE file[(b + j) + k] = k
    <3>1. k \in 1 .. m /\ k <= Prefix /\ (b + j) + k <= Size
      BY <2>1, <1>1
    <3>2. bytes[j + k] = KeyByte(kind, k)
      BY <3>1, <1>9 DEF Stands
    <3>3. QED
      BY <3>1, <3>2, <1>7 DEF KeyByte
  <2>3. e \in 0 .. Prefix
    BY <2>1, <1>1
  <2> HIDE DEF e
  <2>4. Stands(file, Header, Size - e, e)
    BY <2>1, <2>2, <2>3, PrefixStands
  <2>5. Size \in 0 .. Size /\ Prefix \in 0 .. Prefix
    BY <1>1
  <2>6. QED
    BY <2>1, <2>4, <2>5, <1>3, EndStands
<1>10. ASSUME NEW j \in Found(bytes, kinds)
       PROVE  /\ j < n
              /\ \E kind \in kinds : /\ Stands(bytes, kind, j, m)
                                     /\ b + j \in Places(kind, m) \/ EndsInKey(Size, Prefix)
  <2>1. j \in 0 .. n - 1 /\ j < n
    BY <1>5, <1>1
  <2>2. PICK kind \in kinds : Stands(bytes, kind, j, m)
    BY <1>5
  <2>3. kind \in Kinds
    OBVIOUS
  <2>4. (b + j) + m <= Size \/ (b + j) + m > Size
    BY <1>1, <2>1
  <2> HIDE DEF m
  <2>5. b + j \in Places(kind, m) \/ EndsInKey(Size, Prefix)
    BY <2>1, <2>2, <2>3, <2>4, <1>8, <1>9
  <2>6. QED
    BY <2>1, <2>2, <2>5
<1>11. ASSUME NEW kind \in kinds, NEW p \in Places(kind, m), b <= p, p < offset
       PROVE  p - b \in Found(bytes, kinds)
  <2>1. kind \in Kinds
    OBVIOUS
  <2>2. p \in Nat /\ p + m <= Size
    BY <2>1, <1>6
  <2>3. p - b \in 0 .. n - 1 /\ b + (p - b) = p
    BY <2>2, <1>1, <1>11
  <2>4. Stands(bytes, kind, p - b, m)
    BY <2>1, <2>2, <2>3, <1>8
  <2>5. QED
    BY <2>3, <2>4, <1>5
<1>12. Found(bytes, kinds) \in SUBSET Nat
  BY <1>1, <1>5
<1>13. QED
  BY <1>10, <1>11, <1>12 DEF n, b

(* One window: either the footer is there, or the search has gone one      *)
(* window further.                                                         *)
LEMMA WindowSearched ==
    ASSUME IsFile, SoFar, Goes, NEW bytes, AsFile(bytes), Searched(bytes)
    PROVE  SoFar' /\ FooterFound'
<1> DEFINE n == NumRead
           b == Base
           footers == Found(bytes, {Footer})
           others == Found(bytes, {Header, Body})
           most == MaxIterations * Window
<1>1. /\ n \in Nat /\ b \in Nat /\ offset \in Nat /\ b + n = offset /\ offset <= Size /\ Size \in Nat
      /\ n >= KeySize + 1 /\ n <= Window /\ KeySize \in Nat /\ Prefix \in Nat /\ Prefix < KeySize
      /\ b = 0 \/ b = offset - Window
      /\ offset = Size - i * Window /\ Window \in Nat /\ i \in Nat /\ i < MaxIterations /\ MaxIterations \in Nat
  BY ReadSizes, Constants DEF Goes
<1>2. /\ bytes \in Seq(Nat) /\ Len(bytes) = n + KeySize - 1
      /\ \A k \in 1 .. n + KeySize - 1 : b + k <= Size => bytes[k] = file[b + k]
  BY DEF AsFile
<1>3. /\ footers \in SUBSET Nat
      /\ \A j \in footers : /\ j < n /\ Stands(bytes, Footer, j, Prefix + 1)
                            /\ b + j \in Places(Footer, Prefix + 1) \/ EndsInKey(Size, Prefix)
      /\ \A p \in Places(Footer, Prefix + 1) : b <= p /\ p < offset => p - b \in footers
  <2>1. {Footer} \in SUBSET Kinds
    BY DEF Kinds
  <2>2. QED
    BY <2>1, FoundWhere
<1>4. /\ others \in SUBSET Nat
      /\ \A j \in others : \/ \E kind \in {Header, Body} : b + j \in Places(kind, Prefix + 1)
                           \/ EndsInKey(Size, Prefix)
  <2>1. {Header, Body} \in SUBSET Kinds
    BY DEF Kinds
  <2>2. QED
    BY <2>1, FoundWhere
<1>5. phase = "footer" /\ file \in Seq(Nat) /\ Size = Len(file)
  BY FileIsSeq DEF Goes, Size
<1>6. (i + 1) * Window = i * Window + Window /\ i * Window \in Nat
  BY <1>1
<1>7. b >= Size - (i + 1) * Window /\ (b = 0 \/ b = Size - (i + 1) * Window)
  BY <1>1, <1>6
<1>8. (i + 1) * Window <= most
  <2>1. \A d, w \in Nat : d * w \in Nat
    OBVIOUS
  <2>2. MaxIterations - (i + 1) \in Nat
    BY <1>1
  <2>3. (MaxIterations - (i + 1)) * Window \in Nat
    BY <2>1, <2>2, <1>1
  <2>4. \A a, c \in Nat : \A w \in Nat : a * w = c * w + (a - c) * w
    OBVIOUS
  <2>5. most = (i + 1) * Window + (MaxIterations - (i + 1)) * Window
    BY <2>4, <1>1
  <2>6. (i + 1) * Window \in Nat
    BY <2>1, <1>1
  <2> HIDE DEF most
  <2>7. QED
    BY <2>3, <2>5, <2>6
<1>9. /\ file' = file /\ Size' = Size /\ Places(Footer, Prefix + 1)' = Places(Footer, Prefix + 1)
      /\ \A kind : Places(kind, Prefix + 1)' = Places(kind, Prefix + 1)
      /\ EndsInKey(Size, Prefix)' <=> EndsInKey(Size, Prefix)
  BY DEF Searched, FooterEnds, Size, Places, EndsInKey
<1> HIDE DEF n, b, footers, others
<1>10. CASE footers # {}
  <2> DEFINE j == First(footers)
             p == b + j
  <2>1. j \in footers
    BY <1>3, <1>10, FirstIsLeast
  <2>2. footer' = p /\ phase' = "done" /\ UNCHANGED <<offset, i, lastIteration, buffer>>
    BY <1>10 DEF Searched, FooterEnds, footers, n, b, Base
  <2>3. j \in Nat /\ j < n /\ Stands(bytes, Footer, j, Prefix + 1)
        /\ (p \in Places(Footer, Prefix + 1) \/ EndsInKey(Size, Prefix))
    BY <2>1, <1>3
  <2> HIDE DEF j
  <2>4. p \in 0 .. Size /\ p \in Nat /\ p >= Size - most
    <3>1. most \in Nat /\ (i + 1) * Window \in Nat
      BY <1>1
    <3> HIDE DEF most
    <3>2. QED
      BY <3>1, <2>3, <1>1, <1>7, <1>8
  <2>5. SoFar'
    BY <2>2, <2>4, <1>5, <1>9 DEF SoFar, Goes
  <2>6. ~EndsInKey(Size, Prefix) => p \in InReach
    BY <2>3, <2>4 DEF InReach
  <2>7. ASSUME NEW k \in 1 .. Prefix + 1, p + k <= Size PROVE file[p + k] = Key(Footer)[k]
    <3>1. j + k \in 1 .. n + KeySize - 1 /\ b + (j + k) = p + k
      BY <2>3, <1>1
    <3>2. bytes[j + k] = file[p + k]
      BY <3>1, <2>7, <1>2
    <3>3. bytes[j + k] = KeyByte(Footer, k)
      BY <2>3 DEF Stands
    <3>4. Footer \in Kinds
      BY DEF Kinds
    <3>5. QED
      BY <3>2, <3>3, <3>4, KeyIsSeq
  <2>8. InReach' = InReach
    BY <1>9 DEF InReach
  <2> HIDE DEF p
  <2>9. FooterFound'
    BY <2>2, <2>6, <2>7, <2>8, <1>9 DEF FooterFound
  <2>10. QED
    BY <2>5, <2>9
<1>11. CASE footers = {}
  <2>1. /\ lastIteration' = (others # {}) /\ buffer' = SubSeq(bytes, 1, KeySize - 1)
        /\ offset' = b /\ i' = i + 1 /\ phase' = phase /\ footer' = footer
    BY <1>11 DEF Searched, footers, others, b, Base
  <2>2. b \in 0 .. Size /\ i + 1 \in 0 .. MaxIterations /\ i + 1 > 0 /\ b + KeySize <= Size
    BY <1>1
  <2>3. /\ buffer' \in Seq(Nat) /\ Len(buffer') = KeySize - 1
        /\ \A k \in 1 .. KeySize - 1 : buffer'[k] = file[b + k]
    <3>1. /\ 0 + (KeySize - 1) <= Len(bytes) /\ KeySize - 1 \in Nat
          /\ SubSeq(bytes, 1, KeySize - 1) = SubSeq(bytes, 0 + 1, 0 + (KeySize - 1))
          /\ \A k \in 1 .. KeySize - 1 : k \in 1 .. n + KeySize - 1 /\ b + k <= Size /\ 0 + k = k
      <4>1. 0 + (KeySize - 1) = KeySize - 1 /\ 0 + 1 = 1 /\ KeySize - 1 \in Nat
        BY <1>1
      <4>2. 0 + (KeySize - 1) <= Len(bytes)
        BY <1>1, <1>2
      <4>3. \A k \in 1 .. KeySize - 1 : k \in 1 .. n + KeySize - 1 /\ b + k <= Size /\ 0 + k = k
        BY <1>1
      <4>4. SubSeq(bytes, 1, KeySize - 1) = SubSeq(bytes, 0 + 1, 0 + (KeySize - 1))
        BY <4>1, Zenon
      <4>5. QED
        BY <4>1, <4>2, <4>3, <4>4
    <3>2. /\ buffer' \in Seq(Nat) /\ Len(buffer') = KeySize - 1
          /\ \A k \in 1 .. KeySize - 1 : buffer'[k] = bytes[0 + k]
      BY <3>1, <1>2, <2>1, SubSeqIs
    <3>3. QED
      BY <3>1, <3>2, <1>2
  <2>4. ASSUME NEW p \in Places(Footer, Prefix + 1) PROVE p < b
    <3>1. p < offset
      BY DEF SoFar
    <3>2. p \in Nat
      BY <1>5 DEF Places, PlacesIn
    <3>3. ~(b <= p)
      BY <3>1, <1>3, <1>11
    <3>4. QED
      BY <3>2, <3>3, <1>1
  <2>5. lastIteration' => \/ EndsInKey(Size, Prefix)
                          \/ \E kind \in {Header, Body} : \E q \in Places(kind, Prefix + 1) : q >= b
    <3> SUFFICES ASSUME others # {}, ~EndsInKey(Size, Prefix)
                 PROVE  \E kind \in {Header, Body} : \E q \in Places(kind, Prefix + 1) : q >= b
      BY <2>1
    <3>1. PICK j \in others : TRUE
      OBVIOUS
    <3>2. PICK kind \in {Header, Body} : b + j \in Places(kind, Prefix + 1)
      BY <1>4
    <3>3. b + j >= b
      BY <1>1, <1>4
    <3>4. QED
      BY <3>2, <3>3
  <2>6. lastIteration' \in BOOLEAN
    BY <2>1
  <2>7. phase' # "run-in" /\ phase' # "done" /\ footer' \in 0 .. Size \cup {NotFound}
    BY <2>1, <1>5 DEF SoFar
  <2>8. SoFar'
    <3>1. /\ i' \in 0 .. MaxIterations /\ i' > 0 /\ i' # 0 /\ offset' \in 0 .. Size
          /\ offset' = 0 \/ offset' = Size - i' * Window
      BY <2>1, <2>2, <1>7
    <3>2. (\A p \in Places(Footer, Prefix + 1) : p < offset)'
      BY <2>1, <2>4, <1>9
    <3>3. (lastIteration => \/ EndsInKey(Size, Prefix)
                            \/ \E kind \in {Header, Body} : \E q \in Places(kind, Prefix + 1) : q >= offset)'
      BY <2>1, <2>5, <1>9
    <3>4. (i > 0 => /\ offset + KeySize <= Size
                    /\ buffer \in Seq(Nat) /\ Len(buffer) = KeySize - 1
                    /\ \A k \in 1 .. KeySize - 1 : buffer[k] = file[offset + k])'
      BY <2>1, <2>2, <2>3, <1>9
    <3>5. (/\ phase \in {"run-in", "footer", "done"}
           /\ offset \in 0 .. Size /\ i \in 0 .. MaxIterations /\ lastIteration \in BOOLEAN
           /\ footer \in 0 .. Size \cup {NotFound})'
      BY <3>1, <2>1, <2>6, <2>7, <1>5, <1>9
    <3>6. (/\ phase = "run-in" => i = 0
           /\ i = 0 => offset = Size /\ buffer = <<>> /\ lastIteration = FALSE
           /\ offset = 0 \/ offset = Size - i * Window)'
      BY <3>1, <2>7, <1>9
    <3>7. QED
      BY <3>2, <3>3, <3>4, <3>5, <3>6, Zenon DEF SoFar
  <2>9. FooterFound'
    BY <2>7 DEF FooterFound
  <2>10. QED
    BY <2>8, <2>9
<1>12. QED
  BY <1>10, <1>11

LEMMA WindowStep ==
    ASSUME IsFile, SoFar, FirstWindow \/ NextWindow
    PROVE  SoFar' /\ FooterFound' /\ IsFile'
<1>1. ASSUME NEW bytes, Searched(bytes) PROVE IsFile'
  BY <1>1 DEF Searched, FooterEnds, IsFile
<1>2. CASE FirstWindow
  <2>1. PICK leftover \in Leftovers : Searched(WindowWith(leftover))
    BY <1>2 DEF FirstWindow
  <2>2. Goes /\ ~(i > 0)
    BY <1>2 DEF FirstWindow
  <2>3. leftover \in [1 .. KeySize - 1 -> Nat] /\ KeySize - 1 \in Nat
    BY SearchAssumption
  <2>4. leftover \in Seq(Nat) /\ Len(leftover) = KeySize - 1
    BY <2>3
  <2>5. AsFile(WindowWith(leftover))
    BY <2>2, <2>4, WindowReads
  <2>6. QED
    BY <1>1, <2>1, <2>2, <2>5, WindowSearched
<1>3. CASE NextWindow
  <2>1. Goes /\ i > 0 /\ Searched(WindowWith(buffer))
    BY <1>3 DEF NextWindow, Carried
  <2>2. buffer \in Seq(Nat) /\ Len(buffer) = KeySize - 1
    BY <2>1 DEF SoFar
  <2>3. AsFile(WindowWith(buffer))
    BY <2>1, <2>2, WindowReads
  <2>4. QED
    BY <1>1, <2>1, <2>3, WindowSearched
<1>4. QED
  BY <1>2, <1>3

(* The other steps leave the search for the footer alone.                  *)
FooterStays == UNCHANGED <<file, offset, i, lastIteration, buffer>>

LEMMA SoFarKept ==
    ASSUME SoFar, FooterStays, phase' \in {"run-in", "footer", "done"}, phase' = "run-in" => phase = "run-in",
           footer' \in {footer, NotFound}
    PROVE  SoFar'
<1>1. /\ Size' = Size /\ \A kind : Places(kind, Prefix + 1)' = Places(kind, Prefix + 1)
      /\ EndsInKey(Size, Prefix)' <=> EndsInKey(Size, Prefix)
  BY DEF FooterStays, Size, Places, EndsInKey
<1>2. Places(Footer, Prefix + 1)' = Places(Footer, Prefix + 1)
  BY <1>1
<1>3. footer' \in 0 .. Size \cup {NotFound}
  BY DEF SoFar
<1>4. QED
  BY <1>1, <1>2, <1>3 DEF SoFar, FooterStays

(* When the search ends without a footer, there is none it should find.    *)
LEMMA MissedOnlyIfNotThere ==
    ASSUME FootersLast, IsFile, SoFar, FooterMissed, ~EndsInKey(Size, Prefix)
    PROVE  InReach = {}
<1> SUFFICES ASSUME NEW p \in InReach PROVE FALSE
  OBVIOUS
<1> DEFINE m == Prefix + 1
<1>1. /\ Size \in Nat /\ offset \in Nat /\ i \in 0 .. MaxIterations /\ MaxIterations \in Nat
      /\ MaxIterations > 0 /\ KeySize \in Nat /\ Window \in Nat
      /\ offset = 0 \/ offset = Size - i * Window
  BY FileIsSeq, Constants DEF SoFar
<1>2. p \in Places(Footer, m) /\ p >= Size - MaxIterations * Window
  BY DEF InReach
<1>3. p \in Nat /\ p < offset
  <2>1. p < offset
    BY <1>2 DEF SoFar
  <2>2. Len(file) \in Nat
    BY FileIsSeq
  <2>3. p \in Nat
    BY <1>2, <2>2 DEF Places, PlacesIn
  <2>4. QED
    BY <2>1, <2>3
<1>4. p > KeySize /\ \A kind \in {Header, Body} : \A q \in Places(kind, m) : q < p
  BY <1>2 DEF FootersLast, IsFile, Places
<1>5. ~(i < MaxIterations) \/ offset < KeySize + 1 \/ lastIteration
  BY DEF FooterMissed, Goes, TooNear
<1>6. CASE ~(i < MaxIterations)
  <2>1. i = MaxIterations
    BY <1>6, <1>1
  <2>2. offset = 0 \/ offset = Size - MaxIterations * Window
    BY <2>1, <1>1
  <2>3. MaxIterations * Window \in Nat
    BY <1>1
  <2>4. QED
    BY <2>2, <2>3, <1>1, <1>2, <1>3
<1>7. CASE offset < KeySize + 1
  BY <1>7, <1>1, <1>3, <1>4
<1>8. CASE lastIteration
  <2>1. PICK kind \in {Header, Body} : \E q \in Places(kind, m) : q >= offset
    BY <1>8 DEF SoFar
  <2>2. PICK q \in Places(kind, m) : q >= offset
    BY <2>1
  <2>3. q < p /\ q \in Int
    <3>1. Len(file) \in Nat
      BY FileIsSeq
    <3>2. q \in Int
      BY <3>1 DEF Places, PlacesIn
    <3>3. QED
      BY <3>2, <1>4
  <2>4. QED
    BY <2>2, <2>3, <1>1, <1>3
<1>9. QED
  BY <1>5, <1>6, <1>7, <1>8

LEMMA SoFarStep ==
    ASSUME IsFile, SoFar, [NextSearch]_searchVars
    PROVE  SoFar'
<1>1. CASE GetByte
  BY <1>1, SoFarKept DEF GetByte, FooterStays, SoFar
<1>2. CASE HeaderEnds
  BY <1>2, SoFarKept DEF HeaderEnds, FooterStays
<1>3. CASE FirstWindow \/ NextWindow
  BY <1>3, WindowStep
<1>4. CASE FooterMissed
  BY <1>4, SoFarKept DEF FooterMissed, FooterEnds, FooterStays
<1>5. CASE UNCHANGED searchVars
  BY <1>5, SoFarKept DEF searchVars, FooterStays, SoFar
<1>6. QED
  BY <1>1, <1>2, <1>3, <1>4, <1>5 DEF NextSearch

LEMMA FooterFoundStep ==
    ASSUME FootersLast, IsFile, SoFar, FooterFound, [NextSearch]_searchVars
    PROVE  FooterFound'
<1>1. CASE GetByte \/ HeaderEnds
  BY <1>1 DEF GetByte, Searching, HeaderEnds, FooterFound
<1>2. CASE FirstWindow \/ NextWindow
  BY <1>2, WindowStep
<1>3. CASE FooterMissed
  <2>1. footer' = NotFound /\ file' = file
    BY <1>3 DEF FooterMissed, FooterEnds
  <2>2. InReach' = InReach /\ (EndsInKey(Size, Prefix)' <=> EndsInKey(Size, Prefix))
    BY <2>1 DEF InReach, EndsInKey, Size, Places
  <2>3. ~EndsInKey(Size, Prefix) => InReach = {}
    BY <1>3, MissedOnlyIfNotThere
  <2>4. QED
    BY <2>1, <2>2, <2>3 DEF FooterFound
<1>4. CASE UNCHANGED searchVars
  BY <1>4 DEF searchVars, FooterFound, InReach, EndsInKey, Size, Places
<1>5. QED
  BY <1>1, <1>2, <1>3, <1>4 DEF NextSearch

(* The footer partition is found however its key lies across the windows   *)
(* mxf_find_footer_partition reads and whatever uninitialised memory holds *)
(* behind the first, provided no other partition comes after it and it is  *)
(* not the first of the file; nothing else is taken for it unless the file *)
(* was cut off inside a key.                                               *)
THEOREM FooterAlwaysFound == ASSUME FootersLast PROVE SearchSpec => []FooterFound
<1> DEFINE FooterInv == IsFile /\ SoFar /\ FooterFound
<1>1. SearchInit => FooterInv
  BY SoFarInit DEF SearchInit, IsFile, FooterFound
<1>2. FooterInv /\ [NextSearch]_searchVars => FooterInv'
  <2> SUFFICES ASSUME FooterInv, [NextSearch]_searchVars PROVE FooterInv'
    OBVIOUS
  <2>1. IsFile'
    BY DEF NextSearch, GetByte, HeaderEnds, FirstWindow, NextWindow, FooterMissed, Searched, FooterEnds,
           searchVars, IsFile
  <2>2. SoFar' /\ FooterFound'
    BY SoFarStep, FooterFoundStep
  <2>3. QED
    BY <2>1, <2>2
<1>3. FooterInv => FooterFound
  OBVIOUS
<1> HIDE DEF FooterInv
<1>4. QED
  BY <1>1, <1>2, <1>3, PTL DEF SearchSpec

(* The state of the search keeps its types in every file.                  *)
THEOREM SearchTypeCorrect == SearchSpec => []SearchTypeOK
<1> DEFINE TypeInv == HeaderSearched /\ SoFar
<1>1. SearchInit => TypeInv
  BY SoFarInit, HeaderSearchedInit
<1>2. TypeInv /\ [NextSearch]_searchVars => TypeInv'
  BY SoFarStep, HeaderSearchedStep DEF HeaderSearched
<1>3. TypeInv => SearchTypeOK
  <2> SUFFICES ASSUME TypeInv PROVE SearchTypeOK
    OBVIOUS
  <2>1. /\ filePos \in 0 .. Size /\ keyCompareByte \in 0 .. Start
        /\ runinCheckCount = filePos - keyCompareByte /\ keyCompareByte <= filePos
        /\ runinCheckCount <= MaxRunIn + Start
        /\ Size \in Nat /\ Start \in Nat /\ MaxRunIn \in Nat /\ KeySize \in Nat
    BY FileIsSeq, Constants DEF HeaderSearched, RunInInv
  <2>2. runinCheckCount \in 0 .. MaxRunIn + Start
    BY <2>1
  <2>3. header \in 0 .. MaxRunIn \cup {NotFound}
    <3>1. HeaderKeyThere => runinCheckCount \in 0 .. MaxRunIn
      BY <2>1, <2>2 DEF HeaderKeyThere
    <3>2. QED
      BY <3>1 DEF HeaderSearched, HeaderInv
  <2>4. Len(buffer) = IF i = 0 THEN 0 ELSE KeySize - 1
    <3>1. i \in Nat
      BY Constants DEF SoFar
    <3>2. QED
      BY <3>1 DEF SoFar
  <2>5. QED
    BY <2>1, <2>2, <2>3, <2>4 DEF SearchTypeOK, SoFar
<1> HIDE DEF TypeInv
<1>4. QED
  BY <1>1, <1>2, <1>3, PTL DEF SearchSpec
=============================================================================
