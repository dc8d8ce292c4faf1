-------------------------- MODULE PageFileProofs --------------------------
(***************************************************************************)
(* Proofs about the page file, for every page size, number of descriptors  *)
(* and client, and whatever stdio calls fail, as long as no file is made   *)
(* over the page files of an earlier one.                                  *)
(***************************************************************************)
EXTENDS PageFile, TLAPS

Indexes == 0 .. numPages - 1
Exists(i) == i \in DOMAIN disk

(* What is known of page i of an open file.                                *)
PageIntact(i) ==
    /\ pages[i].size <= pageSize
    /\ i < numPages - 1 => pages[i].size = pageSize
    /\ ~Exists(i) => pages[i].size = 0 /\ ~pages[i].isOpen /\ ~pages[i].wasRemoved
    /\ Exists(i) /\ ~pages[i].wasRemoved => disk[i].size = pages[i].size
    /\ Exists(i) /\ mode = "write" => pages[i].wasOpenedBefore
    /\ pages[i].isOpen => ~pages[i].wasRemoved
    /\ pages[i].isOpen /\ pages[i].offset # -1 => at[i] = pages[i].offset
    /\ pages[i].wasRemoved => pages[0].wasRemoved /\ disk[i].size = 0

(* And of the whole file.                                                  *)
FileIntact ==
    /\ pageSize <= PageSize
    /\ mode \in {"write", "modify"} \/ numPages > 1 => pageSize = PageSize
    /\ mode = "closed" => Closed
    /\ pc = "idle" => call = NoCall
    /\ mode # "closed" => DOMAIN disk \subseteq Indexes
    /\ position <= PageFileSize
    /\ pc = "transfer" => Current \in Indexes /\ pages[Current].isOpen
    /\ pc = "truncate" => /\ mode \in {"write", "modify"}
                          /\ call.page > 0 => pages[0].wasRemoved

(* The page files of a closed file can be opened again, unless the first   *)
(* one was truncated.                                                      *)
FilesFull ==
    /\ \A i \in DOMAIN disk : disk[i].size <= PageSize
    /\ mode = "closed" => \A i \in DOMAIN disk :
           disk[0].size > 0 /\ Exists(i + 1) => disk[i].size = PageSize

(* numFileDescriptors may count too many, never too few.                   *)
CountBounds == Len(fds) <= numFileDescriptors /\ numFileDescriptors <= MaxDescriptors

IInv ==
    /\ TypeOK
    /\ \A i \in Indexes : PageIntact(i)
    /\ FileIntact
    /\ FilesFull
    /\ DescriptorsMatch
    /\ CountBounds

NoStaleFiles == "new_over_old" \notin Calls

-----------------------------------------------------------------------------
(* Arithmetic.                                                             *)
LEMMA DivMod ==
    ASSUME NEW s \in Nat \ {0}, NEW p \in Nat
    PROVE  p \div s \in Nat /\ p - (p \div s) * s \in 0 .. s - 1
OBVIOUS

LEMMA DivAtMost ==
    ASSUME NEW s \in Nat \ {0}, NEW p \in Nat, NEW n \in Nat, p <= n * s
    PROVE  p \div s <= n /\ (p \div s = n => p = n * s)
OBVIOUS

LEMMA Products ==
    ASSUME NEW s \in Nat, NEW c \in Nat, NEW n \in Nat, c < n, NEW z \in Nat, NEW o \in Nat,
           o <= s, c = n - 1 => o <= z
    PROVE  c * s + o <= s * (n - 1) + z
<1>1. CASE c = n - 1
  BY <1>1
<1>2. CASE c <= n - 2
  <2>1. (n - 1 - c) * s >= s
    <3>1. n - 1 - c >= 1 /\ n - 1 - c \in Nat
      BY <1>2
    <3>2. \A k \in Nat : k >= 1 => k * s >= s
      OBVIOUS
    <3>3. QED
      BY <3>1, <3>2
  <2>2. QED
    BY <2>1
<1>3. QED
  BY <1>1, <1>2

LEMMA Empty == ASSUME NEW S PROVE <<>> \in [0 .. 0 - 1 -> S] /\ DOMAIN <<>> = {}
OBVIOUS

LEMMA Greatest ==
    ASSUME NEW n \in Nat, n > 0
    PROVE  (CHOOSE i \in 0 .. n - 1 : \A j \in 0 .. n - 1 : j <= i) = n - 1
<1>1. n - 1 \in 0 .. n - 1 /\ \A j \in 0 .. n - 1 : j <= n - 1
  OBVIOUS
<1>2. \A i \in 0 .. n - 1 : (\A j \in 0 .. n - 1 : j <= i) => i = n - 1
  <2> SUFFICES ASSUME NEW i \in 0 .. n - 1, \A j \in 0 .. n - 1 : j <= i PROVE i = n - 1
    OBVIOUS
  <2>1. n - 1 <= i
    BY <1>1
  <2>2. QED
    BY <2>1
<1>3. QED
  BY <1>1, <1>2

LEMMA FilesCounted ==
    ASSUME NEW n \in Nat, DOMAIN disk = 0 .. n - 1
    PROVE  NumFiles = n
<1>1. CASE n = 0
  BY <1>1 DEF NumFiles
<1>2. CASE n > 0
  <2> DEFINE g == CHOOSE i \in 0 .. n - 1 : \A j \in 0 .. n - 1 : j <= i
  <2>1. NumFiles = IF 0 .. n - 1 = {} THEN 0 ELSE 1 + g
    BY DEF NumFiles
  <2>2. g = n - 1
    BY <1>2, Greatest
  <2> HIDE DEF g
  <2>3. QED
    BY <1>2, <2>1, <2>2
<1>3. QED
  BY <1>1, <1>2

LEMMA FilesCountedNext == (\A n \in Nat : DOMAIN disk = 0 .. n - 1 => NumFiles = n)'
<1>1. \A n \in Nat : DOMAIN disk = 0 .. n - 1 => NumFiles = n
  BY FilesCounted
<1>2. QED
  BY <1>1, PTL

(* Where the position is.                                                  *)
LEMMA Place ==
    ASSUME IInv
    PROVE  /\ Current \in 0 .. numPages
           /\ Offset \in 0 .. pageSize - 1
           /\ position = Current * pageSize + Offset
           /\ Current = numPages => Offset = 0
           /\ Current = numPages /\ numPages > 0 => pages[numPages - 1].size = pageSize
<1> DEFINE s == pageSize
           z == IF numPages = 0 THEN 0 ELSE pages[numPages - 1].size
<1>1. s \in Nat \ {0} /\ position \in Nat /\ numPages \in Nat
  BY DEF IInv, TypeOK
<1>2. Current \in Nat /\ Offset \in 0 .. s - 1
  BY <1>1, DivMod DEF Current, Offset
<1>3. z \in Nat /\ z <= s
  <2>1. CASE numPages = 0
    BY <2>1, <1>1
  <2>2. CASE numPages > 0
    <3>1. numPages - 1 \in Indexes
      BY <2>2, <1>1 DEF Indexes
    <3>2. pages[numPages - 1].size <= s
      BY <3>1 DEF IInv, PageIntact
    <3>3. pages[numPages - 1].size \in Nat
      BY <3>1, PageFileAssumption DEF IInv, TypeOK, Indexes
    <3>4. QED
      BY <2>2, <3>2, <3>3
  <2>3. QED
    BY <2>1, <2>2, <1>1
<1>4. numPages > 0 => position <= s * (numPages - 1) + z
  BY DEF IInv, FileIntact, PageFileSize
<1>5. numPages = 0 => position = 0
  BY <1>1 DEF IInv, FileIntact, PageFileSize
<1>6. numPages > 0 => s * (numPages - 1) + s = numPages * s
  BY <1>1
<1> HIDE DEF z
<1>7. position <= numPages * s
  BY <1>1, <1>3, <1>4, <1>5, <1>6
<1>8. Current <= numPages /\ (Current = numPages => position = numPages * s)
  BY <1>1, <1>7, DivAtMost DEF Current
<1>9. Current = numPages /\ numPages > 0 => z = s
  <2> SUFFICES ASSUME Current = numPages, numPages > 0 PROVE z = s
    OBVIOUS
  <2>1. s * (numPages - 1) \in Nat
    BY <1>1
  <2>2. position = s * (numPages - 1) + s
    BY <1>6, <1>8
  <2>3. QED
    BY <2>1, <2>2, <1>1, <1>3, <1>4
<1>10. position = Current * s + Offset
  BY <1>1, <1>2 DEF Offset
<1>11. Current = numPages => Offset = 0
  BY <1>1, <1>8 DEF Offset
<1>12. QED
  BY <1>1, <1>2, <1>8, <1>9, <1>10, <1>11 DEF z

-----------------------------------------------------------------------------
(* The list of descriptors.                                                *)
Entries(s) == {s[k] : k \in 1 .. Len(s)}
Distinct(s) == \A k, l \in 1 .. Len(s) : s[k] = s[l] => k = l

LEMMA IsSeq ==
    ASSUME NEW S, NEW n \in Nat, NEW t \in [1 .. n -> S]
    PROVE  t \in Seq(S) /\ Len(t) = n
OBVIOUS

LEMMA SeqOfMore ==
    ASSUME NEW S, NEW T, S \subseteq T, NEW s \in Seq(S)
    PROVE  s \in Seq(T)
<1>1. Len(s) \in Nat /\ s = [i \in 1 .. Len(s) |-> s[i]] /\ \A i \in 1 .. Len(s) : s[i] \in S
  OBVIOUS
<1>2. s \in [1 .. Len(s) -> T]
  BY <1>1
<1>3. QED
  BY <1>1, <1>2, IsSeq

LEMMA WithoutOne ==
    ASSUME NEW S, NEW s \in Seq(S), Distinct(s), NEW k \in 1 .. Len(s)
    PROVE  /\ Without(s, k) \in Seq(S) /\ Len(Without(s, k)) = Len(s) - 1
           /\ Distinct(Without(s, k))
           /\ Entries(Without(s, k)) = Entries(s) \ {s[k]}
<1> DEFINE t == Without(s, k)
<1>1. Len(s) \in Nat /\ Len(s) - 1 \in Nat /\ s \in [1 .. Len(s) -> S]
  OBVIOUS
<1>2. t \in Seq(S) /\ Len(t) = Len(s) - 1
  <2>1. t \in [1 .. Len(s) - 1 -> S]
    BY <1>1 DEF Without
  <2> HIDE DEF t
  <2>2. QED
    BY <2>1, <1>1, IsSeq
<1>3. \A j \in 1 .. Len(s) - 1 : t[j] = IF j < k THEN s[j] ELSE s[j + 1]
  BY DEF Without
<1> HIDE DEF t
<1>4. Distinct(t)
  BY <1>1, <1>2, <1>3 DEF Distinct
<1>5. ASSUME NEW x \in Entries(t) PROVE x \in Entries(s) \ {s[k]}
  <2>1. PICK j \in 1 .. Len(s) - 1 : x = t[j]
    BY <1>2 DEF Entries
  <2>2. CASE j < k
    BY <2>1, <2>2, <1>1, <1>3 DEF Entries, Distinct
  <2>3. CASE j >= k
    BY <2>1, <2>3, <1>1, <1>3 DEF Entries, Distinct
  <2>4. QED
    BY <2>2, <2>3, <1>1
<1>6. ASSUME NEW x \in Entries(s), x # s[k] PROVE x \in Entries(t)
  <2>1. PICK j \in 1 .. Len(s) : x = s[j]
    BY DEF Entries
  <2>2. CASE j < k
    BY <2>1, <2>2, <1>1, <1>2, <1>3 DEF Entries
  <2>3. CASE j > k
    <3>1. j - 1 \in 1 .. Len(s) - 1 /\ t[j - 1] = s[j]
      BY <2>1, <2>3, <1>1, <1>3
    <3>2. QED
      BY <3>1, <2>1, <1>2 DEF Entries
  <2>4. QED
    BY <2>1, <2>2, <2>3, <1>6
<1>7. QED
  BY <1>2, <1>4, <1>5, <1>6 DEF t

LEMMA Headless ==
    ASSUME NEW S, NEW s \in Seq(S), Distinct(s), s # <<>>
    PROVE  /\ Tail(s) \in Seq(S) /\ Len(Tail(s)) = Len(s) - 1 /\ Head(s) = s[1] /\ Len(s) > 0
           /\ Distinct(Tail(s))
           /\ Entries(Tail(s)) = Entries(s) \ {Head(s)}
<1>1. /\ Len(s) \in Nat /\ Len(s) > 0 /\ Head(s) = s[1]
      /\ Tail(s) \in Seq(S) /\ Len(Tail(s)) = Len(s) - 1
      /\ \A j \in 1 .. Len(s) - 1 : Tail(s)[j] = s[j + 1]
  OBVIOUS
<1> DEFINE t == Tail(s)
<1> HIDE DEF t
<1>2. Distinct(t)
  BY <1>1 DEF Distinct, t
<1>3. Entries(t) \subseteq Entries(s) \ {s[1]}
  BY <1>1 DEF Entries, Distinct, t
<1>4. ASSUME NEW x \in Entries(s), x # s[1] PROVE x \in Entries(t)
  <2>1. PICK j \in 1 .. Len(s) : x = s[j]
    BY DEF Entries
  <2>2. j - 1 \in 1 .. Len(s) - 1 /\ t[j - 1] = s[j]
    BY <2>1, <1>1, <1>4 DEF t
  <2>3. QED
    BY <2>1, <2>2, <1>1 DEF Entries, t
<1>5. QED
  BY <1>1, <1>2, <1>3, <1>4 DEF t

LEMMA Appended ==
    ASSUME NEW S, NEW s \in Seq(S), Distinct(s), NEW x \in S, x \notin Entries(s)
    PROVE  /\ Append(s, x) \in Seq(S) /\ Len(Append(s, x)) = Len(s) + 1
           /\ Append(s, x)[Len(s) + 1] = x
           /\ Distinct(Append(s, x))
           /\ Entries(Append(s, x)) = Entries(s) \cup {x}
<1>1. /\ Len(s) \in Nat /\ Append(s, x) \in Seq(S) /\ Len(Append(s, x)) = Len(s) + 1
      /\ Append(s, x)[Len(s) + 1] = x
      /\ \A j \in 1 .. Len(s) : Append(s, x)[j] = s[j]
  OBVIOUS
<1> DEFINE t == Append(s, x)
<1> HIDE DEF t
<1>2. Distinct(t)
  BY <1>1 DEF Distinct, Entries, t
<1>3. Entries(t) = Entries(s) \cup {x}
  BY <1>1 DEF Entries, t
<1>4. QED
  BY <1>1, <1>2, <1>3 DEF t

(* DescriptorsMatch in these words.                                        *)
LEMMA Descriptors ==
    ASSUME TypeOK
    PROVE  DescriptorsMatch <=> /\ Entries(fds) = {i \in Indexes : pages[i].isOpen}
                                /\ Distinct(fds)
                                /\ pc = "transfer" => fds # <<>> /\ fds[Len(fds)] = Current
BY DEF DescriptorsMatch, Entries, Distinct, Indexes

-----------------------------------------------------------------------------
(* Steps that leave the pages, the descriptors and the disk alone.         *)
LEMMA KeepPages ==
    ASSUME IInv,
           UNCHANGED <<mode, pageSize, numPages, pages, fds, numFileDescriptors, disk, at>>,
           position' \in Nat, position' <= PageFileSize,
           pc' \in {"idle", "page", "truncate", "crashed"},
           mode = "closed" => Closed',
           pc' = "idle" => call' = NoCall,
           pc' = "truncate" => mode \in {"write", "modify"} /\ (call'.page > 0 => pages[0].wasRemoved),
           call' \in [op : {"none", "read", "write", "truncate"}, rem : Nat, value : Bytes, page : Nat]
    PROVE  IInv'
<1>1. TypeOK'
  BY DEF IInv, TypeOK, NumFiles
<1>2. \A i \in Indexes' : PageIntact(i)'
  BY DEF IInv, PageIntact, Indexes, Exists
<1>3. FileIntact'
  <2>1. mode' = "closed" => Closed'
    OBVIOUS
  <2>2. PageFileSize' = PageFileSize /\ Indexes' = Indexes
    BY DEF PageFileSize, Indexes
  <2>3. QED
    BY <2>1, <2>2 DEF IInv, FileIntact
<1>4. FilesFull'
  BY DEF IInv, FilesFull, Exists
<1>5. DescriptorsMatch'
  BY DEF IInv, DescriptorsMatch
<1>6. CountBounds'
  BY DEF IInv, CountBounds
<1>7. QED
  BY <1>1, <1>2, <1>3, <1>4, <1>5, <1>6 DEF IInv

LEMMA CallTypes ==
    /\ NoCall \in [op : {"none", "read", "write", "truncate"}, rem : Nat, value : Bytes, page : Nat]
    /\ \A n \in Nat, v \in Values :
          /\ [NoCall EXCEPT !.op = "read", !.rem = n]
                 \in [op : {"none", "read", "write", "truncate"}, rem : Nat, value : Bytes, page : Nat]
          /\ [NoCall EXCEPT !.op = "write", !.rem = n, !.value = v]
                 \in [op : {"none", "read", "write", "truncate"}, rem : Nat, value : Bytes, page : Nat]
    /\ [NoCall EXCEPT !.op = "truncate"]
           \in [op : {"none", "read", "write", "truncate"}, rem : Nat, value : Bytes, page : Nat]
    /\ [NoCall EXCEPT !.op = "truncate"].page = 0
BY DEF NoCall, Bytes

LEMMA ReadIInv == ASSUME IInv, NEW n \in 1 .. MaxCount, Read(n) PROVE IInv'
<1>1. n \in Nat
  BY PageFileAssumption
<1>2. call' \in [op : {"none", "read", "write", "truncate"}, rem : Nat, value : Bytes, page : Nat]
  BY <1>1, CallTypes DEF Read
<1>3. position' \in Nat /\ position' <= PageFileSize
  BY DEF Read, fileVars, IInv, TypeOK, FileIntact
<1>4. QED
  BY <1>2, <1>3, KeepPages DEF Read, fileVars

LEMMA WriteIInv == ASSUME IInv, NEW n \in 1 .. MaxCount, NEW v \in Values, Write(n, v) PROVE IInv'
<1>1. n \in Nat
  BY PageFileAssumption
<1>2. call' \in [op : {"none", "read", "write", "truncate"}, rem : Nat, value : Bytes, page : Nat]
  BY <1>1, CallTypes DEF Write
<1>3. position' \in Nat /\ position' <= PageFileSize
  BY DEF Write, fileVars, IInv, TypeOK, FileIntact
<1>4. QED
  BY <1>2, <1>3, KeepPages DEF Write, fileVars

LEMMA SeekIInv == ASSUME IInv, NEW p \in 0 .. MaxSize, Seek(p) PROVE IInv'
<1>1. p \in Nat
  BY PageFileAssumption
<1>2. call' \in [op : {"none", "read", "write", "truncate"}, rem : Nat, value : Bytes, page : Nat]
  BY DEF Seek, IInv, TypeOK
<1>3. pc' = "idle" => call' = NoCall
  BY DEF Seek, IInv, FileIntact
<1>4. QED
  BY <1>1, <1>2, <1>3, KeepPages DEF Seek, fileVars

LEMMA ForwardTruncateIInv == ASSUME IInv, ForwardTruncate PROVE IInv'
<1>1. call' \in [op : {"none", "read", "write", "truncate"}, rem : Nat, value : Bytes, page : Nat]
      /\ call'.page = 0
  BY CallTypes DEF ForwardTruncate
<1>2. position' \in Nat /\ position' <= PageFileSize
  BY DEF ForwardTruncate, fileVars, IInv, TypeOK, FileIntact
<1>3. QED
  BY <1>1, <1>2, KeepPages DEF ForwardTruncate, fileVars

LEMMA ReturnIInv == ASSUME IInv, Return, UNCHANGED <<fileVars, disk, at>> PROVE IInv'
<1>1. call' \in [op : {"none", "read", "write", "truncate"}, rem : Nat, value : Bytes, page : Nat]
  BY CallTypes DEF Return
<1>2. position' \in Nat /\ position' <= PageFileSize
  BY DEF fileVars, IInv, TypeOK, FileIntact
<1>3. mode = "closed" => Closed'
  BY DEF IInv, FileIntact, Closed, Return, fileVars
<1>4. QED
  BY <1>1, <1>2, <1>3, KeepPages DEF Return, fileVars

LEMMA OpenCrashesIInv == ASSUME IInv, OpenCrashes PROVE IInv'
<1>1. call' \in [op : {"none", "read", "write", "truncate"}, rem : Nat, value : Bytes, page : Nat]
  BY DEF OpenCrashes, IInv, TypeOK
<1>2. position' \in Nat /\ position' <= PageFileSize
  BY DEF OpenCrashes, fileVars, IInv, TypeOK, FileIntact
<1>3. mode # "closed"
  BY DEF OpenCrashes, NeedsDescriptor, IInv, FileIntact, Closed
<1>4. QED
  BY <1>1, <1>2, <1>3, KeepPages DEF OpenCrashes, fileVars

LEMMA UseDescriptorIInv == ASSUME IInv, UseDescriptor PROVE IInv'
<1> USE DEF UseDescriptor
<1>1. Current \in Indexes /\ pages[Current].isOpen
  <2>1. Current \in 0 .. numPages
    BY Place
  <2>2. numPages \in Nat
    BY DEF IInv, TypeOK
  <2>3. QED
    BY <2>1, <2>2 DEF IsOpen, Indexes
<1>2. PICK k \in DOMAIN fds : fds[k] = Current /\ fds' = Append(Without(fds, k), Current)
  OBVIOUS
<1>3. fds \in Seq(Indexes) /\ Distinct(fds) /\ k \in 1 .. Len(fds)
      /\ Entries(fds) = {i \in Indexes : pages[i].isOpen}
  <2>1. fds \in Seq(Indexes)
    BY DEF IInv, TypeOK, Indexes
  <2>2. Distinct(fds) /\ Entries(fds) = {i \in Indexes : pages[i].isOpen}
    BY Descriptors DEF IInv
  <2>3. QED
    BY <2>1, <2>2
<1> DEFINE t == Without(fds, k)
<1>4. /\ t \in Seq(Indexes) /\ Len(t) = Len(fds) - 1 /\ Distinct(t)
      /\ Entries(t) = Entries(fds) \ {Current}
  BY <1>2, <1>3, WithoutOne
<1> HIDE DEF t
<1>5. /\ fds' \in Seq(Indexes) /\ Len(fds') = Len(fds) /\ fds'[Len(fds')] = Current
      /\ Distinct(fds') /\ Entries(fds') = Entries(t) \cup {Current}
  <2>1. Len(t) + 1 = Len(fds)
    BY <1>3, <1>4
  <2>2. QED
    BY <1>1, <1>2, <1>4, <2>1, Appended DEF t
<1>6. Entries(fds') = {i \in Indexes : pages[i].isOpen}
  BY <1>1, <1>3, <1>4, <1>5
<1>7. TypeOK'
  BY <1>5 DEF IInv, TypeOK, NumFiles, Indexes
<1>8. DescriptorsMatch'
  <2>1. Current' = Current /\ Indexes' = Indexes
    BY DEF Current, Indexes
  <2>2. fds' # <<>>
    BY <1>3, <1>5
  <2>3. /\ Entries(fds)' = {i \in Indexes : pages[i].isOpen}'
        /\ Distinct(fds)'
        /\ (pc = "transfer" => fds # <<>> /\ fds[Len(fds)] = Current)'
    BY <1>5, <1>6, <2>1, <2>2 DEF Entries, Distinct
  <2>4. QED
    BY <2>3 DEF DescriptorsMatch, Entries, Distinct, Indexes
<1>9. \A i \in Indexes' : PageIntact(i)'
  BY DEF IInv, PageIntact, Indexes, Exists
<1>10. FileIntact'
  <2>1. mode # "closed"
    BY DEF IInv, FileIntact, Closed
  <2>2. PageFileSize' = PageFileSize /\ Indexes' = Indexes /\ Current' = Current
    BY DEF PageFileSize, Indexes, Current
  <2>3. QED
    BY <1>1, <2>1, <2>2 DEF IInv, FileIntact
<1>11. FilesFull' /\ CountBounds'
  BY <1>5 DEF IInv, FilesFull, Exists, CountBounds
<1>12. QED
  BY <1>7, <1>8, <1>9, <1>10, <1>11 DEF IInv

-----------------------------------------------------------------------------
(* Opening and closing.                                                    *)
LEMMA NoDescriptors ==
    ASSUME fds = <<>>, \A i \in Indexes : ~pages[i].isOpen, pc # "transfer"
    PROVE  DescriptorsMatch
BY DEF DescriptorsMatch, Indexes

(* A closed file whose page files can be opened again.                     *)
Reopenable ==
    /\ Closed
    /\ \E n \in Nat : DOMAIN disk = 0 .. n - 1
    /\ \A i \in DOMAIN disk : disk[i] \in [size : 0 .. PageSize, bytes : [Offsets -> Bytes]]
    /\ \A i \in DOMAIN disk : disk[0].size > 0 /\ Exists(i + 1) => disk[i].size = PageSize

LEMMA ClosedIInv == Reopenable => IInv
<1> SUFFICES ASSUME Reopenable PROVE IInv
  OBVIOUS
<1> USE DEF Reopenable
<1>0. PICK n \in Nat : DOMAIN disk = 0 .. n - 1
  OBVIOUS
<1>1. TypeOK
  <2>1. NumFiles = n
    BY <1>0, FilesCounted
  <2>2. pages \in [0 .. numPages - 1 -> [wasRemoved : BOOLEAN, isOpen : BOOLEAN,
                                        wasOpenedBefore : BOOLEAN, size : 0 .. PageSize, offset : -1 .. PageSize]]
        /\ at \in [0 .. numPages - 1 -> Nat]
    BY Empty DEF Closed
  <2>3. fds \in Seq(0 .. numPages - 1)
    BY DEF Closed
  <2>4. \A i \in DOMAIN disk : disk[i] \in [size : Nat, bytes : [Offsets -> Bytes]]
    BY PageFileAssumption
  <2>5. QED
    BY <1>0, <2>1, <2>2, <2>3, <2>4, CallTypes, PageFileAssumption DEF Closed, TypeOK
<1>2. Indexes = {}
  BY DEF Closed, Indexes
<1>3. FileIntact
  BY PageFileAssumption DEF Closed, FileIntact, PageFileSize
<1>4. FilesFull
  BY PageFileAssumption DEF FilesFull
<1>5. DescriptorsMatch
  BY <1>2, NoDescriptors DEF Closed
<1>6. CountBounds
  BY PageFileAssumption DEF Closed, CountBounds
<1>7. QED
  BY <1>1, <1>2, <1>3, <1>4, <1>5, <1>6 DEF IInv

LEMMA ClosedIInvNext == Reopenable' => IInv'
BY ClosedIInv, PTL

LEMMA InitIInv == Init => IInv
<1> SUFFICES ASSUME Init PROVE IInv
  OBVIOUS
<1>1. PICK n \in OldSizes, v \in Values : disk = Files(n, v)
  BY DEF Init
<1> DEFINE s == PageSize
           m == (n + s - 1) \div s
<1>2. n \in Nat /\ s \in Nat \ {0}
  BY PageFileAssumption
<1>3. m \in Nat /\ (\A i \in Nat : i < m => i * s < n) /\ (\A i \in Nat : i + 1 < m => n - i * s >= s)
  <2>1. m \in Nat /\ m * s <= n + s - 1
    <3> DEFINE a == n + s - 1
    <3>1. a \in Nat
      BY <1>2
    <3>2. a \div s \in Nat /\ a - (a \div s) * s \in 0 .. s - 1
      <4> HIDE DEF a, s
      <4>1. QED BY <3>1, <1>2, DivMod
    <3>3. (a \div s) * s \in Nat
      BY <3>2, <1>2
    <3>4. QED
      BY <3>1, <3>2, <3>3, <1>2
  <2> HIDE DEF m, s
  <2>2. ASSUME NEW k \in Nat, NEW i \in Nat, i + k <= m PROVE i * s + k * s <= m * s
    <3>1. i + k + (m - i - k) = m /\ m - i - k \in Nat
      BY <2>1, <2>2
    <3>2. PICK d \in Nat : m = i + k + d
      BY <3>1
    <3>3. m * s = i * s + k * s + d * s /\ d * s \in Nat
      BY <3>2, <1>2
    <3>4. i * s \in Nat /\ k * s \in Nat
      BY <1>2
    <3>5. QED
      BY <3>3, <3>4
  <2>3. ASSUME NEW i \in Nat, i < m PROVE i * s < n
    <3>1. i * s + 1 * s <= m * s
      BY <2>1, <2>2, <2>3
    <3>2. i * s \in Nat /\ m * s \in Nat
      BY <2>1, <1>2
    <3>3. QED
      BY <3>1, <3>2, <2>1, <1>2
  <2>4. ASSUME NEW i \in Nat, i + 1 < m PROVE n - i * s >= s
    <3>1. i * s + 2 * s <= m * s
      BY <2>1, <2>2, <2>4
    <3>2. i * s \in Nat /\ m * s \in Nat
      BY <2>1, <1>2
    <3>3. QED
      BY <3>1, <3>2, <2>1, <1>2
  <2>5. QED
    BY <2>1, <2>3, <2>4
<1>4. DOMAIN disk = 0 .. m - 1
  BY <1>1 DEF Files
<1>5. ASSUME NEW i \in 0 .. m - 1
      PROVE  /\ disk[i].size = Smaller(n - i * s, s)
             /\ disk[i].bytes \in [Offsets -> Bytes]
             /\ disk[i] = [size |-> disk[i].size, bytes |-> disk[i].bytes]
  BY <1>1 DEF Files, Bytes
<1> HIDE DEF m, s
<1>6. ASSUME NEW i \in 0 .. m - 1
      PROVE  disk[i].size \in 0 .. s /\ (i + 1 < m => disk[i].size = s)
  <2> DEFINE r == n - i * s
  <2>1. i \in Nat /\ i < m
    BY <1>3
  <2>2. i * s \in Nat
    BY <2>1, <1>2
  <2>3. r \in Nat
    BY <2>1, <2>2, <1>2, <1>3
  <2>4. i + 1 < m => r >= s
    BY <2>1, <1>3
  <2>5. disk[i].size = Smaller(r, s)
    BY <1>5
  <2> HIDE DEF r
  <2>6. QED
    BY <2>3, <2>4, <2>5, <1>2 DEF Smaller
<1>7. \A i \in DOMAIN disk : disk[i] \in [size : 0 .. PageSize, bytes : [Offsets -> Bytes]]
  BY <1>4, <1>5, <1>6 DEF s
<1>8. \A i \in DOMAIN disk : disk[0].size > 0 /\ Exists(i + 1) => disk[i].size = PageSize
  BY <1>3, <1>4, <1>6 DEF Exists, s
<1>9. QED
  BY <1>3, <1>4, <1>7, <1>8, ClosedIInv DEF Init, Reopenable

LEMMA OpenNewIInv == ASSUME IInv, NoStaleFiles, OpenNew PROVE IInv'
<1> USE DEF OpenNew
<1>1. DOMAIN disk = {}
  BY DEF IInv, TypeOK, NoStaleFiles
<1>2. numPages = 0
  BY DEF IInv, FileIntact, Closed
<1>3. TypeOK'
  BY DEF IInv, TypeOK, NumFiles
<1>4. \A i \in Indexes' : PageIntact(i)'
  BY <1>2 DEF Indexes
<1>5. pageSize = PageSize
  BY DEF IInv, FileIntact, Closed
<1>6. FileIntact'
  BY <1>1, <1>5 DEF IInv, FileIntact, PageFileSize, Indexes
<1>7. FilesFull'
  BY DEF IInv, FilesFull, Exists
<1>8. DescriptorsMatch' /\ CountBounds'
  BY DEF IInv, DescriptorsMatch, CountBounds, Current
<1>9. QED
  BY <1>3, <1>4, <1>6, <1>7, <1>8 DEF IInv

LEMMA OpenExistingIInv ==
    ASSUME IInv, NEW m \in {"read", "modify"}, OpenExisting(m) PROVE IInv'
<1> USE DEF OpenExisting
<1> DEFINE n == NumFiles
           s == pageSize'
<1>1. Closed /\ n \in Nat \ {0} /\ DOMAIN disk = 0 .. n - 1
      /\ \A i \in 0 .. n - 1 : disk[i] \in [size : Nat, bytes : [Offsets -> Bytes]]
  BY DEF IInv, FileIntact, TypeOK
<1>2. \A i \in 0 .. n - 1 : disk[i].size \in Nat /\ disk[i].size <= PageSize
                             /\ (disk[0].size > 0 /\ i + 1 \in 0 .. n - 1 => disk[i].size = PageSize)
  BY <1>1 DEF IInv, FilesFull, Exists
<1>3. 0 \in 0 .. n - 1
  BY <1>1
<1>4. s \in Nat \ {0} /\ s <= PageSize /\ (m = "modify" \/ n > 1 => s = PageSize)
  <2>1. s = (IF m = "read" THEN disk[0].size ELSE PageSize) /\ (m = "read" => disk[0].size > 0)
        /\ (m = "modify" => n = 1 \/ disk[0].size = PageSize)
    OBVIOUS
  <2>2. disk[0].size \in Nat /\ disk[0].size <= PageSize /\ (n > 1 /\ disk[0].size > 0 => disk[0].size = PageSize)
    BY <1>1, <1>2, <1>3
  <2> HIDE DEF n, s, OpenExisting
  <2>3. QED
    BY <2>1, <2>2, <1>1, PageFileAssumption
<1>5. \A i \in 0 .. n - 1 : disk[i].size <= s /\ (i < n - 1 => disk[i].size = s)
  <2> SUFFICES ASSUME NEW i \in 0 .. n - 1 PROVE disk[i].size <= s /\ (i < n - 1 => disk[i].size = s)
    OBVIOUS
  <2>1. CASE n = 1
    BY <2>1, <1>1, <1>2, PageFileAssumption
  <2>2. CASE n > 1
    <3>1. disk[0].size > 0 /\ s = PageSize
      BY <2>2, <1>3, <1>2, <1>4, PageFileAssumption
    <3>2. i < n - 1 => i + 1 \in 0 .. n - 1
      BY <1>1
    <3>3. QED
      BY <3>1, <3>2, <1>2
  <2>3. QED
    BY <2>1, <2>2, <1>1
<1>6. \A i \in 0 .. n - 1 :
          pages'[i] = [wasRemoved |-> FALSE, isOpen |-> FALSE, wasOpenedBefore |-> FALSE,
                       size |-> disk[i].size, offset |-> 0]
  <2>1. pages' = [i \in 0 .. n - 1 |->
                    [NewPage EXCEPT !.size = IF i = n - 1 THEN disk[i].size ELSE s]]
    OBVIOUS
  <2> SUFFICES ASSUME NEW i \in 0 .. n - 1
               PROVE  pages'[i] = [wasRemoved |-> FALSE, isOpen |-> FALSE, wasOpenedBefore |-> FALSE,
                                   size |-> disk[i].size, offset |-> 0]
    OBVIOUS
  <2> HIDE DEF n, s, OpenExisting
  <2>2. disk[i].size = IF i = n - 1 THEN disk[i].size ELSE s
    BY <1>1, <1>5
  <2>3. pages'[i] = [NewPage EXCEPT !.size = IF i = n - 1 THEN disk[i].size ELSE s]
    BY <2>1
  <2>4. QED
    BY <2>2, <2>3 DEF NewPage
<1>7. DOMAIN pages' = 0 .. n - 1 /\ pages' = [i \in 0 .. n - 1 |-> pages'[i]] /\ numPages' = n /\ disk' = disk
      /\ NumFiles' = n /\ mode' = m /\ position' = 0 /\ fds' = <<>> /\ numFileDescriptors' = 0
      /\ pc' = "idle" /\ call' = NoCall /\ at' \in [0 .. n - 1 -> Nat]
  <2>1. DOMAIN pages' = 0 .. n - 1 /\ pages' = [i \in 0 .. n - 1 |-> pages'[i]] /\ numPages' = n /\ disk' = disk
    OBVIOUS
  <2>2. NumFiles' = n
    BY <2>1 DEF NumFiles
  <2>3. mode' = m /\ position' = 0 /\ fds' = <<>> /\ numFileDescriptors' = 0 /\ pc' = "idle" /\ call' = NoCall
    BY <1>1 DEF Closed
  <2>4. at' \in [0 .. n - 1 -> Nat]
    OBVIOUS
  <2>5. QED
    BY <2>1, <2>2, <2>3, <2>4
<1> HIDE DEF n, s, OpenExisting
<1>8. TypeOK'
  <2>1. pages' \in [0 .. n - 1 -> [wasRemoved : BOOLEAN, isOpen : BOOLEAN,
                                   wasOpenedBefore : BOOLEAN, size : 0 .. PageSize, offset : -1 .. PageSize]]
    <3>1. \A i \in 0 .. n - 1 : disk[i].size \in 0 .. PageSize
      BY <1>2, PageFileAssumption
    <3>2. 0 \in -1 .. PageSize
      BY PageFileAssumption
    <3>3. \A i \in 0 .. n - 1 :
             pages'[i] \in [wasRemoved : BOOLEAN, isOpen : BOOLEAN,
                             wasOpenedBefore : BOOLEAN, size : 0 .. PageSize, offset : -1 .. PageSize]
      <4> SUFFICES ASSUME NEW i \in 0 .. n - 1
                   PROVE  pages'[i] \in [wasRemoved : BOOLEAN, isOpen : BOOLEAN,
                             wasOpenedBefore : BOOLEAN, size : 0 .. PageSize, offset : -1 .. PageSize]
        OBVIOUS
      <4>1. pages'[i] = [wasRemoved |-> FALSE, isOpen |-> FALSE, wasOpenedBefore |-> FALSE,
                         size |-> disk[i].size, offset |-> 0]
        BY <1>6
      <4>2. QED
        BY <4>1, <3>1, <3>2
    <3>4. QED
      BY <1>7, <3>3
  <2>2. fds' \in Seq(0 .. n - 1)
    BY <1>7
  <2>3. QED
    BY <1>1, <1>4, <1>7, <2>1, <2>2, CallTypes DEF TypeOK, s
<1>9. \A i \in Indexes' : PageIntact(i)'
  BY <1>1, <1>5, <1>6, <1>7 DEF PageIntact, Indexes, Exists, s
<1>10. FileIntact'
  <2>1. 0 <= PageFileSize'
    <3>0. n - 1 \in 0 .. n - 1
      BY <1>1
    <3>1. pages'[n - 1].size \in Nat
      <4>1. disk[n - 1].size \in Nat
        BY <3>0, <1>2
      <4>2. pages'[n - 1].size = disk[n - 1].size
        <5>1. \A i \in 0 .. n - 1 : pages'[i].size = disk[i].size
          <6> SUFFICES ASSUME NEW i \in 0 .. n - 1 PROVE pages'[i].size = disk[i].size
            OBVIOUS
          <6>1. pages'[i] = [wasRemoved |-> FALSE, isOpen |-> FALSE, wasOpenedBefore |-> FALSE,
                             size |-> disk[i].size, offset |-> 0]
            BY <1>6
          <6>2. QED
            BY <6>1
        <5>2. QED
          BY <3>0, <5>1
      <4>3. QED
        BY <4>1, <4>2
    <3>2. s * (n - 1) \in Nat
      BY <1>1, <1>4
    <3>3. PageFileSize' = s * (n - 1) + pages'[n - 1].size
      BY <1>1, <1>7 DEF PageFileSize, s
    <3>4. QED
      BY <3>1, <3>2, <3>3
  <2>2. QED
    BY <1>1, <1>4, <1>7, <2>1 DEF FileIntact, Indexes, s
<1>11. FilesFull'
  BY <1>1, <1>2, <1>7 DEF FilesFull
<1>12. DescriptorsMatch'
  BY <1>6, <1>7 DEF DescriptorsMatch
<1>13. CountBounds'
  BY <1>7, PageFileAssumption DEF CountBounds
<1>14. QED
  BY <1>8, <1>9, <1>10, <1>11, <1>12, <1>13 DEF IInv

LEMMA CloseIInv == ASSUME IInv, Close PROVE IInv'
<1> USE DEF Close
<1>1. DOMAIN disk \subseteq Indexes /\ numPages \in Nat
  BY DEF IInv, FileIntact, TypeOK
<1>2. Closed'
  BY DEF Closed, IInv, FileIntact, TypeOK
<1>3. DOMAIN disk = 0 .. NumFiles - 1 /\ NumFiles \in Nat
      /\ \A i \in DOMAIN disk : disk[i] \in [size : Nat, bytes : [Offsets -> Bytes]] /\ disk[i].size <= PageSize
  BY DEF IInv, TypeOK, FilesFull
<1>4. \A i \in DOMAIN disk : disk[i] \in [size : 0 .. PageSize, bytes : [Offsets -> Bytes]]
  BY <1>3, PageFileAssumption
<1>5. ASSUME NEW i \in DOMAIN disk, disk[0].size > 0, Exists(i + 1) PROVE disk[i].size = PageSize
  <2>1. i \in Indexes /\ i < numPages - 1 /\ numPages > 1 /\ 0 \in Indexes
    BY <1>1, <1>5 DEF Exists, Indexes
  <2>2. pageSize = PageSize
    BY <2>1 DEF IInv, FileIntact
  <2>3. ~pages[0].wasRemoved
    BY <2>1, <1>5 DEF IInv, PageIntact
  <2>4. QED
    BY <2>1, <2>2, <2>3 DEF IInv, PageIntact, Exists
<1>6. Reopenable'
  BY <1>2, <1>3, <1>4, <1>5 DEF Reopenable, Exists
<1>7. QED
  BY <1>6, ClosedIInvNext

LEMMA RemoveIInv == ASSUME IInv, Remove PROVE IInv'
<1> USE DEF Remove
<1>1. Closed'
  BY DEF Closed, IInv, FileIntact, fileVars
<1>2. DOMAIN disk' = {} /\ {} = 0 .. 0 - 1
  BY Empty
<1>3. Reopenable'
  BY <1>1, <1>2 DEF Reopenable
<1>4. QED
  BY <1>3, ClosedIInvNext


-----------------------------------------------------------------------------
(* Opening a page.                                                         *)
Opened == Larger(numPages, Current + 1)

(* The pages when the least recently used one is closed and a new one      *)
(* is known.                                                               *)
LEMMA Opening ==
    ASSUME IInv, NeedsDescriptor, ~(TooMany /\ fds = <<>>)
    PROVE  /\ numPages \in Nat /\ Current \in Nat /\ Opened \in Nat /\ Current \in 0 .. Opened - 1
           /\ Opened = numPages \/ (Opened = numPages + 1 /\ Current = numPages)
           /\ Larger(numPages - 1, Current) = Opened - 1
           /\ Current < numPages => ~pages[Current].wasRemoved /\ ~pages[Current].isOpen
           /\ Current = numPages => mode \in {"write", "modify"}
           /\ mode # "closed"
           /\ \A i \in Indexes : i < Opened - 1 => pages[i].size = pageSize
           /\ \A i \in 0 .. Opened - 1 : i # Current => i \in Indexes
           /\ \A i \in Indexes : i \in 0 .. Opened - 1 /\ i # numPages
<1>1. Current \in 0 .. numPages /\ numPages \in Nat
  BY Place DEF IInv, TypeOK
<1>2. Current \in Nat /\ Opened \in Nat /\ Current \in 0 .. Opened - 1
      /\ (Opened = numPages \/ (Opened = numPages + 1 /\ Current = numPages))
      /\ Larger(numPages - 1, Current) = Opened - 1
  BY <1>1 DEF Opened, Larger
<1>3. mode # "closed" /\ pc = "page"
  BY DEF NeedsDescriptor, IInv, FileIntact, Closed
<1>4. /\ Current < numPages => ~pages[Current].wasRemoved /\ ~pages[Current].isOpen
      /\ Current = numPages => mode \in {"write", "modify"}
  BY <1>1, <1>3, SMTT(30) DEF NeedsDescriptor, IsNewPage, IInv, TypeOK
<1>5. \A i \in Indexes : i < Opened - 1 => pages[i].size = pageSize
  <2> SUFFICES ASSUME NEW i \in Indexes, i < Opened - 1 PROVE pages[i].size = pageSize
    OBVIOUS
  <2>1. CASE i < numPages - 1
    BY <2>1 DEF IInv, PageIntact
  <2>2. CASE i = numPages - 1
    <3>1. Current = numPages /\ numPages > 0
      BY <2>2, <1>1, <1>2 DEF Indexes
    <3>2. QED
      BY <3>1, <2>2, Place
  <2>3. QED
    BY <2>1, <2>2, <1>1 DEF Indexes
<1>6. \A i \in 0 .. Opened - 1 : i # Current => i \in Indexes
  BY <1>1, <1>2 DEF Indexes
<1>7. \A i \in Indexes : i \in 0 .. Opened - 1 /\ i # numPages
  BY <1>1, <1>2 DEF Indexes
<1>8. QED
  BY <1>1, <1>2, <1>3, <1>4, <1>5, <1>6, <1>7

LEMMA OpeningPages ==
    ASSUME IInv, NeedsDescriptor, ~(TooMany /\ fds = <<>>)
    PROVE  /\ PagesToOpen = [i \in 0 .. Opened - 1 |-> PagesToOpen[i]]
           /\ \A i \in Indexes :
                 /\ PagesToOpen[i] =
                       [wasRemoved |-> pages[i].wasRemoved, isOpen |-> PagesToOpen[i].isOpen,
                        wasOpenedBefore |-> pages[i].wasOpenedBefore,
                        size |-> pages[i].size, offset |-> pages[i].offset]
                 /\ PagesToOpen[i].isOpen <=> (pages[i].isOpen /\ ~(TooMany /\ i = Head(fds)))
                 /\ PagesToOpen[i].isOpen \in BOOLEAN
           /\ Current = numPages => PagesToOpen[Current] = NewPage
<1> DEFINE R == [wasRemoved : BOOLEAN, isOpen : BOOLEAN,
                 wasOpenedBefore : BOOLEAN, size : 0 .. PageSize, offset : -1 .. PageSize]
           Q(i) == IF i = numPages THEN NewPage
                   ELSE [pages[i] EXCEPT !.isOpen = pages[i].isOpen /\ ~(TooMany /\ i = Head(fds))]
<1>1. PagesToOpen = [i \in 0 .. Opened - 1 |-> Q(i)]
  BY Opening DEF PagesToOpen
<1>2. \A i \in 0 .. Opened - 1 : PagesToOpen[i] = Q(i)
  BY <1>1
<1>3. ASSUME NEW i \in Indexes
      PROVE  /\ PagesToOpen[i] = [wasRemoved |-> pages[i].wasRemoved, isOpen |-> PagesToOpen[i].isOpen,
                                  wasOpenedBefore |-> pages[i].wasOpenedBefore,
                                  size |-> pages[i].size, offset |-> pages[i].offset]
             /\ PagesToOpen[i].isOpen <=> (pages[i].isOpen /\ ~(TooMany /\ i = Head(fds)))
             /\ PagesToOpen[i].isOpen \in BOOLEAN
  <2> DEFINE b == pages[i].isOpen /\ ~(TooMany /\ i = Head(fds))
  <2>1. i \in 0 .. Opened - 1 /\ i # numPages
    BY Opening
  <2>2. pages[i] \in R
    BY DEF IInv, TypeOK, Indexes
  <2>3. PagesToOpen[i] = [pages[i] EXCEPT !.isOpen = b]
    BY <1>2, <2>1
  <2>4. b \in BOOLEAN
    OBVIOUS
  <2> HIDE DEF b
  <2>5. /\ PagesToOpen[i] = [wasRemoved |-> pages[i].wasRemoved, isOpen |-> b,
                             wasOpenedBefore |-> pages[i].wasOpenedBefore,
                             size |-> pages[i].size, offset |-> pages[i].offset]
    BY <2>2, <2>3
  <2>6. PagesToOpen[i].isOpen = b
    BY <2>5
  <2>7. PagesToOpen[i].isOpen <=> (pages[i].isOpen /\ ~(TooMany /\ i = Head(fds)))
    BY <2>6 DEF b
  <2>8. QED
    BY <2>4, <2>5, <2>6, <2>7
<1>4. Current = numPages => PagesToOpen[Current] = NewPage
  BY <1>2, Opening
<1>5. PagesToOpen = [i \in 0 .. Opened - 1 |-> PagesToOpen[i]]
  BY <1>1, <1>2
<1>6. QED
  BY <1>3, <1>4, <1>5

LEMMA OpeningDescriptors ==
    ASSUME IInv, NeedsDescriptor, ~(TooMany /\ fds = <<>>)
    PROVE  /\ OpenDescriptors \in Seq(Indexes) /\ Distinct(OpenDescriptors)
           /\ Entries(OpenDescriptors) = {i \in Indexes : PagesToOpen[i].isOpen}
           /\ Current \notin Entries(OpenDescriptors)
           /\ OpenCount \in Nat /\ OpenCount < MaxDescriptors /\ Len(OpenDescriptors) <= OpenCount
<1>1. fds \in Seq(Indexes) /\ Distinct(fds) /\ Entries(fds) = {i \in Indexes : pages[i].isOpen}
  <2>1. fds \in Seq(Indexes)
    BY DEF IInv, TypeOK, Indexes
  <2>2. QED
    BY <2>1, Descriptors DEF IInv
<1>2. numFileDescriptors \in Nat /\ Len(fds) <= numFileDescriptors /\ numFileDescriptors <= MaxDescriptors
      /\ MaxDescriptors \in Nat \ {0} /\ Len(fds) \in Nat
  BY <1>1, PageFileAssumption DEF IInv, TypeOK, CountBounds
<1>3. \A i \in Indexes : PagesToOpen[i].isOpen <=> (pages[i].isOpen /\ ~(TooMany /\ i = Head(fds)))
  BY OpeningPages
<1>4. CASE TooMany
  <2>1. fds # <<>>
    BY <1>4
  <2>2. /\ Tail(fds) \in Seq(Indexes) /\ Len(Tail(fds)) = Len(fds) - 1
        /\ Distinct(Tail(fds)) /\ Entries(Tail(fds)) = Entries(fds) \ {Head(fds)}
    BY <2>1, <1>1, Headless
  <2>3. OpenDescriptors = Tail(fds) /\ OpenCount = numFileDescriptors - 1
    BY <1>4 DEF OpenDescriptors, OpenCount
  <2>4. Entries(Tail(fds)) = {i \in Indexes : PagesToOpen[i].isOpen}
    BY <2>2, <1>1, <1>3, <1>4
  <2>5. numFileDescriptors >= 1
    BY <1>2, <1>4 DEF TooMany
  <2>6. Current \notin Entries(Tail(fds))
    BY <2>2, <1>1, Opening DEF Indexes
  <2>7. QED
    BY <2>2, <2>3, <2>4, <2>5, <2>6, <1>2
<1>5. CASE ~TooMany
  <2>1. OpenDescriptors = fds /\ OpenCount = numFileDescriptors
    BY <1>5 DEF OpenDescriptors, OpenCount
  <2>2. numFileDescriptors < MaxDescriptors
    BY <1>2, <1>5 DEF TooMany
  <2>3. Entries(fds) = {i \in Indexes : PagesToOpen[i].isOpen}
    BY <1>1, <1>3, <1>5
  <2>4. Current \notin Entries(fds)
    BY <1>1, Opening DEF Indexes
  <2>5. QED
    BY <2>1, <2>2, <2>3, <2>4, <1>1, <1>2
<1>6. QED
  BY <1>4, <1>5

(* All pages before the current one are on disk.                           *)
LEMMA EarlierExist ==
    ASSUME IInv, NEW i \in Indexes, i < numPages - 1 \/ Current = numPages
    PROVE  Exists(i)
<1>1. numPages \in Nat /\ i \in Nat /\ i <= numPages - 1 /\ pageSize \in Nat \ {0}
  BY DEF Indexes, IInv, TypeOK
<1>2. pages[i].size = pageSize
  <2>1. CASE i < numPages - 1
    BY <2>1 DEF IInv, PageIntact
  <2>2. CASE i = numPages - 1
    BY <2>2, <1>1, Place
  <2>3. QED
    BY <2>1, <2>2, <1>1
<1>3. QED
  BY <1>1, <1>2 DEF IInv, PageIntact

(* The position stays within the file when a page is added.                *)
LEMMA OpenedSize ==
    ASSUME IInv, NeedsDescriptor, ~(TooMany /\ fds = <<>>),
           UNCHANGED <<pageSize, position>>, numPages' = Opened,
           \A i \in Indexes : pages'[i].size = pages[i].size,
           Current = numPages => pages'[Current].size = 0
    PROVE  position' <= PageFileSize'
<1>1. numPages \in Nat /\ Opened \in Nat
      /\ (Opened = numPages \/ (Opened = numPages + 1 /\ Current = numPages))
      /\ Current \in 0 .. Opened - 1
  BY Opening
<1>2. CASE Opened = numPages
  <2>1. numPages > 0 /\ numPages - 1 \in Indexes
    BY <1>1, <1>2 DEF Indexes
  <2>2. PageFileSize' = PageFileSize
    BY <2>1, <1>2 DEF PageFileSize
  <2>3. QED
    BY <2>2 DEF IInv, FileIntact
<1>3. CASE Opened = numPages + 1
  <2>1. Current = numPages
    BY <1>1, <1>3
  <2>2. position = numPages * pageSize + 0
    BY <2>1, Place
  <2>3. pageSize \in Nat
    BY DEF IInv, TypeOK
  <2>4. PageFileSize' = pageSize * numPages + 0
    <3>1. numPages' = numPages + 1 /\ numPages' - 1 = numPages /\ numPages' # 0
      BY <1>1, <1>3
    <3>2. PageFileSize' = pageSize * (numPages' - 1) + pages'[numPages' - 1].size
      BY <3>1 DEF PageFileSize
    <3>3. QED
      BY <3>1, <3>2, <2>1
  <2>5. pageSize * numPages + 0 = numPages * pageSize + 0 /\ numPages * pageSize + 0 \in Nat
    BY <1>1, <2>3
  <2>6. QED
    BY <2>2, <2>4, <2>5
<1>4. QED
  BY <1>1, <1>2, <1>3

LEMMA OpenFileFailsIInv == ASSUME IInv, OpenFileFails PROVE IInv'
<1>1. NeedsDescriptor /\ ~(TooMany /\ fds = <<>>)
  BY DEF OpenFileFails
<1>2. /\ numPages' = Opened /\ pages' = PagesToOpen /\ fds' = OpenDescriptors
      /\ numFileDescriptors' = OpenCount /\ pc' = "idle" /\ call' = NoCall
      /\ at' = [i \in 0 .. Opened - 1 |-> IF i = numPages THEN 0 ELSE at[i]]
      /\ mode' = mode /\ pageSize' = pageSize /\ position' = position /\ disk' = disk
  BY DEF OpenFileFails, Return, Opened
<1>3. \A i \in Indexes : /\ pages'[i].wasRemoved = pages[i].wasRemoved
                         /\ pages'[i].wasOpenedBefore = pages[i].wasOpenedBefore
                         /\ pages'[i].size = pages[i].size /\ pages'[i].offset = pages[i].offset
                         /\ (pages'[i].isOpen => pages[i].isOpen)
                         /\ at'[i] = at[i]
  <2> SUFFICES ASSUME NEW i \in Indexes
               PROVE  /\ pages'[i].wasRemoved = pages[i].wasRemoved
                      /\ pages'[i].wasOpenedBefore = pages[i].wasOpenedBefore
                      /\ pages'[i].size = pages[i].size /\ pages'[i].offset = pages[i].offset
                      /\ (pages'[i].isOpen => pages[i].isOpen)
                      /\ at'[i] = at[i]
    OBVIOUS
  <2>1. i \in 0 .. Opened - 1 /\ i # numPages
    BY <1>1, Opening
  <2>2. PagesToOpen[i] = [wasRemoved |-> pages[i].wasRemoved, isOpen |-> PagesToOpen[i].isOpen,
                          wasOpenedBefore |-> pages[i].wasOpenedBefore,
                          size |-> pages[i].size, offset |-> pages[i].offset]
    BY <1>1, OpeningPages
  <2>3. PagesToOpen[i].isOpen => pages[i].isOpen
    BY <1>1, OpeningPages
  <2>4. at'[i] = at[i]
    BY <1>2, <2>1
  <2>5. QED
    BY <1>2, <2>2, <2>3, <2>4
<1>4. Current = numPages => pages'[Current] = NewPage
  BY <1>1, <1>2, OpeningPages
<1>5. \A i \in 0 .. Opened - 1 : i \in Indexes \/ (i = Current /\ Current = numPages)
  BY <1>1, Opening DEF Indexes
<1>6. Indexes \subseteq 0 .. Opened - 1
  BY <1>1, Opening
<1>7. TypeOK'
  <2>1. pages' \in [0 .. Opened - 1 -> [wasRemoved : BOOLEAN, isOpen : BOOLEAN,
                      wasOpenedBefore : BOOLEAN, size : 0 .. PageSize, offset : -1 .. PageSize]]
    <3> DEFINE R == [wasRemoved : BOOLEAN, isOpen : BOOLEAN,
                     wasOpenedBefore : BOOLEAN, size : 0 .. PageSize, offset : -1 .. PageSize]
    <3>1. ASSUME NEW i \in Indexes PROVE PagesToOpen[i] \in R
      <4>1. pages[i] \in R
        BY DEF IInv, TypeOK, Indexes
      <4>2. PagesToOpen[i] = [wasRemoved |-> pages[i].wasRemoved, isOpen |-> PagesToOpen[i].isOpen,
                              wasOpenedBefore |-> pages[i].wasOpenedBefore,
                              size |-> pages[i].size, offset |-> pages[i].offset]
            /\ PagesToOpen[i].isOpen \in BOOLEAN
        BY <1>1, OpeningPages
      <4>3. QED
        BY <4>1, <4>2
    <3>2. NewPage \in R
      BY PageFileAssumption DEF NewPage
    <3> HIDE DEF R
    <3>3. \A i \in 0 .. Opened - 1 : PagesToOpen[i] \in R
      BY <3>1, <3>2, <1>2, <1>4, <1>5
    <3>4. PagesToOpen = [i \in 0 .. Opened - 1 |-> PagesToOpen[i]]
      BY <1>1, OpeningPages
    <3>5. PagesToOpen \in [0 .. Opened - 1 -> R]
      BY <3>3, <3>4
    <3>6. QED
      BY <3>5, <1>2 DEF R
  <2>2. fds' \in Seq(0 .. Opened - 1)
    <3>1. OpenDescriptors \in Seq(Indexes)
      BY <1>1, OpeningDescriptors
    <3>2. QED
      BY <3>1, <1>2, <1>6, SeqOfMore
  <2>3. at' \in [0 .. Opened - 1 -> Nat]
    <3>1. \A i \in Indexes : at[i] \in Nat
      BY DEF IInv, TypeOK, Indexes
    <3>2. \A i \in 0 .. Opened - 1 : (IF i = numPages THEN 0 ELSE at[i]) \in Nat
      <4> SUFFICES ASSUME NEW i \in 0 .. Opened - 1 PROVE (IF i = numPages THEN 0 ELSE at[i]) \in Nat
        OBVIOUS
      <4>1. i \in Indexes \/ i = numPages
        BY <1>5
      <4>2. QED
        BY <4>1, <3>1
    <3>3. QED
      BY <3>2, <1>2
  <2>4. numFileDescriptors' \in Nat
    BY <1>1, <1>2, OpeningDescriptors
  <2>5. Opened \in Nat
    BY <1>1, Opening
  <2>6. NumFiles' = NumFiles
    BY <1>2 DEF NumFiles
  <2>7. QED
    BY <1>2, <2>1, <2>2, <2>3, <2>4, <2>5, <2>6, CallTypes DEF IInv, TypeOK
<1>8. ASSUME NEW i \in Indexes' PROVE PageIntact(i)'
  <2>1. i \in 0 .. Opened - 1
    BY <1>2 DEF Indexes
  <2>2. CASE i \in Indexes
    <3>1. PageIntact(i)
      BY <2>2 DEF IInv
    <3>2. 0 \in Indexes
      BY <2>2, <1>1, Opening DEF Indexes
    <3>3. i < Opened - 1 => pages[i].size = pageSize
      BY <2>2, <1>1, Opening
    <3>4. QED
      BY <3>1, <3>2, <3>3, <2>2, <1>2, <1>3 DEF PageIntact, Exists
  <2>3. CASE i = Current /\ Current = numPages
    <3>1. ~(i < Opened - 1)
      BY <2>3, <2>1, <1>1, Opening
    <3>2. ~Exists(i)
      BY <2>3, <1>1, Opening DEF Exists, IInv, FileIntact
    <3>3. pages'[i] = NewPage /\ pageSize \in Nat
      BY <2>3, <1>4 DEF IInv, TypeOK
    <3>4. QED
      BY <3>1, <3>2, <3>3, <1>2 DEF PageIntact, Exists, NewPage
  <2>4. QED
    BY <2>1, <2>2, <2>3, <1>5
<1>9. FileIntact'
  <2>1. position' <= PageFileSize'
    BY <1>1, <1>2, <1>3, <1>4, OpenedSize DEF NewPage
  <2>2. mode # "closed" /\ (mode \in {"write", "modify"} \/ Opened > 1 => pageSize = PageSize)
    BY <1>1, Opening DEF IInv, FileIntact
  <2>3. DOMAIN disk' \subseteq Indexes'
    BY <1>2, <1>6, <2>2 DEF IInv, FileIntact, Indexes
  <2>4. QED
    BY <1>2, <2>1, <2>2, <2>3 DEF IInv, FileIntact
<1>10. FilesFull'
  BY <1>2, <1>1, Opening DEF IInv, FilesFull
<1>11. DescriptorsMatch'
  <2>1. Distinct(fds') /\ Entries(fds') = {i \in Indexes : pages'[i].isOpen}
    BY <1>1, <1>2, OpeningDescriptors
  <2>2. {i \in Indexes : pages'[i].isOpen} = {i \in 0 .. Opened - 1 : pages'[i].isOpen}
    <3>1. Current = numPages => ~pages'[Current].isOpen
      BY <1>4 DEF NewPage
    <3>2. QED
      BY <3>1, <1>5, <1>6
  <2>3. QED
    BY <2>1, <2>2, <1>2 DEF DescriptorsMatch, Distinct, Entries
<1>12. CountBounds'
  BY <1>1, <1>2, OpeningDescriptors, PageFileAssumption DEF CountBounds
<1>13. QED
  BY <1>7, <1>8, <1>9, <1>10, <1>11, <1>12 DEF IInv

(* A page file that is made stands after those that exist.                 *)
LEMMA OneMoreFile ==
    ASSUME IInv, NeedsDescriptor, ~(TooMany /\ fds = <<>>),
           DOMAIN disk' = DOMAIN disk \cup {Current}
    PROVE  NumFiles' \in Nat /\ DOMAIN disk' = 0 .. NumFiles' - 1
<1> DEFINE n == NumFiles
<1>1. n \in Nat /\ DOMAIN disk = 0 .. n - 1 /\ Current \in Nat /\ numPages \in Nat /\ Current <= numPages
  BY Opening, Place, SMTT(20) DEF IInv, TypeOK
<1>2. CASE Exists(Current)
  <2>1. DOMAIN disk' = 0 .. n - 1
    BY <1>1, <1>2 DEF Exists
  <2>2. NumFiles' = n
    BY <2>1, <1>1, FilesCountedNext
  <2>3. QED
    BY <2>1, <2>2, <1>1
<1>3. CASE ~Exists(Current)
  <2>1. \A i \in 0 .. Current - 1 : Exists(i)
    <3> SUFFICES ASSUME NEW i \in 0 .. Current - 1 PROVE Exists(i)
      OBVIOUS
    <3>1. i \in Indexes /\ (i < numPages - 1 \/ Current = numPages)
      BY <1>1 DEF Indexes
    <3>2. QED
      BY <3>1, EarlierExist
  <2>2. Current >= n /\ (Current > 0 => Current - 1 \in 0 .. n - 1)
    <3>1. Current > 0 => Current - 1 \in 0 .. Current - 1
      BY <1>1
    <3>2. QED
      BY <3>1, <2>1, <1>1, <1>3 DEF Exists
  <2>3. Current = n
    BY <2>2, <1>1
  <2>4. DOMAIN disk' = 0 .. (n + 1) - 1 /\ n + 1 \in Nat
    BY <2>3, <1>1
  <2>5. NumFiles' = n + 1
    BY <2>4, FilesCountedNext
  <2>6. QED
    BY <2>4, <2>5
<1>4. QED
  BY <1>2, <1>3

LEMMA OpenFileIInv == ASSUME IInv, OpenFile PROVE IInv'
<1> DEFINE R == [wasRemoved : BOOLEAN, isOpen : BOOLEAN,
                 wasOpenedBefore : BOOLEAN, size : 0 .. PageSize, offset : -1 .. PageSize]
           c == Current
<1>1. NeedsDescriptor /\ ~(TooMany /\ fds = <<>>)
  BY DEF OpenFile
<1>2. /\ numPages' = Opened /\ fds' = Append(OpenDescriptors, c)
      /\ pages' = [PagesToOpen EXCEPT ![c].isOpen = TRUE, ![c].wasOpenedBefore = TRUE, ![c].offset = 0]
      /\ numFileDescriptors' = OpenCount + 1 /\ pc' = "transfer" /\ call' = call
      /\ at' = [i \in 0 .. Opened - 1 |-> IF i = c THEN 0 ELSE at[i]]
      /\ disk' = [i \in DOMAIN disk \cup {c} |->
                     IF i = c /\ Emptied(PagesToOpen[i]) THEN EmptyFile ELSE disk[i]]
      /\ mode' = mode /\ pageSize' = pageSize /\ position' = position
  BY DEF OpenFile, Opened
<1>3. /\ numPages \in Nat /\ c \in Nat /\ Opened \in Nat /\ c \in 0 .. Opened - 1
      /\ (Opened = numPages \/ (Opened = numPages + 1 /\ c = numPages))
      /\ mode # "closed" /\ pageSize \in Nat \ {0}
  BY <1>1, Opening DEF IInv, TypeOK
<1>4. \A i \in 0 .. Opened - 1 : i # c => i \in Indexes
  BY <1>1, Opening
<1>5. Indexes \subseteq 0 .. Opened - 1
  BY <1>1, Opening
(* The pages other than the one that is opened.                            *)
<1>6. ASSUME NEW i \in Indexes, i # c
      PROVE  /\ pages'[i] = PagesToOpen[i] /\ PagesToOpen[i] \in R
             /\ pages'[i].wasRemoved = pages[i].wasRemoved
             /\ pages'[i].wasOpenedBefore = pages[i].wasOpenedBefore
             /\ pages'[i].size = pages[i].size /\ pages'[i].offset = pages[i].offset
             /\ (pages'[i].isOpen => pages[i].isOpen)
             /\ at'[i] = at[i]
  <2>1. i \in 0 .. Opened - 1
    BY <1>5
  <2>2. PagesToOpen[i] = [wasRemoved |-> pages[i].wasRemoved, isOpen |-> PagesToOpen[i].isOpen,
                          wasOpenedBefore |-> pages[i].wasOpenedBefore,
                          size |-> pages[i].size, offset |-> pages[i].offset]
        /\ PagesToOpen[i].isOpen \in BOOLEAN
    BY <1>1, OpeningPages
  <2>3. PagesToOpen[i].isOpen => pages[i].isOpen
    BY <1>1, OpeningPages
  <2>4. pages[i] \in R
    BY DEF IInv, TypeOK, Indexes
  <2>5. pages'[i] = PagesToOpen[i]
    <3>1. PagesToOpen = [j \in 0 .. Opened - 1 |-> PagesToOpen[j]]
      BY <1>1, OpeningPages
    <3> HIDE DEF c
    <3>2. QED
      BY <3>1, <2>1, <1>2, <1>6
  <2>6. at'[i] = at[i]
    BY <1>2, <1>6, <2>1
  <2>7. PagesToOpen[i] \in R
    BY <2>2, <2>4
  <2>8. QED
    BY <2>2, <2>3, <2>5, <2>6, <2>7
(* The page that is opened.                                                *)
<1>7. /\ PagesToOpen[c] \in R
      /\ c \in Indexes => PagesToOpen[c].size = pages[c].size
                          /\ PagesToOpen[c].wasOpenedBefore = pages[c].wasOpenedBefore
      /\ ~PagesToOpen[c].wasRemoved
      /\ c \notin Indexes => PagesToOpen[c].size = 0 /\ ~Exists(c)
  <2>1. CASE c \in Indexes
    <3>1. PagesToOpen[c] = [wasRemoved |-> pages[c].wasRemoved, isOpen |-> PagesToOpen[c].isOpen,
                          wasOpenedBefore |-> pages[c].wasOpenedBefore,
                          size |-> pages[c].size, offset |-> pages[c].offset]
          /\ PagesToOpen[c].isOpen \in BOOLEAN
      BY <2>1, <1>1, OpeningPages
    <3>2. pages[c] \in R
      BY <2>1 DEF IInv, TypeOK, Indexes
    <3>3. ~pages[c].wasRemoved
      BY <2>1, <1>1, <1>3, Opening DEF Indexes
    <3>4. PagesToOpen[c] \in R
      BY <3>1, <3>2
    <3>5. QED
      BY <2>1, <3>1, <3>3, <3>4
  <2>2. CASE c \notin Indexes
    <3>1. c = numPages
      BY <2>2, <1>3 DEF Indexes
    <3>2. PagesToOpen[c] = NewPage
      BY <3>1, <1>1, OpeningPages
    <3>3. ~Exists(c)
      BY <2>2, <1>3 DEF IInv, FileIntact, Exists
    <3>4. NewPage \in R /\ NewPage.size = 0 /\ ~NewPage.wasRemoved
      BY PageFileAssumption DEF NewPage
    <3>5. QED
      BY <2>2, <3>2, <3>3, <3>4
  <2>3. QED
    BY <2>1, <2>2
<1>8. /\ pages'[c].isOpen /\ pages'[c].wasOpenedBefore /\ pages'[c].offset = 0
      /\ pages'[c].size = PagesToOpen[c].size /\ ~pages'[c].wasRemoved
      /\ pages'[c] \in R /\ at'[c] = 0
  <2>1. PagesToOpen = [j \in 0 .. Opened - 1 |-> PagesToOpen[j]]
    BY <1>1, OpeningPages
  <2> HIDE DEF c
  <2>2. pages'[c] = [PagesToOpen[c] EXCEPT !.isOpen = TRUE, !.wasOpenedBefore = TRUE, !.offset = 0]
    BY <2>1, <1>2, <1>3
  <2>3. at'[c] = 0
    BY <1>2, <1>3
  <2>4. /\ pages'[c].isOpen /\ pages'[c].wasOpenedBefore /\ pages'[c].offset = 0
        /\ pages'[c].size = PagesToOpen[c].size /\ pages'[c].wasRemoved = PagesToOpen[c].wasRemoved
        /\ pages'[c] \in R
    <3> DEFINE q == PagesToOpen[c]
    <3>1. q \in R /\ pages'[c] = [q EXCEPT !.isOpen = TRUE, !.wasOpenedBefore = TRUE, !.offset = 0]
      BY <2>2, <1>7
    <3> HIDE DEF q
    <3>2. pages'[c] = [wasRemoved |-> q.wasRemoved, isOpen |-> TRUE, wasOpenedBefore |-> TRUE,
                       size |-> q.size, offset |-> 0]
      BY <3>1
    <3>3. 0 \in -1 .. PageSize
      BY PageFileAssumption
    <3>4. QED
      BY <3>1, <3>2, <3>3 DEF q
  <2>5. QED
    BY <2>3, <2>4, <1>7
<1>9. DOMAIN disk' = DOMAIN disk \cup {c} /\ (\A i \in DOMAIN disk : i # c => disk'[i] = disk[i])
  BY <1>2
<1>10. disk'[c].size = PagesToOpen[c].size /\ disk'[c] \in [size : Nat, bytes : [Offsets -> Bytes]]
       /\ disk'[c].size <= PageSize
  <2>1. disk'[c] = IF Emptied(PagesToOpen[c]) THEN EmptyFile ELSE disk[c]
    BY <1>2
  <2>2. CASE Emptied(PagesToOpen[c])
    <3>1. disk'[c].size = 0 /\ disk'[c] \in [size : Nat, bytes : [Offsets -> Bytes]]
      BY <2>1, <2>2 DEF EmptyFile, Bytes
    <3>2. ~Exists(c)
      <4>1. CASE Exists(c)
        <5>1. c \in Indexes /\ mode = "write" /\ ~pages[c].wasOpenedBefore
          BY <4>1, <2>2, <1>7 DEF Emptied, FileExists, Exists
        <5>2. QED
          BY <5>1, <4>1 DEF IInv, PageIntact
      <4>2. QED
        BY <4>1
    <3>3. PagesToOpen[c].size = 0
      BY <3>2, <1>7 DEF IInv, PageIntact
    <3>4. QED
      BY <3>1, <3>3, PageFileAssumption
  <2>3. CASE ~Emptied(PagesToOpen[c])
    <3>1. Exists(c)
      BY <2>3 DEF Emptied, FileExists, Exists
    <3>2. c \in Indexes
      BY <3>1, <1>7
    <3>3. ~pages[c].wasRemoved
      BY <3>2, <1>1, <1>3, Opening DEF Indexes
    <3>4. disk[c].size = pages[c].size
      BY <3>1, <3>2, <3>3 DEF IInv, PageIntact
    <3>5. disk[c] \in [size : Nat, bytes : [Offsets -> Bytes]] /\ disk[c].size <= PageSize
      BY <3>1 DEF IInv, TypeOK, FilesFull, Exists
    <3>6. QED
      BY <3>2, <3>4, <3>5, <2>1, <2>3, <1>7
  <2>4. QED
    BY <2>2, <2>3
<1>11. TypeOK'
  <2>1. pages' \in [0 .. Opened - 1 -> R]
    <3>1. DOMAIN pages' = 0 .. Opened - 1 /\ pages' = [i \in DOMAIN pages' |-> pages'[i]]
      <4>1. PagesToOpen = [j \in 0 .. Opened - 1 |-> PagesToOpen[j]]
        BY <1>1, OpeningPages
      <4>2. QED
        BY <4>1, <1>2
    <3>2. ASSUME NEW i \in 0 .. Opened - 1 PROVE pages'[i] \in R
      <4>1. CASE i = c
        BY <4>1, <1>8
      <4>2. CASE i # c
        <5>1. i \in Indexes
          BY <4>2, <1>4
        <5>2. QED
          BY <5>1, <4>2, <1>6
      <4>3. QED
        BY <4>1, <4>2
    <3> HIDE DEF R
    <3>3. QED
      BY <3>1, <3>2
  <2>2. fds' \in Seq(0 .. Opened - 1)
    <3>1. OpenDescriptors \in Seq(Indexes)
      BY <1>1, OpeningDescriptors
    <3>2. OpenDescriptors \in Seq(0 .. Opened - 1)
      BY <3>1, <1>5, SeqOfMore
    <3>3. QED
      BY <3>2, <1>2, <1>3
  <2>3. at' \in [0 .. Opened - 1 -> Nat]
    <3>1. \A i \in Indexes : at[i] \in Nat
      BY DEF IInv, TypeOK, Indexes
    <3>2. \A i \in 0 .. Opened - 1 : (IF i = c THEN 0 ELSE at[i]) \in Nat
      BY <3>1, <1>4
    <3>3. QED
      BY <3>2, <1>2
  <2>4. numFileDescriptors' \in Nat
    BY <1>1, <1>2, OpeningDescriptors
  <2>5. NumFiles' \in Nat /\ DOMAIN disk' = 0 .. NumFiles' - 1
    BY <1>1, <1>9, OneMoreFile
  <2>6. \A i \in DOMAIN disk' : disk'[i] \in [size : Nat, bytes : [Offsets -> Bytes]]
    BY <1>9, <1>10 DEF IInv, TypeOK
  <2>7. QED
    BY <1>2, <1>3, <2>1, <2>2, <2>3, <2>4, <2>5, <2>6 DEF IInv, TypeOK
<1>12. ASSUME NEW i \in Indexes' PROVE PageIntact(i)'
  <2>1. i \in 0 .. Opened - 1
    BY <1>2 DEF Indexes
  <2>2. i \in Indexes => (i < Opened - 1 => pages[i].size = pageSize)
    BY <1>1, Opening
  <2>3. CASE i # c
    <3>1. i \in Indexes /\ PageIntact(i) /\ 0 \in Indexes
      BY <2>1, <2>3, <1>3, <1>4 DEF IInv, Indexes
    <3>2. pages[0].wasRemoved => pages'[0].wasRemoved
      BY <3>1, <1>1, <1>3, <1>6, Opening DEF Indexes
    <3>3. i \in DOMAIN disk' <=> i \in DOMAIN disk
      BY <2>3, <1>9
    <3>4. Exists(i) => disk'[i] = disk[i]
      BY <2>3, <1>9 DEF Exists
    <3>5. pages[i].wasRemoved => Exists(i)
      BY <3>1 DEF PageIntact
    <3>6. QED
      <4>1. /\ pages'[i].wasRemoved = pages[i].wasRemoved
            /\ pages'[i].wasOpenedBefore = pages[i].wasOpenedBefore
            /\ pages'[i].size = pages[i].size /\ pages'[i].offset = pages[i].offset
            /\ (pages'[i].isOpen => pages[i].isOpen)
            /\ at'[i] = at[i]
        BY <3>1, <2>3, <1>6
      <4> HIDE DEF c, R
      <4>2. QED
        BY <4>1, <3>1, <3>2, <3>3, <3>4, <3>5, <2>2, <1>2 DEF PageIntact, Exists
  <2>4. CASE i = c
    <3>1. i \in DOMAIN disk'
      BY <2>4, <1>9
    <3>2. pages'[c].size <= pageSize
      <4>1. c \in Indexes => pages[c].size <= pageSize
        BY DEF IInv, PageIntact
      <4>2. QED
        BY <4>1, <1>3, <1>7, <1>8
    <3>3. c < Opened - 1 => pages'[c].size = pageSize
      <4>1. c < Opened - 1 => c \in Indexes
        BY <1>3 DEF Indexes
      <4>2. QED
        BY <4>1, <2>2, <2>4, <1>7, <1>8
    <3>4. QED
      BY <2>4, <3>1, <3>2, <3>3, <1>2, <1>8, <1>10 DEF PageIntact, Exists
  <2>5. QED
    BY <2>3, <2>4
<1>13. FileIntact'
  <2>1. position' <= PageFileSize'
    <3>1. \A i \in Indexes : pages'[i].size = pages[i].size
      BY <1>6, <1>7, <1>8
    <3>2. c = numPages => pages'[c].size = 0
      BY <1>3, <1>7, <1>8 DEF Indexes
    <3>3. QED
      BY <1>1, <1>2, <3>1, <3>2, OpenedSize
  <2>2. mode \in {"write", "modify"} \/ Opened > 1 => pageSize = PageSize
    BY <1>1, Opening DEF IInv, FileIntact
  <2>3. DOMAIN disk' \subseteq Indexes'
    BY <1>2, <1>3, <1>5, <1>9 DEF IInv, FileIntact, Indexes
  <2>4. Current' = c
    BY <1>2 DEF Current
  <2>5. c \in Indexes'
    BY <1>2, <1>3 DEF Indexes
  <2>6. QED
    BY <1>2, <1>3, <1>8, <2>1, <2>2, <2>3, <2>4, <2>5 DEF IInv, FileIntact
<1>14. FilesFull'
  BY <1>2, <1>3, <1>9, <1>10 DEF IInv, FilesFull
<1>15. DescriptorsMatch' /\ CountBounds'
  <2> DEFINE d == OpenDescriptors
  <2>1. /\ d \in Seq(Indexes) /\ Distinct(d) /\ Entries(d) = {i \in Indexes : PagesToOpen[i].isOpen}
        /\ c \notin Entries(d) /\ OpenCount \in Nat /\ OpenCount < MaxDescriptors /\ Len(d) <= OpenCount
    BY <1>1, OpeningDescriptors
  <2>2. d \in Seq(0 .. Opened - 1)
    BY <2>1, <1>5, SeqOfMore
  <2> HIDE DEF d, c
  <2>3. /\ fds' \in Seq(0 .. Opened - 1) /\ Len(fds') = Len(d) + 1 /\ fds'[Len(d) + 1] = c
        /\ Distinct(fds') /\ Entries(fds') = Entries(d) \cup {c}
    BY <2>1, <2>2, <1>2, <1>3, Appended DEF d
  <2>4. Entries(fds') = {i \in 0 .. Opened - 1 : pages'[i].isOpen}
    <3>1. ASSUME NEW i \in 0 .. Opened - 1, i # c PROVE i \in Entries(d) <=> pages'[i].isOpen
      BY <3>1, <2>1, <1>4, <1>6
    <3>2. \A i \in Entries(d) : i \in 0 .. Opened - 1 /\ i # c
      BY <2>1, <1>5
    <3>3. QED
      BY <2>3, <3>1, <3>2, <1>3, <1>8
  <2>5. Current' = c
    BY <1>2 DEF Current, c
  <2>6. Len(d) \in Nat
    BY <2>1
  <2>7. fds' # <<>> /\ fds'[Len(fds')] = c
    BY <2>3, <2>6
  <2>8. DescriptorsMatch'
    BY <1>2, <2>3, <2>4, <2>5, <2>7 DEF DescriptorsMatch, Distinct, Entries
  <2>9. CountBounds'
    BY <1>2, <2>1, <2>3, <2>6, PageFileAssumption DEF CountBounds
  <2>10. QED
    BY <2>8, <2>9
<1>16. QED
  BY <1>11, <1>12, <1>13, <1>14, <1>15 DEF IInv

-----------------------------------------------------------------------------
(* Using the page that is open.                                            *)
PageRecords == [wasRemoved : BOOLEAN, isOpen : BOOLEAN,
                wasOpenedBefore : BOOLEAN, size : 0 .. PageSize, offset : -1 .. PageSize]

(* The size z of the page may grow, and it stays that of the page file.    *)
LEMMA PageUsed ==
    ASSUME IInv, pc = "transfer", NEW z \in Nat, NEW o \in -1 .. PageSize,
           UNCHANGED <<mode, pageSize, numPages, fds, numFileDescriptors>>,
           pages' = [pages EXCEPT ![Current] = pages'[Current]],
           pages'[Current] = [wasRemoved |-> pages[Current].wasRemoved, isOpen |-> pages[Current].isOpen,
                              wasOpenedBefore |-> pages[Current].wasOpenedBefore, size |-> z, offset |-> o],
           pages[Current].size <= z, z <= pageSize,
           at' \in [Indexes -> Nat], \A i \in Indexes : i # Current => at'[i] = at[i],
           o # -1 => at'[Current] = o,
           DOMAIN disk' = DOMAIN disk, \A i \in DOMAIN disk : i # Current => disk'[i] = disk[i],
           disk'[Current] \in [size : Nat, bytes : [Offsets -> Bytes]], disk'[Current].size = z,
           position' \in Nat, position' <= PageFileSize',
           pc' \in {"idle", "page"}, pc' = "idle" => call' = NoCall,
           call' \in [op : {"none", "read", "write", "truncate"}, rem : Nat, value : Bytes, page : Nat]
    PROVE  IInv'
<1> DEFINE c == Current
<1>1. c \in Indexes /\ pages[c].isOpen /\ PageIntact(c)
  BY DEF IInv, FileIntact
<1>2. Exists(c) /\ ~pages[c].wasRemoved
  BY <1>1 DEF PageIntact
<1>3. \A i \in Indexes : pages[i] \in PageRecords
  BY DEF IInv, TypeOK, Indexes, PageRecords
<1>4. DOMAIN pages = Indexes
  BY DEF IInv, TypeOK, Indexes
<1> HIDE DEF c
<1>5. \A i \in Indexes : i # c => pages'[i] = pages[i]
  BY <1>4 DEF c
<1>6. pages'[c] = [wasRemoved |-> pages[c].wasRemoved, isOpen |-> pages[c].isOpen,
                   wasOpenedBefore |-> pages[c].wasOpenedBefore, size |-> z, offset |-> o]
  BY DEF c
<1>7. pageSize \in Nat \ {0} /\ pageSize <= PageSize /\ z \in 0 .. PageSize /\ pages[c].size <= z
  BY <1>1, PageFileAssumption DEF IInv, TypeOK, FileIntact, c
<1>8. mode # "closed"
  BY DEF IInv, FileIntact, Closed
<1>9. TypeOK'
  <2>1. pages'[c] \in PageRecords
    BY <1>1, <1>3, <1>6, <1>7 DEF PageRecords
  <2>2. \A i \in Indexes : pages'[i] \in PageRecords
    BY <2>1, <1>3, <1>5
  <2>3. DOMAIN pages' = Indexes /\ pages' = [i \in Indexes |-> pages'[i]]
    BY <1>4
  <2>4. pages' \in [Indexes -> PageRecords]
    <3> HIDE DEF PageRecords
    <3>1. QED
      BY <2>2, <2>3
  <2>5. NumFiles' = NumFiles
    BY DEF NumFiles
  <2>6. \A i \in DOMAIN disk' : disk'[i] \in [size : Nat, bytes : [Offsets -> Bytes]]
    BY <1>2 DEF IInv, TypeOK, c
  <2>7. QED
    BY <2>4, <2>5, <2>6 DEF IInv, TypeOK, Indexes, PageRecords
<1>10. ASSUME NEW i \in Indexes' PROVE PageIntact(i)'
  <2>1. i \in Indexes /\ PageIntact(i) /\ 0 \in Indexes
    BY DEF Indexes, IInv, TypeOK
  <2>2. pages'[0].wasRemoved = pages[0].wasRemoved
    BY <2>1, <1>5, <1>6
  <2>3. CASE i # c
    <3>1. pages'[i] = pages[i] /\ at'[i] = at[i] /\ (i \in DOMAIN disk => disk'[i] = disk[i])
      BY <2>1, <2>3, <1>5 DEF c
    <3>2. pages[i].wasRemoved => i \in DOMAIN disk
      BY <2>1 DEF PageIntact, Exists
    <3>3. QED
      BY <2>1, <2>2, <3>1, <3>2 DEF PageIntact, Exists
  <2>4. CASE i = c
    <3>1. i < numPages - 1 => z = pageSize
      BY <2>1, <2>4, <1>7 DEF PageIntact, c
    <3>2. disk'[i].size = z /\ i \in DOMAIN disk' /\ (o # -1 => at'[i] = o) /\ z <= pageSize
      BY <2>4, <1>2 DEF Exists, c
    <3>3. /\ pages'[i].wasRemoved = pages[i].wasRemoved
          /\ pages'[i].wasOpenedBefore = pages[i].wasOpenedBefore
          /\ pages'[i].size = z /\ pages'[i].offset = o
          /\ pages'[i].isOpen = pages[i].isOpen
      BY <2>4, <1>6
    <3>4. QED
      BY <2>1, <2>4, <3>1, <3>2, <3>3, <1>2 DEF PageIntact, Exists
  <2>5. QED
    BY <2>3, <2>4
<1>11. FileIntact'
  <2>1. Indexes' = Indexes
    BY DEF Indexes
  <2>2. QED
    BY <2>1, <1>8 DEF IInv, FileIntact
<1>12. FilesFull'
  BY <1>7, <1>8 DEF IInv, FilesFull, c
<1>13. DescriptorsMatch' /\ CountBounds'
  <2>1. \A i \in Indexes : pages'[i].isOpen <=> pages[i].isOpen
    BY <1>5, <1>6
  <2>2. {i \in Indexes : pages'[i].isOpen} = {i \in Indexes : pages[i].isOpen}
    BY <2>1
  <2>3. pc' # "transfer"
    OBVIOUS
  <2>4. DescriptorsMatch'
    BY <2>2, <2>3 DEF IInv, DescriptorsMatch, Indexes
  <2>5. QED
    BY <2>4 DEF IInv, CountBounds
<1>14. QED
  BY <1>9, <1>10, <1>11, <1>12, <1>13 DEF IInv

LEMMA SeekFailsIInv == ASSUME IInv, SeekFails PROVE IInv'
<1> DEFINE c == Current
<1> USE DEF SeekFails
<1>1. c \in Indexes /\ pages[c].isOpen /\ PageIntact(c)
  BY DEF IInv, FileIntact
<1>2. pages[c] \in PageRecords /\ DOMAIN pages = Indexes
  BY <1>1 DEF IInv, TypeOK, Indexes, PageRecords
<1>3. Exists(c) /\ disk[c].size = pages[c].size /\ pages[c].size <= pageSize
  BY <1>1 DEF PageIntact
<1>4. pages[c].size \in Nat /\ -1 \in -1 .. PageSize
  BY <1>2, PageFileAssumption DEF PageRecords
<1>5. pages'[c] = [wasRemoved |-> pages[c].wasRemoved, isOpen |-> pages[c].isOpen,
                   wasOpenedBefore |-> pages[c].wasOpenedBefore, size |-> pages[c].size, offset |-> -1]
  <2>1. pages'[c] = [pages[c] EXCEPT !.offset = -1]
    BY <1>1, <1>2 DEF OffsetAfterFailedSeek
  <2>2. QED
    BY <2>1, <1>2 DEF PageRecords
<1>6. pages' = [pages EXCEPT ![c] = pages'[c]]
  BY <1>1, <1>2
<1>7. position' \in Nat /\ position' <= PageFileSize'
  <2>1. \A i \in Indexes : pages'[i].size = pages[i].size
    BY <1>5, <1>6, <1>2
  <2>2. PageFileSize' = PageFileSize
    BY <2>1, <1>1, SMTT(20) DEF PageFileSize, Indexes, IInv, TypeOK
  <2>3. QED
    BY <2>2 DEF IInv, FileIntact, TypeOK
<1>8. disk[c] \in [size : Nat, bytes : [Offsets -> Bytes]] /\ at \in [Indexes -> Nat]
  BY <1>3 DEF IInv, TypeOK, Exists, Indexes
<1>9. pages[c].size <= pages[c].size
  BY <1>4
<1> HIDE DEF c
<1>10. QED
  BY <1>3, <1>4, <1>5, <1>6, <1>7, <1>8, <1>9, CallTypes, PageUsed DEF Return, c

(* n bytes are read or written where the position is.                      *)
LEMMA Transfer ==
    ASSUME IInv, pc = "transfer", Offset <= Page.size,
           NEW n \in Nat, n <= ToTransfer, Transferred(n),
           DOMAIN disk' = DOMAIN disk, \A i \in DOMAIN disk : i # Current => disk'[i] = disk[i],
           disk'[Current] \in [size : Nat, bytes : [Offsets -> Bytes]],
           disk'[Current].size = Larger(Page.size, Offset + n)
    PROVE  IInv'
<1> DEFINE c == Current
           z == Larger(Page.size, Offset + n)
           o == Offset + n
<1>1. c \in Indexes /\ pages[c].isOpen /\ PageIntact(c)
  BY DEF IInv, FileIntact
<1>2. pages[c] \in PageRecords /\ DOMAIN pages = Indexes /\ numPages \in Nat
  BY <1>1 DEF IInv, TypeOK, Indexes, PageRecords
<1>3. Offset \in 0 .. pageSize - 1 /\ position = c * pageSize + Offset /\ c \in Nat
      /\ pageSize \in Nat \ {0} /\ pageSize <= PageSize /\ call.rem \in Nat
  <2>1. Offset \in 0 .. pageSize - 1 /\ position = c * pageSize + Offset /\ c \in 0 .. numPages
    BY Place
  <2>2. pageSize \in Nat \ {0} /\ pageSize <= PageSize /\ call.rem \in Nat
    BY DEF IInv, TypeOK, FileIntact
  <2> HIDE DEF c
  <2>3. QED
    BY <2>1, <2>2, <1>2
<1>4. Page = pages[c] /\ Page.size \in Nat /\ Page.size <= pageSize
  BY <1>1, <1>2 DEF Page, PageRecords, PageIntact
<1>5. n <= call.rem /\ n <= pageSize - Offset
  BY <1>3 DEF ToTransfer, Smaller
<1>6. StreamAt = Offset
  BY <1>1, <1>3, <1>4 DEF StreamAt, AtPosition, PageIntact
<1>7. o \in Nat /\ o <= pageSize /\ z \in Nat /\ z <= pageSize /\ Page.size <= z /\ o <= z
      /\ o \in -1 .. PageSize
  BY <1>3, <1>4, <1>5, PageFileAssumption DEF Larger
<1>8. pages'[c] = [wasRemoved |-> pages[c].wasRemoved, isOpen |-> pages[c].isOpen,
                   wasOpenedBefore |-> pages[c].wasOpenedBefore, size |-> z, offset |-> o]
  <2>1. pages'[c] = [pages[c] EXCEPT !.offset = o, !.size = z]
    BY <1>1, <1>2 DEF Transferred
  <2> HIDE DEF z, o, c
  <2>2. QED
    BY <2>1, <1>2 DEF PageRecords
<1>9. pages' = [pages EXCEPT ![c] = pages'[c]]
  BY <1>1, <1>2 DEF Transferred
<1>10. at' = [at EXCEPT ![c] = o] /\ at \in [Indexes -> Nat]
  BY <1>6 DEF Transferred, IInv, TypeOK, Indexes
<1>11. /\ position' = position + n
       /\ UNCHANGED <<mode, pageSize, numPages, fds, numFileDescriptors>>
  BY DEF Transferred
<1>12. /\ pc' \in {"idle", "page"} /\ (pc' = "idle" => call' = NoCall)
       /\ call' \in [op : {"none", "read", "write", "truncate"}, rem : Nat, value : Bytes, page : Nat]
  <2>1. CASE Done(n)
    BY <2>1, CallTypes DEF Transferred, Return
  <2>2. CASE ~Done(n)
    <3>1. call.rem - n \in Nat
      BY <1>3, <1>5
    <3>2. pc' = "page" /\ call' = [call EXCEPT !.rem = call.rem - n]
      BY <2>2 DEF Transferred
    <3>3. call \in [op : {"none", "read", "write", "truncate"}, rem : Nat, value : Bytes, page : Nat]
      BY DEF IInv, TypeOK
    <3>4. QED
      BY <3>1, <3>2, <3>3
  <2>3. QED
    BY <2>1, <2>2
<1> HIDE DEF c, z, o
<1>13. position' \in Nat /\ position' <= PageFileSize'
  <2> DEFINE y == pages'[numPages - 1].size
  <2>1. c < numPages /\ numPages > 0 /\ numPages - 1 \in Indexes
    BY <1>1, <1>2, <1>3 DEF Indexes
  <2>2. y \in Nat /\ (c = numPages - 1 => o <= y)
    <3>1. CASE c = numPages - 1
      BY <3>1, <1>7, <1>8
    <3>2. CASE c # numPages - 1
      <4>1. y = pages[numPages - 1].size
        BY <3>2, <2>1, <1>2, <1>9
      <4>2. pages[numPages - 1] \in PageRecords
        BY <2>1 DEF IInv, TypeOK, Indexes, PageRecords
      <4>3. QED
        BY <3>2, <4>1, <4>2 DEF PageRecords
    <3>3. QED
      BY <3>1, <3>2
  <2>3. PageFileSize' = pageSize * (numPages - 1) + y
    BY <2>1, <1>2, <1>11 DEF PageFileSize
  <2> HIDE DEF y
  <2>4. c * pageSize + o <= pageSize * (numPages - 1) + y
    BY <2>1, <2>2, <1>2, <1>3, <1>7, Products
  <2>5. position' = c * pageSize + o
    <3>1. c * pageSize \in Nat
      BY <1>3
    <3>2. QED
      BY <3>1, <1>3, <1>11 DEF o
  <2>6. position' \in Nat
    BY <1>11 DEF IInv, TypeOK
  <2>7. QED
    BY <2>3, <2>4, <2>5, <2>6
<1>14. at' \in [Indexes -> Nat] /\ (\A i \in Indexes : i # c => at'[i] = at[i]) /\ at'[c] = o
  BY <1>1, <1>7, <1>10
<1>15. disk'[c].size = z
  BY DEF c, z
<1>16. pages[c].size <= z
  BY <1>4, <1>7
<1>17. QED
  BY <1>7, <1>8, <1>9, <1>11, <1>12, <1>13, <1>14, <1>15, <1>16, PageUsed DEF c

LEMMA WriteRefusedIInv == ASSUME IInv, WriteRefused PROVE IInv'
<1> USE DEF WriteRefused
<1>1. Current \in Indexes /\ pages[Current].isOpen /\ PageIntact(Current)
  BY DEF IInv, FileIntact
<1>2. Exists(Current) /\ disk[Current].size = Page.size /\ Page.size \in Nat
  BY <1>1 DEF PageIntact, Page, IInv, TypeOK, Indexes
<1>3. Offset \in 0 .. pageSize - 1 /\ call.rem \in Nat /\ pageSize \in Nat
  BY Place DEF IInv, TypeOK
<1>4. 0 <= ToTransfer /\ Larger(Page.size, Offset + 0) = Page.size
  BY <1>2, <1>3 DEF ToTransfer, Smaller, Larger
<1>5. disk[Current] \in [size : Nat, bytes : [Offsets -> Bytes]]
  BY <1>2 DEF IInv, TypeOK, Exists
<1>6. \A i \in DOMAIN disk : i # Current => disk'[i] = disk[i]
  OBVIOUS
<1>7. 0 \in Nat /\ Transferred(0)
  OBVIOUS
<1>8. QED
  BY <1>2, <1>4, <1>5, <1>6, <1>7, Transfer

LEMMA ReadFromPageIInv == ASSUME IInv, ReadFromPage PROVE IInv'
<1> USE DEF ReadFromPage
<1> DEFINE there == Larger(0, Smaller(ToTransfer, disk[Current].size - StreamAt))
<1>1. Current \in Indexes /\ pages[Current].isOpen /\ PageIntact(Current)
  BY DEF IInv, FileIntact
<1>2. Exists(Current) /\ disk[Current].size = Page.size /\ Page.size \in Nat
  BY <1>1 DEF PageIntact, Page, IInv, TypeOK, Indexes
<1>3. Offset \in 0 .. pageSize - 1 /\ call.rem \in Nat /\ pageSize \in Nat
  BY Place DEF IInv, TypeOK
<1>4. StreamAt = Offset
  BY <1>1, <1>3 DEF StreamAt, AtPosition, PageIntact, Page
<1>5. ToTransfer \in Nat
  BY <1>3 DEF ToTransfer, Smaller
<1>6. there \in Nat /\ there <= ToTransfer /\ Offset + there <= Page.size
  BY <1>2, <1>3, <1>4, <1>5 DEF Smaller, Larger
<1>7. PICK n \in IF "read" \in Failures THEN 0 .. there ELSE {there} : Transferred(n)
  OBVIOUS
<1> HIDE DEF there
<1>8. n \in Nat /\ n <= ToTransfer /\ Offset + n <= Page.size
  BY <1>3, <1>5, <1>6, <1>7, <1>2
<1>9. Larger(Page.size, Offset + n) = Page.size
  BY <1>2, <1>3, <1>8 DEF Larger
<1>10. disk[Current] \in [size : Nat, bytes : [Offsets -> Bytes]]
  BY <1>2 DEF IInv, TypeOK, Exists
<1>11. \A i \in DOMAIN disk : i # Current => disk'[i] = disk[i]
  OBVIOUS
<1>12. QED
  BY <1>2, <1>11, <1>7, <1>8, <1>9, <1>10, Transfer

LEMMA WriteToPageIInv == ASSUME IInv, WriteToPage PROVE IInv'
<1>1. PICK n \in IF "write" \in Failures THEN 0 .. ToTransfer ELSE {ToTransfer} :
          /\ Transferred(n)
          /\ disk' = [disk EXCEPT ![Current] =
                [size  |-> IF n = 0 THEN @.size ELSE Larger(@.size, StreamAt + n),
                 bytes |-> [o \in Offsets |->
                    IF StreamAt <= o /\ o < StreamAt + n
                    THEN IF Current * pageSize + o \in Watched THEN call.value ELSE Junk
                    ELSE disk[Current].bytes[o]]]]
  BY DEF WriteToPage
<1> DEFINE b == [o \in Offsets |->
                    IF StreamAt <= o /\ o < StreamAt + n
                    THEN IF Current * pageSize + o \in Watched THEN call.value ELSE Junk
                    ELSE disk[Current].bytes[o]]
<1>2. pc = "transfer" /\ Offset <= Page.size
  BY DEF WriteToPage
<1>3. Current \in Indexes /\ pages[Current].isOpen /\ PageIntact(Current)
  BY <1>2 DEF IInv, FileIntact
<1>4. Exists(Current) /\ disk[Current].size = Page.size /\ Page.size \in Nat
  BY <1>3 DEF PageIntact, Page, IInv, TypeOK, Indexes
<1>5. Offset \in 0 .. pageSize - 1 /\ call.rem \in Nat /\ pageSize \in Nat
  BY Place DEF IInv, TypeOK
<1>6. StreamAt = Offset
  BY <1>3, <1>5 DEF StreamAt, AtPosition, PageIntact, Page
<1>7. n \in Nat /\ n <= ToTransfer
  <2>1. ToTransfer \in Nat
    BY <1>5 DEF ToTransfer, Smaller
  <2>2. QED
    BY <2>1, <1>1
<1>8. disk[Current].bytes \in [Offsets -> Bytes] /\ call.value \in Bytes
  BY <1>4 DEF IInv, TypeOK, Exists
<1>9. b \in [Offsets -> Bytes]
  BY <1>8 DEF Bytes
<1> HIDE DEF b
<1>10. /\ disk'[Current] = [size |-> IF n = 0 THEN disk[Current].size
                                     ELSE Larger(disk[Current].size, StreamAt + n),
                            bytes |-> b]
       /\ DOMAIN disk' = DOMAIN disk
       /\ \A i \in DOMAIN disk : i # Current => disk'[i] = disk[i]
  BY <1>1, <1>4 DEF b, Exists
<1>11. disk'[Current].size = Larger(Page.size, Offset + n)
  BY <1>2, <1>4, <1>5, <1>6, <1>7, <1>10 DEF Larger
<1>12. disk'[Current] \in [size : Nat, bytes : [Offsets -> Bytes]]
  <2>1. Larger(Page.size, Offset + n) \in Nat
    BY <1>4, <1>5, <1>7 DEF Larger
  <2>2. QED
    BY <2>1, <1>9, <1>10, <1>11
<1>13. QED
  BY <1>1, <1>2, <1>7, <1>10, <1>11, <1>12, Transfer

-----------------------------------------------------------------------------
(* Truncation.                                                             *)
LEMMA TruncatePageIInv == ASSUME IInv, TruncatePage PROVE IInv'
<1> DEFINE p == call.page
<1>1. /\ pc = "truncate" /\ p < Current /\ pc' = pc /\ call' = [call EXCEPT !.page = @ + 1]
      /\ UNCHANGED <<mode, pageSize, position, numPages, numFileDescriptors, at>>
  BY DEF TruncatePage
<1>2. p \in Nat /\ call'.page = p + 1
      /\ call' \in [op : {"none", "read", "write", "truncate"}, rem : Nat, value : Bytes, page : Nat]
  <2>1. call \in [op : {"none", "read", "write", "truncate"}, rem : Nat, value : Bytes, page : Nat]
    BY DEF IInv, TypeOK
  <2>2. call' = [call EXCEPT !.page = call.page + 1]
    BY <1>1
  <2>3. QED
    BY <2>1, <2>2
<1>3. numPages \in Nat /\ Current \in 0 .. numPages
  BY Place DEF IInv, TypeOK
<1>4. p \in Indexes /\ 0 \in Indexes /\ (p < numPages - 1 \/ Current = numPages)
  BY <1>1, <1>2, <1>3 DEF Indexes
<1>5. PageIntact(p) /\ mode \in {"write", "modify"}
  BY <1>1, <1>4 DEF IInv, FileIntact
<1>6. Exists(p)
  BY <1>4, EarlierExist
<1>7. CASE pages[p].wasRemoved
  <2>1. UNCHANGED <<pages, fds, disk>>
    BY <1>7 DEF TruncatePage
  <2>2. pages[0].wasRemoved
    BY <1>5, <1>7 DEF PageIntact
  <2>3. position' \in Nat /\ position' <= PageFileSize
    BY <1>1 DEF IInv, FileIntact, TypeOK
  <2> HIDE DEF p
  <2>4. QED
    BY <2>1, <2>2, <2>3, <1>1, <1>2, <1>5, KeepPages
<1>8. CASE ~pages[p].wasRemoved
  <2>1. /\ pages' = [pages EXCEPT ![p].isOpen = FALSE, ![p].wasRemoved = TRUE]
        /\ IF pages[p].isOpen
           THEN \E k \in DOMAIN fds : fds[k] = p /\ fds' = Without(fds, k)
           ELSE UNCHANGED fds
        /\ disk' = [i \in DOMAIN disk |-> IF i = p THEN EmptyFile ELSE disk[i]]
    BY <1>8 DEF TruncatePage
  <2>2. DOMAIN pages = Indexes /\ \A i \in Indexes : pages[i] \in PageRecords
    BY DEF IInv, TypeOK, Indexes, PageRecords
  <2> HIDE DEF p
  <2>3. pages'[p] = [wasRemoved |-> TRUE, isOpen |-> FALSE, wasOpenedBefore |-> pages[p].wasOpenedBefore,
                     size |-> pages[p].size, offset |-> pages[p].offset]
    <3>1. pages'[p] = [pages[p] EXCEPT !.isOpen = FALSE, !.wasRemoved = TRUE] /\ pages[p] \in PageRecords
      BY <2>1, <2>2, <1>4
    <3>2. QED
      BY <3>1 DEF PageRecords
  <2>4. \A i \in Indexes : i # p => pages'[i] = pages[i]
    BY <2>1, <2>2
  <2>5. /\ DOMAIN disk' = DOMAIN disk /\ disk'[p] = EmptyFile
        /\ \A i \in DOMAIN disk : i # p => disk'[i] = disk[i]
    BY <2>1, <1>6 DEF Exists
  <2>6. EmptyFile.size = 0 /\ EmptyFile \in [size : Nat, bytes : [Offsets -> Bytes]]
    BY DEF EmptyFile, Bytes
  <2>7. \A i \in Indexes : pages'[i].size = pages[i].size
    BY <2>3, <2>4
  <2>8. pages'[0].wasRemoved
    <3>1. CASE p = 0
      BY <3>1, <2>3
    <3>2. CASE p # 0
      BY <3>2, <2>4, <1>1, <1>2, <1>4 DEF IInv, FileIntact, p
    <3>3. QED
      BY <3>1, <3>2
  <2>9. /\ fds' \in Seq(Indexes) /\ Distinct(fds') /\ Len(fds') <= Len(fds)
        /\ Entries(fds') = {i \in Indexes : pages'[i].isOpen}
    <3>1. fds \in Seq(Indexes) /\ Distinct(fds) /\ Entries(fds) = {i \in Indexes : pages[i].isOpen}
      <4>1. fds \in Seq(Indexes)
        BY DEF IInv, TypeOK, Indexes
      <4>2. QED
        BY <4>1, Descriptors DEF IInv
    <3>2. {i \in Indexes : pages'[i].isOpen} = {i \in Indexes : pages[i].isOpen} \ {p}
      BY <2>3, <2>4
    <3>3. CASE pages[p].isOpen
      <4>1. PICK k \in 1 .. Len(fds) : fds[k] = p /\ fds' = Without(fds, k)
        BY <3>1, <3>3, <2>1
      <4>2. /\ fds' \in Seq(Indexes) /\ Len(fds') = Len(fds) - 1 /\ Distinct(fds')
            /\ Entries(fds') = Entries(fds) \ {p}
        BY <4>1, <3>1, WithoutOne
      <4>3. Len(fds) \in Nat
        BY <3>1
      <4>4. QED
        BY <4>2, <4>3, <3>1, <3>2
    <3>4. CASE ~pages[p].isOpen
      <4>1. fds' = fds /\ Len(fds) \in Nat
        BY <3>1, <3>4, <2>1
      <4>2. QED
        BY <4>1, <3>1, <3>2, <3>4
    <3>5. QED
      BY <3>3, <3>4
  <2>10. TypeOK'
    <3>1. pages'[p] \in PageRecords
      BY <2>2, <2>3, <1>4 DEF PageRecords
    <3>2. \A i \in Indexes : pages'[i] \in PageRecords
      BY <3>1, <2>2, <2>4
    <3>3. DOMAIN pages' = Indexes /\ pages' = [i \in Indexes |-> pages'[i]]
      BY <2>1, <2>2
    <3>4. pages' \in [Indexes -> PageRecords]
      <4> HIDE DEF PageRecords
      <4>1. QED
        BY <3>2, <3>3
    <3>5. NumFiles' = NumFiles
      BY <2>5 DEF NumFiles
    <3>6. \A i \in DOMAIN disk' : disk'[i] \in [size : Nat, bytes : [Offsets -> Bytes]]
      BY <2>5, <2>6 DEF IInv, TypeOK
    <3>7. QED
      BY <3>4, <3>5, <3>6, <2>5, <2>9, <1>1, <1>2 DEF IInv, TypeOK, Indexes, PageRecords
  <2>11. ASSUME NEW i \in Indexes' PROVE PageIntact(i)'
    <3>1. i \in Indexes /\ PageIntact(i)
      BY <1>1 DEF Indexes, IInv
    <3>2. CASE i # p
      <4>1. pages'[i] = pages[i] /\ (i \in DOMAIN disk => disk'[i] = disk[i])
        BY <3>1, <3>2, <2>4, <2>5
      <4>2. pages[i].wasRemoved => i \in DOMAIN disk
        BY <3>1 DEF PageIntact, Exists
      <4>3. QED
        BY <4>1, <4>2, <3>1, <2>5, <2>8, <1>1 DEF PageIntact, Exists
    <3>3. CASE i = p
      <4>1. /\ pages'[i].wasRemoved /\ ~pages'[i].isOpen /\ pages'[i].size = pages[i].size
            /\ pages'[i].wasOpenedBefore = pages[i].wasOpenedBefore
        BY <3>3, <2>3
      <4>2. i \in DOMAIN disk /\ i \in DOMAIN disk' /\ disk'[i].size = 0
        BY <3>3, <2>5, <2>6, <1>6 DEF Exists
      <4>3. QED
        BY <4>1, <4>2, <3>1, <2>8, <1>1 DEF PageIntact, Exists
    <3>4. QED
      BY <3>2, <3>3
  <2>12. FileIntact'
    <3>1. Indexes' = Indexes
      BY <1>1 DEF Indexes
    <3>2. PageFileSize' = PageFileSize
      BY <2>7, <1>1, <1>3, <1>4 DEF PageFileSize, Indexes
    <3>3. QED
      BY <3>1, <3>2, <2>5, <2>8, <1>1, <1>2, <1>5 DEF IInv, FileIntact
  <2>13. FilesFull'
    BY <2>5, <2>6, <1>1, <1>5, PageFileAssumption DEF IInv, FilesFull
  <2>14. DescriptorsMatch'
    BY <2>9, <1>1 DEF DescriptorsMatch, Distinct, Entries, Indexes
  <2>15. CountBounds'
    <3>1. fds \in Seq(Indexes) /\ numFileDescriptors \in Nat
      BY DEF IInv, TypeOK, Indexes
    <3>2. Len(fds) \in Nat /\ Len(fds') \in Nat
      BY <3>1, <2>9
    <3>3. QED
      BY <3>1, <3>2, <2>9, <1>1 DEF IInv, CountBounds
  <2>16. QED
    BY <2>10, <2>11, <2>12, <2>13, <2>14, <2>15 DEF IInv
<1>9. QED
  BY <1>7, <1>8

-----------------------------------------------------------------------------
LEMMA NextIInv == ASSUME NoStaleFiles PROVE IInv /\ [Next]_vars => IInv'
<1> SUFFICES ASSUME IInv, [Next]_vars PROVE IInv'
  OBVIOUS
<1>1. CASE UNCHANGED vars
  <2>1. UNCHANGED <<fileVars, disk, at, pc, call>>
    BY <1>1 DEF vars, fileVars
  <2>2. TypeOK' /\ FilesFull' /\ DescriptorsMatch' /\ CountBounds'
    <3>1. TypeOK'
      BY <2>1 DEF IInv, TypeOK, NumFiles, fileVars
    <3>2. FilesFull' /\ CountBounds'
      BY <2>1 DEF IInv, FilesFull, Exists, CountBounds, fileVars
    <3>3. DescriptorsMatch'
      BY <2>1 DEF IInv, DescriptorsMatch, Current, fileVars
    <3>4. QED
      BY <3>1, <3>2, <3>3
  <2>3. \A i \in Indexes' : PageIntact(i)'
    BY <2>1 DEF IInv, PageIntact, Indexes, Exists, fileVars
  <2>4. FileIntact'
    <3>1. PageFileSize' = PageFileSize /\ Indexes' = Indexes /\ Current' = Current /\ (Closed => Closed')
      BY <2>1 DEF PageFileSize, Indexes, Current, Closed, fileVars
    <3>2. QED
      BY <2>1, <3>1 DEF IInv, FileIntact, fileVars
  <2>5. QED
    BY <2>2, <2>3, <2>4 DEF IInv
<1>2. CASE OpenNew
  BY <1>2, OpenNewIInv
<1>3. CASE \E m \in {"read", "modify"} : OpenExisting(m)
  BY <1>3, OpenExistingIInv
<1>4. CASE Close
  BY <1>4, CloseIInv
<1>5. CASE Remove
  BY <1>5, RemoveIInv
<1>6. CASE \E n \in 1 .. MaxCount : Read(n)
  BY <1>6, ReadIInv
<1>7. CASE \E n \in 1 .. MaxCount, v \in Values : Write(n, v)
  BY <1>7, WriteIInv
<1>8. CASE \E p \in 0 .. MaxSize : Seek(p)
  BY <1>8, SeekIInv
<1>9. CASE ForwardTruncate
  BY <1>9, ForwardTruncateIInv
<1>10. CASE NoPage
  BY <1>10, ReturnIInv DEF NoPage
<1>11. CASE UseDescriptor
  BY <1>11, UseDescriptorIInv
<1>12. CASE OpenCrashes
  BY <1>12, OpenCrashesIInv
<1>13. CASE OpenFile
  BY <1>13, OpenFileIInv
<1>14. CASE OpenFileFails
  BY <1>14, OpenFileFailsIInv
<1>15. CASE SeekFails
  BY <1>15, SeekFailsIInv
<1>16. CASE ReadFromPage
  BY <1>16, ReadFromPageIInv
<1>17. CASE WriteToPage
  BY <1>17, WriteToPageIInv
<1>18. CASE WriteRefused
  BY <1>18, WriteRefusedIInv
<1>19. CASE TruncatePage
  BY <1>19, TruncatePageIInv
<1>20. CASE TruncateReturns
  BY <1>20, ReturnIInv DEF TruncateReturns
<1>21. QED
  BY <1>1, <1>2, <1>3, <1>4, <1>5, <1>6, <1>7, <1>8, <1>9, <1>10, <1>11, <1>12, <1>13,
     <1>14, <1>15, <1>16, <1>17, <1>18, <1>19, <1>20 DEF Next, ClientCall, Step

THEOREM Invariance == ASSUME NoStaleFiles PROVE Spec => []IInv
BY InitIInv, NextIInv, PTL DEF Spec

(* The fields of the file are always of their types.                       *)
THEOREM TypeCorrect == ASSUME NoStaleFiles PROVE Spec => []TypeOK
<1>1. IInv => TypeOK
  BY DEF IInv
<1>2. QED
  BY <1>1, Invariance, PTL

(* The list of descriptors and the pages' pointers into it agree, whatever *)
(* page files are opened, closed, truncated or fail to open, and the page  *)
(* that a transfer is about to use is open.                                *)
THEOREM MatchAlways == ASSUME NoStaleFiles PROVE Spec => []DescriptorsMatch
<1>1. IInv => DescriptorsMatch
  BY DEF IInv
<1>2. QED
  BY <1>1, Invariance, PTL

(* Never more than MAX_FILE_DESCRIPTORS page files are open.               *)
THEOREM BoundedAlways == ASSUME NoStaleFiles PROVE Spec => []DescriptorsBounded
<1>1. IInv => DescriptorsBounded
  BY PageFileAssumption DEF IInv, TypeOK, CountBounds, DescriptorsBounded
<1>2. QED
  BY <1>1, Invariance, PTL

(* Every page but the last is full, and the size that the code keeps of a  *)
(* page is that of its page file.                                          *)
THEOREM FullAlways == ASSUME NoStaleFiles PROVE Spec => []PagesFull
<1>1. IInv => PagesFull
  BY DEF IInv, PageIntact, Indexes, Exists, PagesFull, FileExists
<1>2. QED
  BY <1>1, Invariance, PTL

-----------------------------------------------------------------------------
(* The page files are one file: what a client sees of them changes only as *)
(* the abstract file may.                                                  *)
Content(i, o) == IF Exists(i) THEN disk[i].bytes[o] ELSE Junk
SameFile == ViewSize' = ViewSize /\ View' = View
FileStep == [File!FileNext \/ Recreated \/ FrontTruncated \/ TruncatedClosed]_<<ViewSize, View, position>>

(* The value of a write is one that the client gave.                       *)
ValueGiven == call.op = "write" => call.value \in Values

LEMMA ValueGivenNext == ASSUME IInv PROVE ValueGiven /\ [Next]_vars => ValueGiven'
<1> SUFFICES ASSUME ValueGiven, [Next]_vars PROVE ValueGiven'
  OBVIOUS
<1> DEFINE Record == [op : {"none", "read", "write", "truncate"}, rem : Nat, value : Bytes, page : Nat]
<1>1. call \in Record
  BY DEF IInv, TypeOK
<1>2. CASE call' = call
  BY <1>2 DEF ValueGiven
<1>3. CASE call' = NoCall
  BY <1>3 DEF ValueGiven, NoCall
<1>4. ASSUME NEW n \in 1 .. MaxCount, Read(n) PROVE ValueGiven'
  BY <1>4 DEF Read, NoCall, ValueGiven
<1>5. ASSUME NEW n \in 1 .. MaxCount, NEW v \in Values, Write(n, v) PROVE ValueGiven'
  BY <1>5 DEF Write, NoCall, ValueGiven
<1>6. CASE ForwardTruncate
  BY <1>6 DEF ForwardTruncate, NoCall, ValueGiven
<1>7. CASE TruncatePage
  <2>1. call' = [call EXCEPT !.page = call.page + 1]
    BY <1>7 DEF TruncatePage
  <2>2. call'.op = call.op /\ call'.value = call.value
    BY <2>1, <1>1
  <2>3. QED
    BY <2>2 DEF ValueGiven
<1>8. ASSUME NEW n, Transferred(n) PROVE ValueGiven'
  <2>1. CASE call' = [call EXCEPT !.rem = call.rem - n]
    <3>1. call'.op = call.op /\ call'.value = call.value
      BY <2>1, <1>1
    <3>2. QED
      BY <3>1 DEF ValueGiven
  <2>2. QED
    BY <2>1, <1>3, <1>8 DEF Transferred, Return
<1>9. CASE ReadFromPage \/ WriteToPage \/ WriteRefused
  BY <1>8, <1>9 DEF ReadFromPage, WriteToPage, WriteRefused
<1>10. QED
  BY <1>2, <1>3, <1>4, <1>5, <1>6, <1>7, <1>9
     DEF Next, ClientCall, Step, vars, fileVars, OpenNew, OpenExisting, Close, Remove, Seek, NoPage,
         UseDescriptor, OpenCrashes, OpenFile, OpenFileFails, SeekFails, TruncateReturns, Return

LEMMA ViewKept ==
    ASSUME ViewSize' = ViewSize,
           \A w \in Watched : Content(w \div PageSize, w % PageSize)' = Content(w \div PageSize, w % PageSize)
    PROVE  SameFile
<1>1. \A w \in Watched : ViewByte(w)' = ViewByte(w)
  BY DEF ViewByte, Content, Exists, FileExists
<1>2. QED
  BY <1>1 DEF View, SameFile

LEMMA DiskKept == ASSUME ViewSize' = ViewSize, disk' = disk PROVE SameFile
BY ViewKept DEF Content, Exists

(* A page's size is what the size of the file depends on.                  *)
LEMMA SizeKept ==
    ASSUME IInv, UNCHANGED <<mode, pageSize, numPages>>, NumFiles' = NumFiles,
           \A i \in Indexes : pages'[i].size = pages[i].size, mode # "closed"
    PROVE  ViewSize' = ViewSize
<1>1. numPages \in Nat
  BY DEF IInv, TypeOK
<1>2. numPages > 0 => numPages - 1 \in Indexes
  BY <1>1 DEF Indexes
<1>3. QED
  BY <1>1, <1>2 DEF ViewSize, PageFileSize

LEMMA Sought == ASSUME SameFile, IInv' PROVE FileStep
<1>1. position' \in Nat
  BY DEF IInv, TypeOK
<1>2. File!Seek(position')
  BY <1>1 DEF File!Seek, SameFile
<1>3. QED
  BY <1>2 DEF FileStep, File!FileNext

-----------------------------------------------------------------------------
(* Making, opening, closing and removing the file.                         *)
LEMMA OpenNewRecreates == ASSUME IInv, OpenNew PROVE Recreated
<1>1. numPages = 0 /\ position = 0
  BY DEF IInv, FileIntact, Closed, OpenNew
<1>2. ViewSize' = 0 /\ position' = 0
  BY <1>1 DEF OpenNew, ViewSize, PageFileSize
<1>3. QED
  BY <1>2 DEF Recreated

LEMMA RemoveRecreates == ASSUME IInv, Remove PROVE Recreated
<1>1. position' = 0 /\ mode' = "closed"
  BY DEF IInv, FileIntact, Closed, Remove, fileVars
<1>2. DOMAIN disk' = 0 .. 0 - 1
  BY Empty DEF Remove
<1>3. NumFiles' = 0
  BY <1>2, FilesCountedNext
<1>4. QED
  BY <1>1, <1>3 DEF Recreated, ViewSize

LEMMA OpenExistingKeeps == ASSUME IInv, NEW m \in {"read", "modify"}, OpenExisting(m) PROVE SameFile
<1> DEFINE n == NumFiles
           z == disk[n - 1].size
<1>1. mode = "closed" /\ mode' # "closed" /\ n \in Nat \ {0} /\ DOMAIN disk = 0 .. n - 1
      /\ numPages' = n /\ disk' = disk /\ PageSize \in Nat
  BY PageFileAssumption DEF OpenExisting, IInv, TypeOK
<1>2. pages'[n - 1].size = z /\ z \in Nat
  <2>1. n - 1 \in 0 .. n - 1
    BY <1>1
  <2>2. pages'[n - 1] = [NewPage EXCEPT !.size = z]
    BY <2>1 DEF OpenExisting
  <2>3. disk[n - 1] \in [size : Nat, bytes : [Offsets -> Bytes]]
    BY <1>1, <2>1 DEF IInv, TypeOK
  <2>4. QED
    BY <2>2, <2>3 DEF NewPage
<1>3. n = 1 \/ pageSize' = PageSize
  <2>1. CASE m = "modify"
    BY <2>1 DEF OpenExisting
  <2>2. CASE m = "read" /\ n # 1
    <3>1. 0 \in DOMAIN disk /\ Exists(0 + 1) /\ disk[0].size > 0
      BY <1>1, <2>2 DEF OpenExisting, Exists
    <3>2. disk[0].size = PageSize
      BY <1>1, <3>1 DEF IInv, FilesFull
    <3>3. QED
      BY <3>2, <2>2 DEF OpenExisting
  <2>3. QED
    BY <2>1, <2>2
<1>4. pageSize' \in Nat
  BY OpenExistingIInv DEF IInv, TypeOK
<1>5. ViewSize = (n - 1) * PageSize + z /\ ViewSize' = pageSize' * (n - 1) + z
  BY <1>1, <1>2 DEF ViewSize, PageFileSize
<1> HIDE DEF n, z
<1>6. ViewSize' = ViewSize
  <2>1. CASE n = 1
    <3>1. n - 1 = 0
      BY <2>1
    <3>2. 0 * PageSize + z = z /\ pageSize' * 0 + z = z
      <4>1. \A x \in Nat, k \in Nat : 0 * x + k = k /\ x * 0 + k = k
        OBVIOUS
      <4>2. QED
        BY <4>1, <1>1, <1>2, <1>4
    <3>3. QED
      BY <3>1, <3>2, <1>5
  <2>2. CASE pageSize' = PageSize
    <3>1. (n - 1) * PageSize = PageSize * (n - 1)
      BY <1>1
    <3>2. QED
      BY <3>1, <2>2, <1>5
  <2>3. QED
    BY <2>1, <2>2, <1>3
<1>7. QED
  BY <1>1, <1>6, DiskKept

(* The page files of a file that was not truncated hold all of it when it  *)
(* is closed, also when the last page has none yet.                        *)
LEMMA CloseKeeps ==
    ASSUME IInv, Close, \A i \in Indexes : ~pages[i].wasRemoved PROVE SameFile
<1> DEFINE n == numPages
           f == NumFiles
           z == pages[n - 1].size
           y == disk[f - 1].size
<1>1. n \in Nat /\ f \in Nat /\ DOMAIN disk = 0 .. f - 1 /\ PageSize \in Nat /\ pageSize \in Nat
      /\ mode # "closed" /\ mode' = "closed" /\ disk' = disk
  BY PageFileAssumption DEF IInv, TypeOK, Close
<1>2. DOMAIN disk \subseteq 0 .. n - 1
  BY DEF Close, IInv, FileIntact, Indexes
<1>3. \A i \in 0 .. n - 1 : i < n - 1 => i \in 0 .. f - 1
  BY <1>1, EarlierExist DEF Indexes, Exists
<1>4. /\ ViewSize = (IF n = 0 THEN 0 ELSE pageSize * (n - 1) + z)
      /\ ViewSize' = (IF f = 0 THEN 0 ELSE (f - 1) * PageSize + y)
  <2>1. ViewSize = (IF n = 0 THEN 0 ELSE pageSize * (n - 1) + z)
    BY <1>1 DEF ViewSize, PageFileSize
  <2>2. NumFiles' = f
    BY <1>1, FilesCountedNext
  <2>3. ViewSize' = (IF f = 0 THEN 0 ELSE (f - 1) * PageSize + y)
    BY <2>2, <1>1 DEF ViewSize
  <2>4. QED
    BY <2>1, <2>3
<1>5. n > 1 => pageSize = PageSize
  BY DEF IInv, FileIntact
<1>6. n > 0 => z \in Nat
  <2>1. n > 0 => n - 1 \in Indexes
    BY <1>1 DEF Indexes
  <2>2. QED
    BY <2>1 DEF IInv, TypeOK, Indexes
<1>7. CASE n = 0
  <2>1. f = 0
    <3>1. f > 0 => 0 \in 0 .. f - 1
      BY <1>1
    <3>2. QED
      BY <3>1, <1>1, <1>2, <1>7
  <2>2. QED
    BY <2>1, <1>1, <1>4, <1>7, DiskKept
<1>8. CASE n > 0 /\ Exists(n - 1)
  <2>1. f = n
    <3>1. n - 1 <= f - 1 /\ f - 1 <= n - 1
      <4>1. n - 1 \in 0 .. f - 1 /\ f - 1 \in 0 .. f - 1
        BY <1>1, <1>8 DEF Exists
      <4>2. QED
        BY <4>1, <1>1, <1>2
    <3>2. QED
      BY <3>1, <1>1
  <2>2. y = z
    <3>1. n - 1 \in Indexes
      BY <1>1, <1>8 DEF Indexes
    <3>2. QED
      BY <3>1, <2>1, <1>8 DEF IInv, PageIntact
  <2> HIDE DEF n, f, y, z
  <2>3. ViewSize' = ViewSize
    BY <2>1, <2>2, <1>1, <1>4, <1>5, <1>6, <1>8
  <2>4. QED
    BY <2>3, <1>1, DiskKept
<1>9. CASE n > 0 /\ ~Exists(n - 1)
  <2>1. f = n - 1
    <3>1. n - 1 > f - 1
      BY <1>1, <1>9 DEF Exists
    <3>2. n > 1 => n - 2 <= f - 1
      <4>1. n > 1 => n - 2 \in 0 .. f - 1
        BY <1>1, <1>3
      <4>2. QED
        BY <4>1, <1>1
    <3>3. QED
      BY <3>1, <3>2, <1>1
  <2>2. z = 0
    BY <1>1, <1>9 DEF Indexes, IInv, PageIntact
  <2>3. f > 0 => y = PageSize
    <3>1. f > 0 => f - 1 \in Indexes /\ f - 1 < numPages - 1 /\ Exists(f - 1)
      BY <2>1, <1>1 DEF Indexes, Exists
    <3>2. f > 0 => disk[f - 1].size = pages[f - 1].size /\ pages[f - 1].size = pageSize
      BY <3>1 DEF IInv, PageIntact
    <3>3. QED
      BY <3>2, <2>1, <1>1, <1>5
  <2> HIDE DEF n, f, y, z
  <2>4. ViewSize' = ViewSize
    <3>1. CASE f = 0
      BY <3>1, <2>1, <2>2, <1>1, <1>4, <1>9
    <3>2. CASE f > 0
      <4>1. (f - 1) * PageSize + PageSize = f * PageSize
        BY <1>1
      <4>2. ViewSize = PageSize * f + 0 /\ ViewSize' = (f - 1) * PageSize + PageSize
        BY <3>2, <2>1, <2>2, <2>3, <1>1, <1>4, <1>5, <1>9
      <4>3. PageSize * f + 0 = f * PageSize
        BY <1>1
      <4>4. QED
        BY <4>1, <4>2, <4>3
    <3>3. QED
      BY <3>1, <3>2, <1>1
  <2>5. QED
    BY <2>4, <1>1, DiskKept
<1>10. QED
  BY <1>1, <1>7, <1>8, <1>9

-----------------------------------------------------------------------------
(* Opening a page adds an empty page at most, and empties no file that is  *)
(* part of the file already.                                               *)
LEMMA OpenedKeepsSize ==
    ASSUME IInv, NeedsDescriptor, ~(TooMany /\ fds = <<>>),
           UNCHANGED <<mode, pageSize>>, numPages' = Opened,
           \A i \in Indexes : pages'[i].size = pages[i].size,
           Current = numPages => pages'[Current].size = 0
    PROVE  ViewSize' = ViewSize
<1> DEFINE n == numPages
           s == pageSize
           z == pages[n - 1].size
<1>1. /\ n \in Nat /\ Opened \in Nat /\ s \in Nat /\ mode # "closed"
      /\ Opened = n \/ (Opened = n + 1 /\ Current = n)
      /\ Current \in 0 .. Opened - 1
  BY Opening DEF IInv, TypeOK
<1>2. CASE Opened = n
  <2>1. n > 0 /\ n - 1 \in Indexes
    BY <1>1, <1>2 DEF Indexes
  <2>2. QED
    BY <2>1, <1>1, <1>2 DEF ViewSize, PageFileSize
<1>3. CASE Opened = n + 1
  <2>1. Current = n /\ numPages' - 1 = n /\ numPages' # 0
    BY <1>1, <1>3
  <2>2. ViewSize' = s * n + 0
    BY <2>1, <1>1 DEF ViewSize, PageFileSize
  <2>3. ViewSize = IF n = 0 THEN 0 ELSE s * (n - 1) + z
    BY <1>1 DEF ViewSize, PageFileSize
  <2>4. n > 0 => z = s
    BY <2>1, Place
  <2> HIDE DEF n, s, z
  <2>5. CASE n = 0
    <3>1. s * 0 + 0 = 0
      BY <1>1
    <3>2. QED
      BY <3>1, <2>2, <2>3, <2>5
  <2>6. CASE n > 0
    <3>1. s * n + 0 = s * (n - 1) + s
      BY <1>1
    <3>2. QED
      BY <3>1, <2>2, <2>3, <2>4, <2>6
  <2>7. QED
    BY <2>5, <2>6, <1>1
<1>4. QED
  BY <1>1, <1>2, <1>3

LEMMA PageSizesToOpen ==
    ASSUME IInv, NeedsDescriptor, ~(TooMany /\ fds = <<>>)
    PROVE  /\ \A i \in Indexes : PagesToOpen[i].size = pages[i].size
                                 /\ PagesToOpen[i].wasOpenedBefore = pages[i].wasOpenedBefore
           /\ Current = numPages => PagesToOpen[Current].size = 0
<1>1. ASSUME NEW i \in Indexes
      PROVE  PagesToOpen[i].size = pages[i].size /\ PagesToOpen[i].wasOpenedBefore = pages[i].wasOpenedBefore
  <2>1. PagesToOpen[i] = [wasRemoved |-> pages[i].wasRemoved, isOpen |-> PagesToOpen[i].isOpen,
                          wasOpenedBefore |-> pages[i].wasOpenedBefore,
                          size |-> pages[i].size, offset |-> pages[i].offset]
    BY OpeningPages
  <2>2. QED
    BY <2>1
<1>2. Current = numPages => PagesToOpen[Current].size = 0
  BY OpeningPages DEF NewPage
<1>3. QED
  BY <1>1, <1>2

LEMMA OpenFileFailsKeeps == ASSUME IInv, OpenFileFails PROVE SameFile
<1>1. /\ NeedsDescriptor /\ ~(TooMany /\ fds = <<>>)
      /\ UNCHANGED <<mode, pageSize, disk>> /\ numPages' = Opened /\ pages' = PagesToOpen
  BY DEF OpenFileFails, Opened
<1>2. /\ \A i \in Indexes : pages'[i].size = pages[i].size
      /\ Current = numPages => pages'[Current].size = 0
  BY <1>1, PageSizesToOpen
<1>3. QED
  BY <1>1, <1>2, OpenedKeepsSize, DiskKept

LEMMA OpenFileKeeps == ASSUME IInv, OpenFile PROVE SameFile
<1> DEFINE c == Current
<1>1. /\ NeedsDescriptor /\ ~(TooMany /\ fds = <<>>)
      /\ UNCHANGED <<mode, pageSize>> /\ numPages' = Opened
      /\ pages' = [PagesToOpen EXCEPT ![c].isOpen = TRUE, ![c].wasOpenedBefore = TRUE, ![c].offset = 0]
      /\ disk' = [i \in DOMAIN disk \cup {c} |->
                     IF i = c /\ Emptied(PagesToOpen[i]) THEN EmptyFile ELSE disk[i]]
  BY DEF OpenFile, Opened
<1>2. /\ \A i \in Indexes : PagesToOpen[i].size = pages[i].size
                            /\ PagesToOpen[i].wasOpenedBefore = pages[i].wasOpenedBefore
      /\ c = numPages => PagesToOpen[c].size = 0
  BY <1>1, PageSizesToOpen
<1>3. c \in 0 .. Opened - 1 /\ Indexes \subseteq 0 .. Opened - 1 /\ mode # "closed"
      /\ (c = numPages \/ c \in Indexes) /\ numPages \notin Indexes
  BY <1>1, Opening DEF Indexes
<1>4. \A i \in 0 .. Opened - 1 : pages'[i].size = PagesToOpen[i].size
  <2>1. PagesToOpen = [i \in 0 .. Opened - 1 |-> PagesToOpen[i]]
    BY <1>1, OpeningPages
  <2>2. \A i \in 0 .. Opened - 1 : i # c => pages'[i] = PagesToOpen[i]
    BY <2>1, <1>1
  <2>3. pages'[c] = [PagesToOpen[c] EXCEPT !.isOpen = TRUE, !.wasOpenedBefore = TRUE, !.offset = 0]
    BY <2>1, <1>1, <1>3
  <2>4. PagesToOpen[c] \in PageRecords
    <3>1. CASE c = numPages
      <4>1. PagesToOpen[c] = NewPage
        BY <3>1, <1>1, OpeningPages
      <4>2. NewPage \in PageRecords
        BY PageFileAssumption DEF NewPage, PageRecords
      <4>3. QED
        BY <4>1, <4>2
    <3>2. CASE c \in Indexes
      <4>1. PagesToOpen[c] = [wasRemoved |-> pages[c].wasRemoved, isOpen |-> PagesToOpen[c].isOpen,
                              wasOpenedBefore |-> pages[c].wasOpenedBefore,
                              size |-> pages[c].size, offset |-> pages[c].offset]
            /\ PagesToOpen[c].isOpen \in BOOLEAN
        BY <3>2, <1>1, OpeningPages
      <4>2. pages[c] \in PageRecords
        BY <3>2 DEF IInv, TypeOK, Indexes, PageRecords
      <4> HIDE DEF c
      <4>3. QED
        BY <4>1, <4>2 DEF PageRecords
    <3>3. QED
      BY <3>1, <3>2, <1>3
  <2> HIDE DEF c
  <2>5. pages'[c].size = PagesToOpen[c].size
    BY <2>3, <2>4 DEF PageRecords
  <2>6. QED
    BY <2>2, <2>5
<1>5. ViewSize' = ViewSize
  BY <1>1, <1>2, <1>3, <1>4, OpenedKeepsSize
<1>6. Exists(c) => ~Emptied(PagesToOpen[c])
  <2> SUFFICES ASSUME Exists(c) PROVE ~Emptied(PagesToOpen[c])
    OBVIOUS
  <2>1. c \in Indexes
    BY <1>3 DEF IInv, FileIntact, Exists
  <2>2. mode = "write" => pages[c].wasOpenedBefore
    BY <2>1 DEF IInv, PageIntact
  <2>3. QED
    BY <2>1, <2>2, <1>2 DEF Emptied, FileExists, Exists
<1>7. ASSUME NEW i, NEW o \in Offsets PROVE Content(i, o)' = Content(i, o)
  <2>1. CASE Exists(i)
    <3>1. i \in DOMAIN disk' /\ disk'[i] = disk[i]
      BY <2>1, <1>1, <1>6 DEF Exists
    <3>2. QED
      BY <2>1, <3>1 DEF Content, Exists
  <2>2. CASE ~Exists(i) /\ i = c
    <3>1. disk'[c] = EmptyFile /\ c \in DOMAIN disk'
      BY <2>2, <1>1 DEF Emptied, FileExists, Exists
    <3>2. disk'[c].bytes[o] = Junk
      BY <3>1 DEF EmptyFile
    <3>3. QED
      BY <2>2, <3>1, <3>2 DEF Content, Exists
  <2>3. CASE ~Exists(i) /\ i # c
    <3>1. i \notin DOMAIN disk'
      BY <2>3, <1>1 DEF Exists
    <3>2. QED
      BY <2>3, <3>1 DEF Content, Exists
  <2>4. QED
    BY <2>1, <2>2, <2>3
<1>8. \A w \in Watched : w % PageSize \in Offsets
  BY PageFileAssumption DEF Offsets
<1>9. QED
  BY <1>5, <1>7, <1>8, ViewKept

-----------------------------------------------------------------------------
(* Using a page.                                                           *)
LEMMA SeekFailsKeeps == ASSUME IInv, SeekFails PROVE SameFile
<1> DEFINE c == Current
<1>1. c \in Indexes /\ UNCHANGED <<mode, pageSize, numPages, disk>> /\ mode # "closed"
      /\ pages' = [pages EXCEPT ![c].offset = OffsetAfterFailedSeek]
  BY DEF SeekFails, IInv, FileIntact, Closed
<1>2. pages \in [Indexes -> PageRecords]
  BY DEF IInv, TypeOK, Indexes, PageRecords
<1>3. \A i \in Indexes : pages'[i].size = pages[i].size
  <2> SUFFICES ASSUME NEW i \in Indexes PROVE pages'[i].size = pages[i].size
    OBVIOUS
  <2>1. pages[i] \in PageRecords
    BY <1>2
  <2>2. pages'[i] = IF i = c THEN [pages[i] EXCEPT !.offset = OffsetAfterFailedSeek] ELSE pages[i]
    BY <1>1, <1>2
  <2> HIDE DEF c
  <2>3. QED
    BY <2>1, <2>2 DEF PageRecords
<1>4. NumFiles' = NumFiles
  BY <1>1 DEF NumFiles
<1>5. QED
  BY <1>1, <1>3, <1>4, SizeKept, DiskKept

(* The page after n bytes were transferred.                                *)
LEMMA TransferredSize ==
    ASSUME IInv, pc = "transfer", NEW n \in Nat, Transferred(n)
    PROVE  /\ Current \in Indexes /\ Exists(Current) /\ ~pages[Current].wasRemoved /\ mode # "closed"
           /\ Page = pages[Current] /\ Page.size \in Nat /\ Page.size <= pageSize
           /\ disk[Current].size = Page.size
           /\ disk[Current] \in [size : Nat, bytes : [Offsets -> Bytes]]
           /\ StreamAt = Offset
           /\ UNCHANGED <<mode, pageSize, numPages>> /\ position' = position + n
           /\ pages'[Current].size = Larger(Page.size, Offset + n)
           /\ \A i \in Indexes : i # Current => pages'[i].size = pages[i].size
<1> DEFINE c == Current
<1>1. c \in Indexes /\ PageIntact(c) /\ pages[c].isOpen /\ mode # "closed"
  BY DEF IInv, FileIntact, Closed
<1>2. Exists(c) /\ ~pages[c].wasRemoved /\ disk[c].size = pages[c].size
      /\ disk[c] \in [size : Nat, bytes : [Offsets -> Bytes]] /\ pages[c].size <= pageSize
  BY <1>1 DEF PageIntact, IInv, TypeOK, Exists
<1>3. pages \in [Indexes -> PageRecords]
  BY DEF IInv, TypeOK, Indexes, PageRecords
<1>4. StreamAt = Offset
  <2>1. Offset \in 0 .. pageSize - 1
    BY Place
  <2>2. QED
    BY <1>1, <2>1 DEF StreamAt, AtPosition, PageIntact, Page
<1>5. pages' = [pages EXCEPT ![c].offset = Offset + n, ![c].size = Larger(Page.size, Offset + n)]
      /\ UNCHANGED <<mode, pageSize, numPages>> /\ position' = position + n
  BY DEF Transferred
<1>6. pages'[c].size = Larger(Page.size, Offset + n)
  <2>1. pages'[c] = [pages[c] EXCEPT !.offset = Offset + n, !.size = Larger(Page.size, Offset + n)]
    BY <1>1, <1>3, <1>5
  <2>2. pages[c] \in PageRecords
    BY <1>1, <1>3
  <2> HIDE DEF c
  <2>3. QED
    BY <2>1, <2>2 DEF PageRecords
<1>7. \A i \in Indexes : i # c => pages'[i].size = pages[i].size
  BY <1>3, <1>5
<1>8. Page = pages[c] /\ Page.size \in Nat
  BY <1>1, <1>2 DEF Page
<1>9. QED
  BY <1>1, <1>2, <1>4, <1>5, <1>6, <1>7, <1>8

(* Nothing is read from beyond the end of the page.                        *)
LEMMA TransferKeeps ==
    ASSUME IInv, pc = "transfer", NEW n \in Nat, Transferred(n), Offset + n <= Page.size,
           disk' = disk
    PROVE  SameFile
<1>1. Offset \in 0 .. pageSize - 1 /\ pageSize \in Nat
  BY Place DEF IInv, TypeOK
<1>2. Page.size \in Nat
  BY TransferredSize
<1>3. Larger(Page.size, Offset + n) = Page.size
  BY <1>1, <1>2 DEF Larger
<1>4. \A i \in Indexes : pages'[i].size = pages[i].size
  BY <1>3, TransferredSize
<1>5. UNCHANGED <<mode, pageSize, numPages>> /\ mode # "closed" /\ NumFiles' = NumFiles
  BY TransferredSize DEF NumFiles
<1>6. QED
  BY <1>4, <1>5, SizeKept, DiskKept

LEMMA ReadFromPageKeeps == ASSUME IInv, ReadFromPage PROVE SameFile
<1> USE DEF ReadFromPage
<1> DEFINE there == Larger(0, Smaller(ToTransfer, disk[Current].size - StreamAt))
<1>1. PICK n \in IF "read" \in Failures THEN 0 .. there ELSE {there} : Transferred(n)
  OBVIOUS
<1>2. Current \in Indexes /\ pages[Current].isOpen /\ PageIntact(Current)
  BY DEF IInv, FileIntact
<1>3. Exists(Current) /\ disk[Current].size = Page.size /\ Page.size \in Nat
  BY <1>2 DEF PageIntact, Page, IInv, TypeOK, Indexes
<1>4. Offset \in 0 .. pageSize - 1 /\ call.rem \in Nat /\ pageSize \in Nat
  BY Place DEF IInv, TypeOK
<1>5. StreamAt = Offset
  BY <1>2, <1>4 DEF StreamAt, AtPosition, PageIntact, Page
<1>6. ToTransfer \in Nat
  BY <1>4 DEF ToTransfer, Smaller
<1>7. there \in Nat /\ Offset + there <= Page.size
  BY <1>3, <1>4, <1>5, <1>6 DEF Smaller, Larger
<1> HIDE DEF there
<1>8. n \in Nat /\ Offset + n <= Page.size
  BY <1>1, <1>3, <1>4, <1>7
<1>9. QED
  BY <1>1, <1>8, TransferKeeps

LEMMA WriteRefusedKeeps == ASSUME IInv, WriteRefused PROVE SameFile
<1>1. Offset \in 0 .. pageSize - 1 /\ Offset <= Page.size /\ pageSize \in Nat
  BY Place DEF WriteRefused, IInv, TypeOK
<1>2. Offset + 0 <= Page.size
  <2>1. Offset + 0 = Offset
    BY <1>1
  <2>2. QED
    BY <1>1, <2>1
<1>3. 0 \in Nat /\ Transferred(0) /\ pc = "transfer" /\ disk' = disk
  BY DEF WriteRefused
<1>4. QED
  BY <1>2, <1>3, TransferKeeps

LEMMA TruncateKeeps == ASSUME IInv, TruncatePage PROVE FrontTruncated
<1> DEFINE p == call.page
           c == Current
<1>1. pc = "truncate" /\ p < c /\ UNCHANGED <<mode, pageSize, position, numPages>>
  BY DEF TruncatePage
<1>2. p \in Nat /\ c \in 0 .. numPages /\ numPages \in Nat
  BY Place DEF IInv, TypeOK
<1>3. p \in Indexes /\ mode \in {"write", "modify"} /\ pageSize = PageSize
  BY <1>1, <1>2 DEF IInv, FileIntact, Indexes
<1>4. \A i \in Indexes : pages'[i].size = pages[i].size
  <2>1. pages \in [Indexes -> PageRecords]
    BY DEF IInv, TypeOK, Indexes, PageRecords
  <2>2. CASE pages' = pages
    BY <2>2
  <2>3. CASE pages' = [pages EXCEPT ![p].isOpen = FALSE, ![p].wasRemoved = TRUE]
    <3> SUFFICES ASSUME NEW i \in Indexes PROVE pages'[i].size = pages[i].size
      OBVIOUS
    <3> HIDE DEF p
    <3>1. pages[i] \in PageRecords
      BY <2>1
    <3>2. pages'[i] = IF i = p THEN [pages[i] EXCEPT !.isOpen = FALSE, !.wasRemoved = TRUE] ELSE pages[i]
      BY <2>1, <2>3
    <3>3. QED
      BY <3>1, <3>2 DEF PageRecords
  <2>4. QED
    BY <2>2, <2>3 DEF TruncatePage
<1>5. DOMAIN disk' = DOMAIN disk /\ \A i \in DOMAIN disk : i # p => disk'[i] = disk[i]
  BY DEF TruncatePage
<1>6. NumFiles' = NumFiles
  <2>1. NumFiles \in Nat /\ DOMAIN disk = 0 .. NumFiles - 1
    BY DEF IInv, TypeOK
  <2>2. QED
    BY <2>1, <1>5, FilesCountedNext
<1>7. ViewSize' = ViewSize
  BY <1>1, <1>3, <1>4, <1>6, SizeKept
<1>8. ASSUME NEW w \in Watched, w >= c * pageSize PROVE View'[w] = View[w]
  <2> DEFINE i == w \div PageSize
  <2>1. w \in Nat /\ PageSize \in Nat \ {0} /\ c \in Nat
    BY <1>2, PageFileAssumption
  <2>2. i \in Nat /\ i >= c
    <3> DEFINE s == PageSize
    <3>1. s \in Nat \ {0} /\ w >= c * s
      BY <2>1, <1>3, <1>8
    <3> HIDE DEF s, c
    <3>2. w \div s >= c
      BY <3>1, <2>1
    <3>3. QED
      BY <3>1, <3>2, <2>1 DEF s
  <2>3. i # p
    BY <2>2, <1>1, <1>2
  <2> HIDE DEF i
  <2>4. (i \in DOMAIN disk') = (i \in DOMAIN disk) /\ (i \in DOMAIN disk => disk'[i] = disk[i])
    BY <2>3, <1>5
  <2>5. ViewByte(w)' = ViewByte(w)
    BY <2>4, <1>7 DEF ViewByte, FileExists, i
  <2>6. QED
    BY <2>5 DEF View
<1>9. QED
  BY <1>1, <1>7, <1>8 DEF FrontTruncated

(* Byte w is in page c, at o.                                              *)
LEMMA PlaceOf ==
    ASSUME NEW s \in Nat \ {0}, NEW w \in Nat
    PROVE  /\ w \div s \in Nat /\ w % s \in 0 .. s - 1
           /\ w = (w \div s) * s + (w % s)
           /\ \A c \in Nat, o \in 0 .. s - 1 : w = c * s + o => w \div s = c /\ w % s = o
<1>1. w \div s \in Nat /\ w % s \in 0 .. s - 1
  OBVIOUS
<1>2. w = (w \div s) * s + (w % s)
  OBVIOUS
<1>3. ASSUME NEW c \in Nat, NEW o \in 0 .. s - 1, w = c * s + o PROVE w \div s = c /\ w % s = o
  <2>1. w \div s = c
    BY <1>3
  <2>2. c * s \in Nat
    OBVIOUS
  <2>3. QED
    BY <1>1, <1>2, <1>3, <2>1, <2>2
<1>4. QED
  BY <1>1, <1>2, <1>3

(* The bytes from offset o on, n of them and all of page c, are those at   *)
(* the positions from c * s + o on.                                        *)
LEMMA PieceOf ==
    ASSUME NEW s \in Nat \ {0}, NEW w \in Nat, NEW c \in Nat, NEW o \in Nat, NEW n \in Nat, o + n <= s
    PROVE  (c * s + o <= w /\ w < c * s + o + n) <=>
               (w \div s = c /\ o <= w % s /\ w % s < o + n)
<1>1. c * s \in Nat
  OBVIOUS
<1>2. ASSUME c * s + o <= w, w < c * s + o + n PROVE w \div s = c /\ o <= w % s /\ w % s < o + n
  <2> DEFINE d == w - c * s
  <2>1. d \in 0 .. s - 1 /\ w = c * s + d /\ o <= d /\ d < o + n
    BY <1>1, <1>2
  <2> HIDE DEF d
  <2>2. w \div s = c /\ w % s = d
    BY <2>1, PlaceOf
  <2>3. QED
    BY <2>1, <2>2
<1>3. ASSUME w \div s = c, o <= w % s, w % s < o + n PROVE c * s + o <= w /\ w < c * s + o + n
  <2> DEFINE r == w % s
  <2>1. r \in Nat /\ w = c * s + r /\ o <= r /\ r < o + n
    <3>1. r \in Nat /\ w = (w \div s) * s + r
      BY PlaceOf
    <3> HIDE DEF r
    <3>2. w = c * s + r
      BY <3>1, <1>3
    <3>3. QED
      BY <3>1, <3>2, <1>3 DEF r
  <2> HIDE DEF r
  <2>2. QED
    BY <2>1, <1>1
<1>4. QED
  BY <1>2, <1>3

(* n bytes are written where the position is, and no others change.        *)
LEMMA WriteToPageWrites == ASSUME IInv, ValueGiven, WriteToPage PROVE SameFile \/ (File!FileNext)
<1> DEFINE c == Current
           s == PageSize
           d == Offset
           z == Page.size
<1>1. PICK n \in IF "write" \in Failures THEN 0 .. ToTransfer ELSE {ToTransfer} :
          /\ Transferred(n)
          /\ disk' = [disk EXCEPT ![Current] =
                [size  |-> IF n = 0 THEN @.size ELSE Larger(@.size, StreamAt + n),
                 bytes |-> [o \in Offsets |->
                    IF StreamAt <= o /\ o < StreamAt + n
                    THEN IF Current * pageSize + o \in Watched THEN call.value ELSE Junk
                    ELSE disk[Current].bytes[o]]]]
  BY DEF WriteToPage
<1>2. pc = "transfer" /\ mode \in {"write", "modify"} /\ d <= z /\ call.value \in Values
  BY DEF WriteToPage, ValueGiven, IInv, TypeOK, FileIntact, Closed
<1>3. /\ d \in 0 .. s - 1 /\ position = c * s + d /\ pageSize = s /\ s \in Nat \ {0} /\ c \in 0 .. numPages
      /\ call.rem \in Nat /\ numPages \in Nat
  BY <1>2, Place, PageFileAssumption DEF IInv, TypeOK, FileIntact
<1>4. n \in Nat /\ n <= s - d
  <2>1. ToTransfer \in Nat /\ ToTransfer <= s - d
    BY <1>3 DEF ToTransfer, Smaller
  <2> HIDE DEF s, d
  <2>2. QED
    BY <2>1, <1>1, <1>3
<1>5. /\ c \in Indexes /\ Exists(c) /\ z \in Nat /\ z <= s
      /\ disk[c].size = z /\ disk[c] \in [size : Nat, bytes : [Offsets -> Bytes]]
      /\ StreamAt = d
      /\ UNCHANGED <<mode, pageSize, numPages>> /\ position' = position + n
      /\ pages'[c].size = Larger(z, d + n) /\ pages[c].size = z
      /\ \A i \in Indexes : i # c => pages'[i].size = pages[i].size
  BY <1>1, <1>2, <1>3, <1>4, TransferredSize
<1>6. /\ DOMAIN disk' = DOMAIN disk
      /\ \A i \in DOMAIN disk : i # c => disk'[i] = disk[i]
      /\ \A o \in Offsets : disk'[c].bytes[o] =
             IF d <= o /\ o < d + n THEN IF c * s + o \in Watched THEN call.value ELSE Junk
             ELSE disk[c].bytes[o]
  BY <1>1, <1>3, <1>5 DEF Exists
<1>7. c \in Nat /\ c <= numPages - 1 /\ numPages > 0 /\ numPages - 1 \in Indexes
  BY <1>3, <1>5 DEF Indexes
<1>8. ViewSize = PageFileSize /\ PageFileSize = s * (numPages - 1) + pages[numPages - 1].size
      /\ ViewSize' = s * (numPages - 1) + pages'[numPages - 1].size
  BY <1>2, <1>3, <1>5, <1>7 DEF ViewSize, PageFileSize
<1>9. pages[numPages - 1].size \in Nat /\ (c < numPages - 1 => z = s)
      /\ position <= ViewSize
  <2>1. pages[numPages - 1] \in PageRecords
    BY <1>7 DEF IInv, TypeOK, Indexes, PageRecords
  <2>2. c < numPages - 1 => pages[c].size = s
    BY <1>3, <1>5 DEF IInv, PageIntact
  <2>3. QED
    BY <2>1, <2>2, <1>5, <1>8 DEF PageRecords, IInv, FileIntact
<1>10. \A o \in Offsets : o \in Nat
  BY PageFileAssumption DEF Offsets
<1>11. ASSUME n = 0 PROVE SameFile
  <2>1. d + n = d /\ Larger(z, d + n) = z /\ ~\E o \in Offsets : d <= o /\ o < d + n
    BY <1>2, <1>3, <1>5, <1>10, <1>11 DEF Larger
  <2>2. \A i \in Indexes : pages'[i].size = pages[i].size
    BY <2>1, <1>5
  <2>3. NumFiles' = NumFiles
    <3>1. NumFiles \in Nat /\ DOMAIN disk = 0 .. NumFiles - 1
      BY DEF IInv, TypeOK
    <3>2. QED
      BY <3>1, <1>6, FilesCountedNext
  <2>4. ViewSize' = ViewSize
    BY <2>2, <2>3, <1>2, <1>5, SizeKept
  <2>5. ASSUME NEW i, NEW o \in Offsets PROVE Content(i, o)' = Content(i, o)
    BY <2>1, <1>6 DEF Content, Exists
  <2>6. \A w \in Watched : w % PageSize \in Offsets
    BY PageFileAssumption DEF Offsets
  <2>7. QED
    BY <2>4, <2>5, <2>6, ViewKept
<1>12. ASSUME n > 0 PROVE File!WritePiece(call.value)
  <2> HIDE DEF c, s, d, z
  <2>1. position \in Nat /\ position' > position
    BY <1>4, <1>5, <1>12 DEF IInv, TypeOK
  <2>2. ViewSize' = Larger(ViewSize, position')
    <3> DEFINE m == s * (numPages - 1)
    <3>1. m \in Nat
      BY <1>3, <1>7
    <3>2. position' = c * s + d + n /\ c * s \in Nat
      BY <1>3, <1>5, <1>7
    <3>3. CASE c = numPages - 1
      <4>1. c * s = m
        BY <3>3, <1>3, <1>7
      <4>2. ViewSize = m + z /\ ViewSize' = m + Larger(z, d + n)
        BY <3>3, <1>5, <1>8
      <4>3. position' = m + d + n
        BY <4>1, <3>2
      <4> HIDE DEF m
      <4>4. QED
        BY <4>2, <4>3, <3>1, <1>3, <1>4, <1>5 DEF Larger
    <3>4. CASE c < numPages - 1
      <4>1. d + n <= s /\ d + n \in Nat /\ s \in Nat
        BY <1>3, <1>4
      <4>2. Larger(z, d + n) = z
        BY <3>4, <4>1, <1>9 DEF Larger
      <4>3. ViewSize' = ViewSize /\ ViewSize = m + pages[numPages - 1].size
        BY <3>4, <4>2, <1>5, <1>7, <1>8
      <4>4. c * s + (d + n) <= s * (numPages - 1) + pages[numPages - 1].size
        <5> DEFINE y == pages[numPages - 1].size
                   e == d + n
        <5>1. y \in Nat /\ e \in Nat /\ e <= s /\ c < numPages /\ c # numPages - 1
          BY <3>4, <4>1, <1>3, <1>7, <1>9
        <5> HIDE DEF y, e
        <5>2. c * s + e <= s * (numPages - 1) + y
          BY <5>1, <4>1, <1>3, <1>7, Products
        <5>3. QED
          BY <5>2 DEF y, e
      <4>5. position' <= ViewSize /\ ViewSize \in Nat /\ position' \in Nat
        BY <4>3, <4>4, <3>1, <3>2, <1>3, <1>4, <1>9
      <4>6. QED
        BY <4>3, <4>5 DEF Larger
    <3>5. QED
      BY <3>3, <3>4, <1>3, <1>7
  <2>3. position' = c * s + d + n /\ position' - position = n /\ ViewSize \in Nat
    <3>1. c * s \in Nat /\ s * (numPages - 1) \in Nat
      BY <1>3, <1>7
    <3>2. QED
      BY <3>1, <1>3, <1>4, <1>5, <1>8, <1>9
  <2>4. ASSUME NEW w \in Watched
        PROVE  ViewByte(w)' = IF w \in File!Span(position, n) THEN call.value ELSE ViewByte(w)
    <3> DEFINE i == w \div s
               o == w % s
    <3>1. w \in Nat /\ i \in Nat /\ o \in Offsets /\ w = i * s + o
      <4>1. w \in Nat
        BY PageFileAssumption
      <4>2. QED
        BY <4>1, <1>3, PlaceOf DEF Offsets, s
    <3>2. w \in File!Span(position, n) <=> (i = c /\ d <= o /\ o < d + n)
      <4>1. w \in File!Span(position, n) <=> (c * s + d <= w /\ w < c * s + d + n)
        BY <1>3, <1>5, <2>3 DEF File!Span
      <4>2. d \in Nat /\ d + n <= s
        BY <1>3, <1>4
      <4>3. QED
        BY <4>1, <4>2, <3>1, <1>3, <1>4, <1>7, PieceOf
    <3>3. ViewByte(w) = (IF w < ViewSize /\ i \in DOMAIN disk THEN disk[i].bytes[o] ELSE Junk)
          /\ ViewByte(w)' = (IF w < ViewSize' /\ i \in DOMAIN disk THEN disk'[i].bytes[o] ELSE Junk)
      BY <1>6 DEF ViewByte, FileExists, s
    <3>4. CASE w \in File!Span(position, n)
      <4>1. w < position'
        BY <3>4, <2>3, <1>3, <1>5 DEF File!Span
      <4>2. w < ViewSize'
        BY <4>1, <2>1, <2>2, <2>3, <3>1, <1>4, <1>5 DEF Larger
      <4>3. i = c /\ d <= o /\ o < d + n /\ c * s + o = w
        BY <3>1, <3>2, <3>4
      <4> HIDE DEF i, o
      <4>4. disk'[c].bytes[o] = call.value
        BY <4>3, <3>1, <1>6
      <4>5. QED
        BY <3>3, <3>4, <4>2, <4>3, <4>4, <1>5 DEF Exists
    <3>5. CASE w \notin File!Span(position, n)
      <4>1. (w < ViewSize') = (w < ViewSize)
        <5>1. w < ViewSize' => w < ViewSize
          <6> SUFFICES ASSUME w < ViewSize', ~(w < ViewSize) PROVE FALSE
            OBVIOUS
          <6>1. position <= w /\ w < position'
            BY <1>9, <2>1, <2>2, <2>3, <3>1, <1>4, <1>5 DEF Larger
          <6>2. QED
            BY <6>1, <3>5, <2>3, <1>5, <1>3 DEF File!Span
        <5>2. w < ViewSize => w < ViewSize'
          BY <2>1, <2>2, <2>3, <3>1, <1>4, <1>5 DEF Larger
        <5>3. QED
          BY <5>1, <5>2
      <4> HIDE DEF i, o
      <4>2. i \in DOMAIN disk => disk'[i].bytes[o] = disk[i].bytes[o]
        <5>1. CASE i = c
          BY <5>1, <3>1, <3>2, <3>5, <1>6
        <5>2. CASE i # c
          BY <5>2, <1>6
        <5>3. QED
          BY <5>1, <5>2
      <4>3. QED
        BY <3>3, <3>5, <4>1, <4>2
    <3>6. QED
      BY <3>4, <3>5
  <2>5. View' = [w \in Watched |-> IF w \in File!Span(position, position' - position)
                                   THEN call.value ELSE View[w]]
    <3>1. View' = [w \in Watched |-> ViewByte(w)'] /\ \A w \in Watched : View[w] = ViewByte(w)
      BY DEF View
    <3>2. QED
      BY <3>1, <2>3, <2>4
  <2>6. QED
    BY <2>1, <2>2, <2>5 DEF File!WritePiece, File!Larger, Larger
<1>13. QED
  BY <1>2, <1>4, <1>11, <1>12 DEF File!FileNext

-----------------------------------------------------------------------------
(* Every step is a step of the abstract file, a new beginning, a truncated *)
(* front, or leaves the file as it is.                                     *)
LEMMA StepImplements ==
    ASSUME NoStaleFiles PROVE IInv /\ ValueGiven /\ [Next]_vars => FileStep
<1> SUFFICES ASSUME IInv, ValueGiven, [Next]_vars PROVE FileStep
  OBVIOUS
<1>1. IInv'
  BY NextIInv
<1>2. ASSUME SameFile PROVE FileStep
  BY <1>1, <1>2, Sought
<1>3. ASSUME UNCHANGED <<mode, pageSize, numPages, pages, disk>> PROVE FileStep
  <2>1. ViewSize' = ViewSize
    BY <1>3 DEF ViewSize, PageFileSize, NumFiles
  <2>2. QED
    BY <2>1, <1>2, <1>3, DiskKept
<1>4. CASE UNCHANGED vars
  BY <1>3, <1>4 DEF vars
<1>5. CASE OpenNew
  BY <1>5, OpenNewRecreates DEF FileStep
<1>6. CASE \E m \in {"read", "modify"} : OpenExisting(m)
  BY <1>2, <1>6, OpenExistingKeeps
<1>7. CASE Close
  <2>1. CASE \A i \in Indexes : ~pages[i].wasRemoved
    BY <2>1, <1>2, <1>7, CloseKeeps
  <2>2. CASE \E i \in Indexes : pages[i].wasRemoved
    BY <2>2, <1>7 DEF FileStep, TruncatedClosed, Indexes
  <2>3. QED
    BY <2>1, <2>2
<1>8. CASE Remove
  BY <1>8, RemoveRecreates DEF FileStep
<1>9. CASE \E n \in 1 .. MaxCount : Read(n)
  BY <1>3, <1>9 DEF Read, fileVars
<1>10. CASE \E n \in 1 .. MaxCount, v \in Values : Write(n, v)
  BY <1>3, <1>10 DEF Write, fileVars
<1>11. CASE \E p \in 0 .. MaxSize : Seek(p)
  BY <1>3, <1>11 DEF Seek
<1>12. CASE ForwardTruncate
  BY <1>3, <1>12 DEF ForwardTruncate, fileVars
<1>13. CASE NoPage \/ OpenCrashes \/ TruncateReturns
  BY <1>3, <1>13 DEF NoPage, OpenCrashes, TruncateReturns, fileVars
<1>14. CASE UseDescriptor
  BY <1>3, <1>14 DEF UseDescriptor
<1>15. CASE OpenFile
  BY <1>2, <1>15, OpenFileKeeps
<1>16. CASE OpenFileFails
  BY <1>2, <1>16, OpenFileFailsKeeps
<1>17. CASE SeekFails
  BY <1>2, <1>17, SeekFailsKeeps
<1>18. CASE ReadFromPage
  BY <1>2, <1>18, ReadFromPageKeeps
<1>19. CASE WriteToPage
  BY <1>2, <1>19, WriteToPageWrites DEF FileStep
<1>20. CASE WriteRefused
  BY <1>2, <1>20, WriteRefusedKeeps
<1>21. CASE TruncatePage
  BY <1>21, TruncateKeeps DEF FileStep
<1>22. QED
  BY <1>4, <1>5, <1>6, <1>7, <1>8, <1>9, <1>10, <1>11, <1>12, <1>13, <1>14, <1>15, <1>16,
     <1>17, <1>18, <1>19, <1>20, <1>21 DEF Next, ClientCall, Step

LEMMA InitIsOpen == ASSUME Init PROVE File!Open
<1>1. IInv /\ mode = "closed" /\ position = 0
  BY InitIInv DEF Init, Closed
<1>2. NumFiles \in Nat /\ PageSize \in Nat
      /\ \A i \in 0 .. NumFiles - 1 : disk[i] \in [size : Nat, bytes : [Offsets -> Bytes]]
  BY <1>1, PageFileAssumption DEF IInv, TypeOK
<1>3. NumFiles > 0 => NumFiles - 1 \in Nat /\ disk[NumFiles - 1].size \in Nat
  BY <1>2
<1>4. NumFiles > 0 => (NumFiles - 1) * PageSize \in Nat
  BY <1>2, <1>3
<1>5. ViewSize = IF NumFiles = 0 THEN 0 ELSE (NumFiles - 1) * PageSize + disk[NumFiles - 1].size
  BY <1>1 DEF ViewSize
<1>6. ViewSize \in Nat
  BY <1>2, <1>3, <1>4, <1>5
<1>7. QED
  BY <1>1, <1>6 DEF File!Open

(* The page files implement the abstract file: whatever pages are opened,  *)
(* closed to make room or fail to open, and across closing the file and    *)
(* opening it again, a byte changes only when a write covers it, when the  *)
(* front is truncated or when the file is made anew.                       *)
THEOREM PagesImplementFile == ASSUME NoStaleFiles PROVE Spec => ImplementsFile
<1>1. IInv /\ ValueGiven /\ [Next]_vars =>
          ValueGiven' /\ [File!FileNext \/ Recreated \/ FrontTruncated \/ TruncatedClosed]_<<ViewSize, View, position>>
  BY ValueGivenNext, StepImplements DEF FileStep
<1>2. Init => ValueGiven
  BY DEF Init, Closed, NoCall, ValueGiven
<1>3. QED
  BY InitIsOpen, <1>1, <1>2, Invariance, PTL DEF Spec, ImplementsFile
=============================================================================
