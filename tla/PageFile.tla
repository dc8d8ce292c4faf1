------------------------------ MODULE PageFile ------------------------------
(***************************************************************************)
(* The file that mxf_page_file.c spreads over page files of a fixed size,  *)
(* of which at most MaxDescriptors are open at a time.                     *)
(*                                                                         *)
(* Page i of the file is the i-th page file on disk.  A call reads or      *)
(* writes one page after the other: pc is "page" while open_page is next   *)
(* and "transfer" when the page is open.  The list of open descriptors,    *)
(* least recently used first, is the sequence fds of page indexes.         *)
(***************************************************************************)
EXTENDS Integers, Sequences

CONSTANTS PageSize,        (* pageSize that the client asks for              *)
          MaxDescriptors,  (* MAX_FILE_DESCRIPTORS                           *)
          MaxSize,         (* bound: no write ends past this position        *)
          MaxCount,        (* bound: bytes of one read or write call         *)
          OldSizes,        (* sizes of the file left by an earlier program   *)
          Watched, Values, Junk,
          Calls,           (* the kinds of calls the client makes            *)
          Failures         (* the stdio calls that may fail                  *)

ASSUME PageFileAssumption ==
    /\ PageSize \in Nat \ {0}
    /\ MaxDescriptors \in Nat \ {0}
    /\ MaxSize \in Nat /\ MaxCount \in Nat /\ OldSizes \subseteq Nat
    /\ Watched \subseteq Nat
    /\ Junk \notin Values
    /\ Calls \subseteq {"new", "new_over_old", "read", "write", "seek", "truncate", "close", "remove"}
    /\ Failures \subseteq {"open", "seek", "read", "write"}

VARIABLES mode,       (* FileMode, or "closed"                               *)
          pageSize, position,
          numPages, pages,
          fds, numFileDescriptors,
          disk,       (* [size, bytes] of the page files that exist          *)
          at,         (* where the open stream of a page stands              *)
          pc,
          call        (* the read or write in progress                       *)

fileVars == <<mode, pageSize, position, numPages, pages, fds, numFileDescriptors>>
vars == <<mode, pageSize, position, numPages, pages, fds, numFileDescriptors,
          disk, at, pc, call>>

Offsets == 0 .. PageSize - 1
Bytes   == Values \cup {Junk}
MaxPages == MaxSize \div PageSize + 1

Smaller(a, b) == IF a <= b THEN a ELSE b
Larger(a, b)  == IF a >= b THEN a ELSE b

NoCall == [op |-> "none", rem |-> 0, value |-> Junk, page |-> 0]
EmptyFile == [size |-> 0, bytes |-> [o \in Offsets |-> Junk]]

(* The page files of a file of n bytes, v at the watched positions.        *)
Files(n, v) ==
    [i \in 0 .. ((n + PageSize - 1) \div PageSize) - 1 |->
        [size  |-> Smaller(n - i * PageSize, PageSize),
         bytes |-> [o \in Offsets |-> IF i * PageSize + o \in Watched /\ i * PageSize + o < n
                                      THEN v ELSE Junk]]]

(* Sequence s without its k-th element.                                    *)
Without(s, k) == [j \in 1 .. Len(s) - 1 |-> IF j < k THEN s[j] ELSE s[j + 1]]

NumFiles == IF DOMAIN disk = {} THEN 0 ELSE 1 + CHOOSE i \in DOMAIN disk : \A j \in DOMAIN disk : j <= i

-----------------------------------------------------------------------------
(* Opening and closing the whole file.                                     *)
NewPage == [wasRemoved |-> FALSE, isOpen |-> FALSE, wasOpenedBefore |-> FALSE,
            size |-> 0, offset |-> 0]

Closed ==
    /\ mode = "closed" /\ pageSize = PageSize /\ position = 0
    /\ numPages = 0 /\ pages = <<>>
    /\ fds = <<>> /\ numFileDescriptors = 0
    /\ at = <<>> /\ pc = "idle" /\ call = NoCall

Init ==
    /\ Closed
    /\ \E n \in OldSizes, v \in Values : disk = Files(n, v)

(* Page files that an earlier program left are not looked at.              *)
OpenNew ==
    /\ mode = "closed" /\ pc = "idle"
    /\ "new" \in Calls
    /\ NumFiles = 0 \/ "new_over_old" \in Calls
    /\ mode' = "write"
    /\ UNCHANGED <<pageSize, position, numPages, pages, fds, numFileDescriptors, disk, at, pc, call>>

(* All pages but the last are taken to be full.  The page size is that of  *)
(* the first file when reading, and must be that of the first file, if     *)
(* there are others, when modifying.                                       *)
OpenExisting(newMode) ==
    /\ mode = "closed" /\ pc = "idle"
    /\ NumFiles > 0
    /\ newMode = "modify" => NumFiles = 1 \/ disk[0].size = PageSize
    /\ newMode = "read" => disk[0].size > 0
    /\ mode' = newMode
    /\ pageSize' = IF newMode = "read" THEN disk[0].size ELSE PageSize
    /\ numPages' = NumFiles
    /\ pages' = [i \in 0 .. NumFiles - 1 |->
                   [NewPage EXCEPT !.size = IF i = NumFiles - 1 THEN disk[i].size ELSE pageSize']]
    /\ at' = [i \in 0 .. NumFiles - 1 |-> 0]
    /\ UNCHANGED <<position, fds, numFileDescriptors, disk, pc, call>>

Close ==
    /\ mode # "closed" /\ pc = "idle"
    /\ "close" \in Calls
    /\ mode' = "closed" /\ pageSize' = PageSize /\ position' = 0
    /\ numPages' = 0 /\ pages' = <<>>
    /\ fds' = <<>> /\ numFileDescriptors' = 0
    /\ at' = <<>>
    /\ UNCHANGED <<disk, pc, call>>

(* mxf_page_file_remove                                                    *)
Remove ==
    /\ mode = "closed" /\ pc = "idle"
    /\ "remove" \in Calls
    /\ NumFiles > 0
    /\ disk' = <<>>
    /\ UNCHANGED <<fileVars, at, pc, call>>

-----------------------------------------------------------------------------
(* open_page and open_file                                                 *)
Current == position \div pageSize
IsNewPage == Current = numPages

Return ==
    /\ pc' = "idle"
    /\ call' = NoCall

(* There is no page to open, or the position is not in the page.           *)
NoPage ==
    /\ \/ pc = "page" /\ Current > numPages
       \/ pc = "page" /\ IsNewPage /\ mode = "read"
       \/ pc = "page" /\ Current < numPages /\ pages[Current].wasRemoved
       \/ pc = "transfer" /\ position - Current * pageSize > pages[Current].size
    /\ Return
    /\ UNCHANGED <<fileVars, disk, at>>

IsOpen == Current < numPages /\ ~pages[Current].wasRemoved /\ pages[Current].isOpen

(* A descriptor that is in use becomes the most recently used one.         *)
UseDescriptor ==
    /\ pc = "page"
    /\ IsOpen
    /\ \E k \in DOMAIN fds : fds[k] = Current /\ fds' = Append(Without(fds, k), Current)
    /\ pc' = "transfer"
    /\ UNCHANGED <<mode, pageSize, position, numPages, pages, numFileDescriptors, disk, at, call>>

NeedsDescriptor ==
    /\ pc = "page"
    /\ \/ IsNewPage /\ mode # "read"
       \/ Current < numPages /\ ~pages[Current].wasRemoved /\ ~pages[Current].isOpen

TooMany == numFileDescriptors >= MaxDescriptors

(* The least recently used descriptor is that of a null list head.         *)
OpenCrashes ==
    /\ NeedsDescriptor
    /\ TooMany /\ fds = <<>>
    /\ pc' = "crashed"
    /\ UNCHANGED <<fileVars, disk, at, call>>

(* The pages once page Current is known and the descriptor at the head is  *)
(* closed if there are too many.                                           *)
PagesToOpenKept == [i \in 0 .. Larger(numPages - 1, Current) |-> IF i = numPages THEN NewPage ELSE pages[i]]
PagesToOpen ==
    [i \in 0 .. Larger(numPages - 1, Current) |->
        IF i = numPages THEN NewPage
        ELSE [pages[i] EXCEPT !.isOpen = pages[i].isOpen /\ ~(TooMany /\ i = Head(fds))]]
OpenDescriptors == IF TooMany THEN Tail(fds) ELSE fds
OpenCountKept   == numFileDescriptors
OpenCount       == IF TooMany THEN numFileDescriptors - 1 ELSE numFileDescriptors

FileExists(i) == i \in DOMAIN disk
(* fopen() empties the file: "w+b"                                         *)
EmptiedAlways(page) == mode = "write" \/ ~FileExists(Current)
Emptied(page) == \/ mode = "write" /\ ~page.wasOpenedBefore
                 \/ ~FileExists(Current)

OpenFile ==
    /\ NeedsDescriptor
    /\ ~(TooMany /\ fds = <<>>)
    /\ numPages' = Larger(numPages, Current + 1)
    /\ pages' = [PagesToOpen EXCEPT ![Current].isOpen = TRUE,
                                    ![Current].wasOpenedBefore = TRUE,
                                    ![Current].offset = 0]
    /\ fds' = Append(OpenDescriptors, Current)
    /\ numFileDescriptors' = OpenCount + 1
    /\ disk' = [i \in DOMAIN disk \cup {Current} |->
                   IF i = Current /\ Emptied(PagesToOpen[i]) THEN EmptyFile ELSE disk[i]]
    /\ at' = [i \in 0 .. numPages' - 1 |-> IF i = Current THEN 0 ELSE at[i]]
    /\ pc' = "transfer"
    /\ UNCHANGED <<mode, pageSize, position, call>>

OpenFileFails ==
    /\ "open" \in Failures
    /\ NeedsDescriptor
    /\ ~(TooMany /\ fds = <<>>)
    /\ numPages' = Larger(numPages, Current + 1)
    /\ pages' = PagesToOpen
    /\ fds' = OpenDescriptors
    /\ numFileDescriptors' = OpenCount
    /\ at' = [i \in 0 .. numPages' - 1 |-> IF i = numPages THEN 0 ELSE at[i]]
    /\ Return
    /\ UNCHANGED <<mode, pageSize, position, disk>>

-----------------------------------------------------------------------------
(* read_from_page and write_to_page, once the page is open                 *)
Page   == pages[Current]
Offset == position - Current * pageSize
AtPosition == Page.offset = Offset

OffsetAsAsked == Offset
(* The position within the page is no longer known.                        *)
OffsetAfterFailedSeek == -1

SeekFails ==
    /\ "seek" \in Failures
    /\ pc = "transfer"
    /\ Offset <= Page.size
    /\ ~AtPosition
    /\ pages' = [pages EXCEPT ![Current].offset = OffsetAfterFailedSeek]
    /\ Return
    /\ UNCHANGED <<mode, pageSize, position, numPages, fds, numFileDescriptors, disk, at>>

(* Where stdio transfers from or to: where the stream stands, after a seek *)
(* unless the code believes that it is there already.                      *)
StreamAt == IF AtPosition THEN at[Current] ELSE Offset

(* A call ends when all is transferred or nothing more could be.           *)
DoneAll(n) == call.rem = n
Done(n) == n = 0 \/ call.rem = n

(* The n bytes have been transferred.                                      *)
Transferred(n) ==
    /\ pages' = [pages EXCEPT ![Current].offset = Offset + n,
                              ![Current].size = Larger(Page.size, Offset + n)]
    /\ at' = [at EXCEPT ![Current] = StreamAt + n]
    /\ position' = position + n
    /\ IF Done(n)
       THEN Return
       ELSE pc' = "page" /\ call' = [call EXCEPT !.rem = call.rem - n]
    /\ UNCHANGED <<mode, pageSize, numPages, fds, numFileDescriptors>>

ToTransferAll == call.rem
ToTransfer == Smaller(call.rem, pageSize - Offset)

ReadFromPage ==
    /\ pc = "transfer" /\ call.op = "read"
    /\ Offset <= Page.size
    /\ LET there == Larger(0, Smaller(ToTransfer, disk[Current].size - StreamAt))
       IN  \E n \in IF "read" \in Failures THEN 0 .. there ELSE {there} : Transferred(n)
    /\ UNCHANGED disk

WriteToPage ==
    /\ pc = "transfer" /\ call.op = "write" /\ mode # "read"
    /\ Offset <= Page.size
    /\ \E n \in IF "write" \in Failures THEN 0 .. ToTransfer ELSE {ToTransfer} :
          /\ Transferred(n)
          /\ disk' = [disk EXCEPT ![Current] =
                [size  |-> IF n = 0 THEN @.size ELSE Larger(@.size, StreamAt + n),
                 bytes |-> [o \in Offsets |->
                    IF StreamAt <= o /\ o < StreamAt + n
                    THEN IF Current * pageSize + o \in Watched THEN call.value ELSE Junk
                    ELSE disk[Current].bytes[o]]]]

(* A stream that is open for reading takes no bytes.                       *)
WriteRefused ==
    /\ pc = "transfer" /\ call.op = "write" /\ mode = "read"
    /\ Offset <= Page.size
    /\ Transferred(0)
    /\ UNCHANGED disk

-----------------------------------------------------------------------------
(* The calls of the client.                                                *)
PageFileSize == IF numPages = 0 THEN 0 ELSE pageSize * (numPages - 1) + pages[numPages - 1].size

Read(count) ==
    /\ mode # "closed" /\ pc = "idle"
    /\ call' = [NoCall EXCEPT !.op = "read", !.rem = count]
    /\ pc' = "page"
    /\ UNCHANGED <<fileVars, disk, at>>

Write(count, v) ==
    /\ mode # "closed" /\ pc = "idle"
    /\ position + count <= MaxSize
    /\ call' = [NoCall EXCEPT !.op = "write", !.rem = count, !.value = v]
    /\ pc' = "page"
    /\ UNCHANGED <<fileVars, disk, at>>

(* SEEK_SET, SEEK_CUR or SEEK_END; a seek past the end is refused.         *)
Seek(newPosition) ==
    /\ mode # "closed" /\ pc = "idle"
    /\ newPosition <= PageFileSize
    /\ position' = newPosition
    /\ UNCHANGED <<mode, pageSize, numPages, pages, fds, numFileDescriptors, disk, at, pc, call>>

(* mxf_page_file_forward_truncate; call.page is the loop's i.              *)
ForwardTruncate ==
    /\ mode \in {"write", "modify"} /\ pc = "idle"
    /\ pc' = "truncate"
    /\ call' = [NoCall EXCEPT !.op = "truncate"]
    /\ UNCHANGED <<fileVars, disk, at>>

(* The descriptor is closed, but numFileDescriptors stays as it is.        *)
TruncatePage ==
    /\ pc = "truncate" /\ call.page < Current
    /\ IF pages[call.page].wasRemoved
       THEN UNCHANGED <<pages, fds, disk>>
       ELSE /\ pages' = [pages EXCEPT ![call.page].isOpen = FALSE, ![call.page].wasRemoved = TRUE]
            /\ IF pages[call.page].isOpen
               THEN \E k \in DOMAIN fds : fds[k] = call.page /\ fds' = Without(fds, k)
               ELSE UNCHANGED fds
            /\ disk' = [i \in DOMAIN disk |-> IF i = call.page THEN EmptyFile ELSE disk[i]]
    /\ call' = [call EXCEPT !.page = @ + 1]
    /\ UNCHANGED <<mode, pageSize, position, numPages, numFileDescriptors, at, pc>>

TruncateReturns ==
    /\ pc = "truncate" /\ call.page >= Current
    /\ Return
    /\ UNCHANGED <<fileVars, disk, at>>

ClientCall ==
    \/ OpenNew
    \/ \E m \in {"read", "modify"} : OpenExisting(m)
    \/ Close
    \/ Remove
    \/ "read" \in Calls /\ \E n \in 1 .. MaxCount : Read(n)
    \/ "write" \in Calls /\ \E n \in 1 .. MaxCount, v \in Values : Write(n, v)
    \/ "seek" \in Calls /\ \E p \in 0 .. MaxSize : Seek(p)
    \/ "truncate" \in Calls /\ ForwardTruncate

Step == \/ NoPage \/ UseDescriptor \/ OpenCrashes \/ OpenFile \/ OpenFileFails
        \/ SeekFails \/ ReadFromPage \/ WriteToPage \/ WriteRefused
        \/ TruncatePage \/ TruncateReturns

Next == ClientCall \/ Step

Spec == Init /\ [][Next]_vars
(* A call runs to its end once made.                                       *)
FairSpec == Spec /\ WF_vars(Step)

-----------------------------------------------------------------------------
TypeOK ==
    /\ mode \in {"closed", "read", "write", "modify"}
    /\ pageSize \in Nat \ {0} /\ position \in Nat /\ numPages \in Nat
    /\ pages \in [0 .. numPages - 1 -> [wasRemoved : BOOLEAN, isOpen : BOOLEAN,
                                        wasOpenedBefore : BOOLEAN, size : 0 .. PageSize, offset : -1 .. PageSize]]
    /\ fds \in Seq(0 .. numPages - 1)
    /\ numFileDescriptors \in Nat
    /\ NumFiles \in Nat /\ DOMAIN disk = 0 .. NumFiles - 1
    /\ \A i \in DOMAIN disk : disk[i] \in [size : Nat, bytes : [Offsets -> Bytes]]
    /\ at \in [0 .. numPages - 1 -> Nat]
    /\ pc \in {"idle", "page", "transfer", "truncate", "crashed"}
    /\ call \in [op : {"none", "read", "write", "truncate"}, rem : Nat, value : Bytes, page : Nat]

(* The list of descriptors and the pages' pointers into it agree, and the  *)
(* page that a transfer is about to use has the most recent descriptor:    *)
(* open_page never closes the page it has just opened.                     *)
DescriptorsMatch ==
    /\ {fds[k] : k \in 1 .. Len(fds)} = {i \in 0 .. numPages - 1 : pages[i].isOpen}
    /\ \A k, l \in 1 .. Len(fds) : fds[k] = fds[l] => k = l
    /\ pc = "transfer" => fds # <<>> /\ fds[Len(fds)] = Current

(* Never more than MAX_FILE_DESCRIPTORS page files are open.               *)
DescriptorsBounded == Len(fds) <= MaxDescriptors

(* The code works out sizes and positions from the page size alone: every  *)
(* page but the last is full, and the size that it keeps of a page is that *)
(* of the page file.                                                       *)
PagesFull ==
    \A i \in 0 .. numPages - 1 :
        /\ i < numPages - 1 => pages[i].size = pageSize
        /\ ~pages[i].wasRemoved /\ (mode = "write" => pages[i].wasOpenedBefore) =>
               pages[i].size = IF FileExists(i) THEN disk[i].size ELSE 0

(* What a client sees of the file; while the file is closed, what it would *)
(* see if it opened it again.                                              *)
ViewSize == IF mode # "closed" THEN PageFileSize
            ELSE IF NumFiles = 0 THEN 0 ELSE (NumFiles - 1) * PageSize + disk[NumFiles - 1].size
ViewByte(w) ==
    LET i == w \div PageSize
    IN  IF w < ViewSize /\ FileExists(i) THEN disk[i].bytes[w % PageSize] ELSE Junk
View == [w \in Watched |-> ViewByte(w)]

(* mxf_file_eof is not a flag here: it is position >= size.                *)
File == INSTANCE MXFFile WITH size <- ViewSize, bytes <- View, eof <- FALSE

Recreated == (OpenNew \/ Remove) /\ ViewSize' = 0 /\ position' = 0

(* Truncation loses bytes before the current page only.                    *)
FrontTruncated ==
    /\ TruncatePage
    /\ \A w \in Watched : w >= Current * pageSize => View'[w] = View[w]
    /\ ViewSize' = ViewSize /\ position' = position

(* A file that was truncated cannot be opened again for what is left.      *)
TruncatedClosed == Close /\ \E i \in 0 .. numPages - 1 : pages[i].wasRemoved

(* Page files are one MXFFile, across closing and opening again, whatever  *)
(* descriptors are closed in between.                                      *)
ImplementsFile ==
    File!Open /\ [][File!FileNext \/ Recreated \/ FrontTruncated \/ TruncatedClosed]_<<ViewSize, View, position>>

(* Every call returns.                                                     *)
CallsReturn == (pc # "idle") ~> (pc = "idle" \/ pc = "crashed")

(* A descriptor to close is there when one is needed.                      *)
NoCrash == pc # "crashed"
=============================================================================
