--------------------------- MODULE NtfsDirectory ---------------------------
(***************************************************************************)
(* Reading a directory through a handle of the driver.  Opening a          *)
(* directory lists its entries (NtfsFiller, called by ntfs_readdir); Read  *)
(* finds the next entry by adding up entry sizes until the sum is the      *)
(* position of the handle, and moves the position by the size of the       *)
(* answer.  The two sizes are computed from different names: the first     *)
(* from the UTF-16 name in the index, the second from the UTF-8 path of    *)
(* the inode, one CHAR16 per byte.  They differ for a name that is not     *)
(* ASCII, for an inode with several names, and for a path that is too      *)
(* deep.                                                                   *)
(*                                                                         *)
(* A size stands for SIZE_OF_EFI_FILE_INFO plus the size of a name; only   *)
(* that it is positive matters.                                            *)
(***************************************************************************)
EXTENDS Lists, FiniteSets

CONSTANTS
    Files,          \* files and directories that may be in the directory
    Dirs,           \* those that are directories
    Special,        \* those that may have a DOS name or a name of metadata
    MaxSize,        \* bound on the size of an entry
    MaxChanges,     \* bound on changes to the directory
    MaxStarts       \* bound on opening and rewinding

ASSUME DirectoryAssumption ==
    /\ Dirs \subseteq Files
    /\ Special \subseteq Files
    /\ MaxSize \in Nat \ {0}
    /\ MaxChanges \in Nat
    /\ MaxStarts \in Nat

Sizes == 1 .. MaxSize

VARIABLES
    nameSize,   \* the size of an entry from its name in the index
    pathSize,   \* the size of an entry from the path of its inode
    filtered,   \* the files NtfsFiller skips, by their names
    pageZero,   \* whether the platform lets page zero be accessed
    index,      \* the entries of the directory on the disk, in order
    changes,    \* the number of changes so far
    handle,     \* "none", "root" (from OpenVolume) or "opened" (from Open);
                \* a new handle takes the place of a closed one
    SubFiles,   \* SubFIleHead: the entries listed when it was opened
    FileSize,   \* FileInfo->FileSize of the handle
    Position,   \* the position of the handle
    starts,     \* the number of times it was opened or rewound
    returned,   \* the places in SubFiles of the entries returned since then
    answer      \* the outcome of the last call

disk == <<nameSize, pathSize, filtered, pageZero>>
vars == <<disk, index, changes, handle, SubFiles, FileSize, Position,
          starts, returned, answer>>

Answers == {"none", "entry", "end", "too_small", "error", "wild", "halt"}

NoRepetition(s) == IsInjective(s)

Init ==
    /\ nameSize \in [Files -> Sizes]
    /\ pathSize \in [Files -> Sizes]
    /\ filtered \in SUBSET Special
    /\ pageZero \in BOOLEAN
    /\ index \in {s \in SeqOf(Files, Cardinality(Files)) : NoRepetition(s)}
    /\ changes = 0
    /\ handle = "none"
    /\ SubFiles = << >>
    /\ FileSize = 0
    /\ Position = 0
    /\ starts = 0
    /\ returned = << >>
    /\ answer = "none"

-----------------------------------------------------------------------------
\* After an access through NULL that faults, or through a wild pointer, nothing
\* more is said about the machine.
Running == answer \notin {"halt", "wild"}

Start == Running /\ starts < MaxStarts /\ starts' = starts + 1

\* Another handle creates or deletes an entry, at its place in the index.
IndexChange ==
    /\ Running
    /\ changes < MaxChanges
    /\ changes' = changes + 1
    /\ \/ \E f \in Files \ Range(index), i \in 1 .. Len(index) + 1 :
             index' = InsertAt(index, i, f)
       \/ \E i \in DOMAIN index : index' = RemoveAt(index, i)
    /\ UNCHANGED <<disk, handle, SubFiles, FileSize, Position, starts,
                   returned, answer>>

\* NtfsFiller skips an entry, or appends it to the list of the handle and adds
\* its size to the size of the directory.
NtfsFiller(list, f) == IF f \in filtered THEN list ELSE Append(list, f)

Listed(entries) ==
    LET list[n \in 0 .. Len(entries)] ==
            IF n = 0 THEN << >> ELSE NtfsFiller(list[n - 1], entries[n])
    IN  list[Len(entries)]

\* The sum of the sizes of the first n entries, for every n.
Sums(size, entries) ==
    LET sum[n \in 0 .. Len(entries)] ==
            IF n = 0 THEN 0 ELSE sum[n - 1] + size[entries[n]]
    IN  sum

SizeOf(entries) == Sums(nameSize, entries)[Len(entries)]

\* A handle from OpenVolume has no FileInfo and an empty list.
NtfsOpenVolume ==
    /\ Start
    /\ handle' = "root"
    /\ SubFiles' = << >>
    /\ FileSize' = 0
    /\ Position' = 0
    /\ returned' = << >>
    /\ answer' = "none"
    /\ UNCHANGED <<disk, index, changes>>

\* NtfsOFileOpen of a directory.  ntfs_readdir stops at the first entry for
\* which NtfsFiller fails (no memory, or an inode that cannot be opened), and
\* its result is ignored.
NtfsOFileOpen ==
    /\ Start
    /\ \E n \in 0 .. Len(index) :
          /\ SubFiles' = Listed(SubSeq(index, 1, n))
          /\ FileSize' = SizeOf(SubFiles')
    /\ handle' = "opened"
    /\ Position' = 0
    /\ returned' = << >>
    /\ answer' = "none"
    /\ UNCHANGED <<disk, index, changes>>

\* Mutant: the size of the entry itself is added before the comparison.
Offset_WithEntry(i) == Sums(nameSize, SubFiles)[i]

\* The search loop of NtfsIFileAccess stops at the first entry whose offset,
\* the sum of the sizes before it, is the position of the handle.
Offset(i) == Sums(nameSize, SubFiles)[i - 1]

AtPosition == {i \in DOMAIN SubFiles : Offset(i) = Position}

\* Mutant: the position also moves when the buffer is too small.
ReadEntry_MoveAnyway(i, BufferSize) ==
    IF BufferSize < pathSize[SubFiles[i]]
    THEN /\ answer' = "too_small"
         /\ Position' = Position + pathSize[SubFiles[i]]
         /\ UNCHANGED returned
    ELSE /\ answer' = "entry"
         /\ Position' = Position + pathSize[SubFiles[i]]
         /\ returned' = Append(returned, i)

\* Mutant: the position does not move after an entry.
ReadEntry_NoMove(i, BufferSize) ==
    IF BufferSize < pathSize[SubFiles[i]]
    THEN answer' = "too_small" /\ UNCHANGED <<Position, returned>>
    ELSE /\ answer' = "entry"
         /\ returned' = (IF Len(returned) < 2 THEN Append(returned, i) ELSE returned)
         /\ UNCHANGED Position

\* The entry that the loop stops at is returned if the buffer is large enough.
\* A file that is gone makes ntfs_pathname_to_inode return NULL, and an entry
\* that is a directory has no FileInfo: both are then accessed through NULL.
ReadEntry(i, BufferSize) ==
    LET f == SubFiles[i]
        null == f \notin Range(index) \/ f \in Dirs
    IN  IF BufferSize < pathSize[f]
        THEN answer' = "too_small" /\ UNCHANGED <<Position, returned>>
        ELSE IF null /\ ~ pageZero
        THEN answer' = "halt" /\ UNCHANGED <<Position, returned>>
        ELSE /\ answer' = "entry"
             /\ Position' = Position + pathSize[f]
             /\ returned' = Append(returned, i)

NtfsIFileAccess(BufferSize) ==
    /\ Running
    /\ handle = "opened"
    /\ IF Position > FileSize
       THEN answer' = "error" /\ UNCHANGED <<Position, returned>>
       ELSE IF AtPosition = {}
       THEN answer' = "end" /\ UNCHANGED <<Position, returned>>
       ELSE ReadEntry(Min(AtPosition), BufferSize)
    /\ UNCHANGED <<disk, index, changes, handle, SubFiles, FileSize, starts>>

\* Read of the handle from OpenVolume: FileInfo is NULL, so the size it is
\* compared with is whatever page zero holds; if that is not zero, the entry
\* read is an uninitialised pointer.
NtfsIFileAccessRoot ==
    /\ Running
    /\ handle = "root"
    /\ answer' \in IF pageZero THEN {"end", "wild"} ELSE {"halt"}
    /\ UNCHANGED <<disk, index, changes, handle, SubFiles, FileSize, Position,
                   starts, returned>>

\* SetPosition of a directory accepts zero only.
NtfsSetPosition ==
    /\ Start
    /\ handle # "none"
    /\ Position' = 0
    /\ returned' = << >>
    /\ answer' = "none"
    /\ UNCHANGED <<disk, index, changes, handle, SubFiles, FileSize>>

Halted == ~ Running /\ UNCHANGED vars

NtfsRead == \E b \in 0 .. MaxSize : NtfsIFileAccess(b)

Next ==
    \/ IndexChange
    \/ NtfsOpenVolume
    \/ NtfsOFileOpen
    \/ NtfsRead
    \/ NtfsIFileAccessRoot
    \/ NtfsSetPosition
    \/ Halted

Spec == Init /\ [][Next]_vars

\* A caller that goes on reading with a buffer for the largest entry.
FairSpec == Spec /\ WF_vars(NtfsIFileAccess(MaxSize))

-----------------------------------------------------------------------------
TypeOK ==
    /\ nameSize \in [Files -> Sizes]
    /\ pathSize \in [Files -> Sizes]
    /\ filtered \subseteq Special
    /\ pageZero \in BOOLEAN
    /\ Range(index) \subseteq Files /\ NoRepetition(index)
    /\ changes \in 0 .. MaxChanges
    /\ handle \in {"none", "root", "opened"}
    /\ Range(SubFiles) \subseteq Files \ filtered /\ NoRepetition(SubFiles)
    /\ FileSize = SizeOf(SubFiles)
    /\ Position \in 0 .. FileSize + MaxSize
    /\ starts \in 0 .. MaxStarts
    /\ Range(returned) \subseteq DOMAIN SubFiles
    /\ answer \in Answers

(***************************************************************************)
(* NtfsIFileAccess never goes back: whatever the two sizes of the entries  *)
(* are, no entry is returned twice and the order is that of the list.      *)
(***************************************************************************)
InOrder ==
    TypeOK /\ \A i, j \in DOMAIN returned : i < j => returned[i] < returned[j]

(***************************************************************************)
(* When the two sizes of every entry agree, NtfsIFileAccess implements the *)
(* iterator: a read that moves the position returns the next entry, and    *)
(* none is skipped.                                                        *)
(***************************************************************************)
SizesAgree == \A f \in Files : nameSize[f] = pathSize[f]

Given == IF returned = << >> THEN 0 ELSE Last(returned)

Iterator ==
    INSTANCE DirIterator
    WITH listing <- IF SizesAgree THEN SubFiles ELSE << >>,
         given <- IF SizesAgree THEN Given ELSE 0

ImplementsIterator == Iterator!Spec

(***************************************************************************)
(* When the two sizes of every entry agree, the empty answer of            *)
(* NtfsIFileAccess comes after the last entry only, and a read never fails *)
(* because the position has left the directory.                            *)
(***************************************************************************)
EndMeansAllReturned ==
    SizesAgree /\ handle = "opened" =>
        /\ answer = "end" => Given = Len(SubFiles)
        /\ answer # "error"

(***************************************************************************)
(* A caller of NtfsRead that keeps reading comes to an end, whatever the   *)
(* sizes are.                                                              *)
(***************************************************************************)
ReadingEnds ==
    handle = "opened" ~> handle # "opened" \/ answer \in {"end", "error", "halt"}
=============================================================================
