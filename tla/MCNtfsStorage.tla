--------------------------- MODULE MCNtfsStorage ---------------------------
(***************************************************************************)
(* A small volume for NtfsStorage.  $Bitmap has three bytes of four bits;  *)
(* the allocator reads two at a time.  The clusters in use split each zone *)
(* so that a file needs several runs, and leave too few for both files.    *)
(***************************************************************************)
EXTENDS NtfsStorage

CONSTANTS f1, f2, d1, d2

MCFiles == {f1, f2}
MCSolid == {f2}
MCValues == {d1, d2}
\* Data is only moved: one value for each file tells whose data a unit holds.
MCValuesOf == [f \in MCFiles |-> IF f = f1 THEN {d1} ELSE {d2}]
MCReserved == {0, 1, 4, 6, 8}

\* Volumes to start from: one without files; one with two new files; one with
\* a file of another system, which has less data than its size and more
\* clusters than both need, and an index of one block; and that index beside
\* a file with a hole.
NoFiles == [f \in MCFiles |-> Unused]
NewFiles == [f \in MCFiles |-> NewRecord(f)]
ForeignFile ==
    [Unused EXCEPT !.used = TRUE, !.nonres = TRUE, !.alloc = 2, !.size = 2,
                   !.init = 1,
                   !.runs = <<[lcn |-> 9, length |-> 1], [lcn |-> 2, length |-> 1]>>]
OneBlock ==
    [Unused EXCEPT !.used = TRUE, !.nonres = TRUE, !.alloc = 1, !.size = 2,
                   !.init = 2, !.runs = <<[lcn |-> 5, length |-> 1]>>]
SparseFile ==
    [Unused EXCEPT !.used = TRUE, !.nonres = TRUE, !.alloc = 3, !.size = 5,
                   !.init = 5, !.sparse = TRUE, !.csize = 2, !.flag = TRUE,
                   !.runs = <<[lcn |-> 9, length |-> 1],
                              [lcn |-> LCN_HOLE, length |-> 1],
                              [lcn |-> 2, length |-> 1]>>]
MCInitialRecs ==
    {NoFiles, NewFiles,
     [NoFiles EXCEPT ![f1] = ForeignFile, ![f2] = OneBlock],
     [NoFiles EXCEPT ![f1] = SparseFile, ![f2] = OneBlock]}
=============================================================================
