---------------------------- MODULE MCNtfsIndex ----------------------------
EXTENDS NtfsIndex

\* Two long names, which as separators do not fit where short ones did.
MCKeyLength == [k \in Keys |-> IF k \in {5, 9} THEN 24 ELSE 11]

Upward(n) == [i \in 1 .. n |-> i]

\* Ten files of which two come and go.
MCSmallLoad == {[first |-> Upward(10), keys |-> {3, 4}]}

\* Also a small directory that is filled and emptied, and larger ones in which
\* a few files come and go, so that inner nodes are split and merged.
MCLoads ==
    MCSmallLoad \cup
    {[first |-> << >>, keys |-> 1 .. 6],
     [first |-> Reverse(Upward(15)), keys |-> {2, 5, 8, 9, 11}],
     [first |-> Upward(22), keys |-> {5, 6, 7, 9, 15}]}
=============================================================================
