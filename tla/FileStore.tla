----------------------------- MODULE FileStore -----------------------------
(***************************************************************************)
(* What a volume promises about the contents of its files.  A file is a    *)
(* sequence of units.  A write that is answered "ok" overlays a range and  *)
(* zeroes the gap that it may leave; one answered "error" changes at most  *)
(* its own range and never the length.  When the device has failed to      *)
(* write data, an answer still speaks for the length and the range, but    *)
(* the clusters around the range may change.  A power loss, or a failure   *)
(* that cannot be undone, hurts only the file that was being written, and  *)
(* what it says before the old end and outside those clusters is kept, or  *)
(* cannot be read at all.  Nothing is promised about a hurt file until it  *)
(* is deleted.                                                             *)
(***************************************************************************)
EXTENDS Integers, Sequences

CONSTANTS
    Files, Values,
    Zero,           \* the value of a unit that was never written
    Bad,            \* what a unit reads as that cannot be read
    Absent,         \* the contents of a file that does not exist
    ClusterSize,    \* units that are allocated together
    MaxSize         \* bound on the size of a file

VARIABLES
    content,        \* the units of each file, Absent for no file
    answer,         \* of the last call: "ok" or "error"
    fault,          \* whether the device failed in it
    hurt            \* files that a call left half done

vars == <<content, answer, fault, hurt>>

\* The contents old after a write of v at the positions pos .. end - 1.
Overlaid(old, pos, end, v) ==
    [i \in 1 .. (IF end > Len(old) THEN end ELSE Len(old)) |->
        IF i > pos /\ i <= end THEN v
        ELSE IF i <= Len(old) THEN old[i] ELSE Zero]

\* Position i of a file lies in a cluster of the range.
Around(i, pos, end) ==
    /\ i > (pos \div ClusterSize) * ClusterSize
    /\ i <= ((end + ClusterSize - 1) \div ClusterSize) * ClusterSize

\* The contents f had are kept at the positions that `free' does not allow
\* to change.
KeptBut(f, free(_)) ==
    \A i \in 1 .. Len(content[f]) : free(i) \/ content'[f][i] = content[f][i]

Others(f) == \A g \in Files \ {f} : content'[g] = content[g]
Exists(f) == content[f] # Absent
Sound(f) == Exists(f) /\ f \notin hurt /\ UNCHANGED hurt

Create(f) == UNCHANGED hurt /\ ~ Exists(f) /\ content'[f] = <<>>

Write(f, pos, end, v) ==
    /\ Sound(f) /\ answer' = "ok" /\ ~ fault'
    /\ content'[f] = Overlaid(content[f], pos, end, v)

FailedWrite(f, pos, end, v) ==
    /\ Sound(f) /\ answer' = "error" /\ ~ fault' /\ content'[f] # Absent
    /\ Len(content'[f]) = Len(content[f])
    /\ KeptBut(f, LAMBDA i : i > pos /\ i <= end /\ content'[f][i] = v)

FaultyWrite(f, pos, end, v) ==
    /\ Sound(f) /\ fault' /\ content'[f] # Absent
    /\ answer' = "ok" =>
          /\ Len(content'[f]) = Len(Overlaid(content[f], pos, end, v))
          /\ \A i \in pos + 1 .. end : content'[f][i] = v
    /\ answer' # "ok" => Len(content'[f]) = Len(content[f])
    /\ KeptBut(f, LAMBDA i : Around(i, pos, end))

HalfWrite(f, pos, end) ==
    /\ hurt' = hurt \cup {f} /\ Exists(f) /\ content'[f] # Absent
    /\ Len(content'[f]) >= Len(content[f])
    /\ \/ \A i \in 1 .. Len(content'[f]) : content'[f][i] = Bad
       \/ KeptBut(f, LAMBDA i : Around(i, pos, end))

\* Anything may become of a file that was hurt.
WriteHurt(f) == f \in hurt /\ UNCHANGED hurt

HalfDelete(f) == hurt' = hurt \cup {f} /\ Exists(f) /\ answer' = "error"

\* The file is gone, even if its clusters could not be freed.
Delete(f) == hurt' = hurt \ {f} /\ Exists(f) /\ content'[f] = Absent

Init == hurt = {}

Next ==
    \E f \in Files :
        /\ Others(f)
        /\ \/ Create(f) \/ Delete(f) \/ WriteHurt(f) \/ HalfDelete(f)
           \/ \E pos \in 0 .. MaxSize - 1 : \E end \in pos + 1 .. MaxSize :
                 \/ HalfWrite(f, pos, end)
                 \/ \E v \in Values :
                       \/ Write(f, pos, end, v) \/ FailedWrite(f, pos, end, v)
                       \/ FaultyWrite(f, pos, end, v)

Spec == Init /\ [][Next]_vars
=============================================================================
