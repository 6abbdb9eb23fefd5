------------------------------- MODULE DirSet -------------------------------
(***************************************************************************)
(* What the index of a directory promises: it is a set of file names.  As  *)
(* long as the volume has room a call adds or removes the name it is given *)
(* and no other, and fails only for a name that is there already, or not   *)
(* there.  On a full volume a call may also fail and change nothing; and a *)
(* removal that cannot store the name it moved to close the gap loses that *)
(* name, and mostly fails.                                                 *)
(***************************************************************************)
CONSTANT Keys

VARIABLES
    names,
    answer,     \* what the last call returned
    full        \* whether the volume was full during it

vars == <<names, answer, full>>

Init == names = {} /\ answer = "ok" /\ full = FALSE

Add(k) ==
    \/ k \notin names /\ names' = names \cup {k} /\ answer' = "ok"
    \/ (k \in names \/ full') /\ UNCHANGED names /\ answer' = "error"

Remove(k) ==
    \/ k \in names /\ names' = names \ {k} /\ answer' = "ok"
    \/ (k \notin names \/ full') /\ UNCHANGED names /\ answer' = "error"

LoseInRemove(k) ==
    /\ full' /\ k \in names
    /\ \E other \in names :
          \/ names' \in {names \ {other}, names \ {k, other}} /\ answer' = "error"
          \/ names' = names \ {k, other} /\ answer' = "ok"

Next ==
    /\ full' \in BOOLEAN
    /\ \E k \in Keys : Add(k) \/ Remove(k) \/ LoseInRemove(k)

Spec == Init /\ [][Next]_vars
=============================================================================
