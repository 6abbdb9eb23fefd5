------------------------------- MODULE Lists --------------------------------
(***************************************************************************)
(* The operations on sequences that the models with proofs need.  They mean *)
(* what the operators of the same name in SequencesExt mean, a module that  *)
(* brings the theory of bags into the context of every proof obligation.    *)
(***************************************************************************)
EXTENDS Integers, FiniteSets, FiniteSetsExt, Sublists

Contains(s, e) == \E i \in 1 .. Len(s) : s[i] = e

Last(s) == s[Len(s)]

\* The sequences over S of at most n elements.
SeqOf(S, n) == UNION {[1 .. m -> S] : m \in 0 .. n}

\* The ends of s that are not empty.
Suffixes(s) == {SubSeq(s, i, Len(s)) : i \in 1 .. Len(s)}

\* e becomes the i-th element.
InsertAt(s, i, e) == SubSeq(s, 1, i - 1) \o <<e>> \o SubSeq(s, i, Len(s))

\* The i-th element is left out.
RemoveAt(s, i) == SubSeq(s, 1, i - 1) \o SubSeq(s, i + 1, Len(s))

\* The first e is left out; e has to be there.
RemoveFirst(s, e) == RemoveAt(s, Min({i \in 1 .. Len(s) : s[i] = e}))
=============================================================================
