------------------------ MODULE NtfsDirectoryProofs ------------------------
(***************************************************************************)
(* Proofs about NtfsDirectory, for every set of files, whatever the sizes  *)
(* of their names: no entry is returned twice, in order; and when the two  *)
(* sizes agree, reading implements the iterator and ends after the last    *)
(* entry.                                                                  *)
(***************************************************************************)
EXTENDS NtfsDirectory, Induction

-----------------------------------------------------------------------------
(* The loops that add up sizes and list entries.                           *)

\* The sums are numbers, and each adds the size of one entry to the last.
LEMMA SumsDef ==
    ASSUME NEW size \in [Files -> Sizes], NEW e \in Seq(Files)
    PROVE  /\ Sums(size, e) \in [0 .. Len(e) -> Nat]
           /\ Sums(size, e)[0] = 0
           /\ \A n \in 1 .. Len(e) : /\ Sums(size, e)[n] = Sums(size, e)[n - 1] + size[e[n]]
                                     /\ size[e[n]] \in Nat /\ size[e[n]] > 0
<1>. DEFINE N == Len(e)
            step == [n \in 1 .. N |-> [x \in Nat |-> x + size[e[n]]]]
            F(f) == [n \in 0 .. N |-> IF n = 0 THEN 0 ELSE f[n - 1] + size[e[n]]]
<1>1. N \in Nat /\ \A n \in 1 .. N : size[e[n]] \in Nat /\ size[e[n]] > 0
  BY DEF Sizes
<1>2. step \in [1 .. N -> [Nat -> Nat]] /\ \A n \in 1 .. N, x \in Nat : step[n][x] = x + size[e[n]]
  BY <1>1
<1>. HIDE DEF N, step
<1>3. PICK f \in [0 .. N -> Nat] : Iterates(f, N, 0, step)
  BY Zenon, <1>1, <1>2, Iteration
<1>4. f = F(f)
  <2>1. ASSUME NEW n \in 0 .. N, n # 0 PROVE n \in 1 .. N /\ f[n - 1] \in Nat
    BY <1>1, <2>1
  <2>. QED
    BY Zenon, <1>2, <1>3, <2>1 DEF Iterates
<1>. DEFINE s == Sums(size, e)
<1>5. s = F(s)
  BY Zenon, <1>4 DEF Sums, N
<1>. HIDE DEF s
<1>6. ASSUME NEW n \in 1 .. N PROVE n - 1 \in 0 .. N /\ s[n] = s[n - 1] + size[e[n]]
  <2>1. n \in 0 .. N /\ n # 0 /\ n - 1 \in 0 .. N
    BY <1>1
  <2>. QED
    BY <1>5, <2>1
<1>7. s[0] = 0 /\ DOMAIN s = 0 .. N
  BY <1>1, <1>5
<1>8. \A n \in 0 .. N : s[n] \in Nat
  <2>. DEFINE T == {n \in 0 .. N : s[n] \in Nat}
  <2>1. 0 \in T
    BY <1>1, <1>7
  <2>2. ASSUME NEW n \in 1 .. N, n - 1 \in T PROVE n \in T
    <3>1. s[n - 1] \in Nat /\ size[e[n]] \in Nat /\ s[n] = s[n - 1] + size[e[n]]
      BY <1>1, <1>6, <2>2
    <3>2. s[n] \in Nat /\ n \in 0 .. N
      BY <1>1, <3>1
    <3>. QED
      BY <3>2
  <2>3. 0 .. N \subseteq T
    <3>. HIDE DEF T
    <3>. QED
      BY Zenon, <1>1, <2>1, <2>2, UpTo
  <2>. QED
    BY <2>3
<1>9. s \in [0 .. N -> Nat]
  BY <1>5, <1>8
<1>. QED
  BY <1>1, <1>6, <1>7, <1>9 DEF s, N
\* The sums increase, since no size is zero.
LEMMA SumsIncrease ==
    ASSUME NEW size \in [Files -> Sizes], NEW e \in Seq(Files),
           NEW i \in 0 .. Len(e), NEW j \in 0 .. Len(e), i < j
    PROVE  Sums(size, e)[i] < Sums(size, e)[j]
<1>. DEFINE N == Len(e)
            s == Sums(size, e)
            T == {n \in 0 .. N : i < n => s[i] < s[n]}
<1>1. /\ N \in Nat /\ s \in [0 .. N -> Nat]
      /\ \A n \in 1 .. N : s[n - 1] < s[n]
  <2>1. N \in Nat
    OBVIOUS
  <2>2. ASSUME NEW n \in 1 .. N PROVE s[n - 1] < s[n]
    <3>1. n - 1 \in 0 .. N
      BY <2>1
    <3>2. s[n - 1] \in Nat /\ size[e[n]] \in Nat /\ size[e[n]] > 0 /\ s[n] = s[n - 1] + size[e[n]]
      BY Zenon, <3>1, SumsDef
    <3>. QED
      BY <3>2
  <2>. QED
    BY <2>1, <2>2, SumsDef
<1>. HIDE DEF N, s
<1>2. 0 \in T
  BY DEF N
<1>3. ASSUME NEW n \in 1 .. N, n - 1 \in T PROVE n \in T
  <2>1. i \in 0 .. N
    BY DEF N
  <2>2. n \in 0 .. N /\ n - 1 \in 0 .. N
    BY <1>1
  <2>3. s[i] \in Nat /\ s[n] \in Nat /\ s[n - 1] \in Nat /\ s[n - 1] < s[n]
    BY <1>1, <2>1, <2>2
  <2>4. i < n => i < n - 1 \/ i = n - 1
    BY <2>1
  <2>5. i < n => s[i] < s[n]
    BY <1>3, <2>3, <2>4
  <2>. QED
    BY <2>2, <2>5
<1>4. 0 .. N \subseteq T
  <2>. HIDE DEF T
  <2>. QED
    BY Zenon, <1>1, <1>2, <1>3, UpTo
<1>. QED
  BY <1>4 DEF N, s

\* NtfsFiller lists entries of the directory that it does not skip, and none
\* of them twice.
LEMMA ListedFacts ==
    ASSUME NEW e \in Seq(Files), NoRepetition(e)
    PROVE  /\ Listed(e) \in Seq(Files) /\ NoRepetition(Listed(e))
           /\ \A i \in 1 .. Len(Listed(e)) : Listed(e)[i] \notin filtered
<1>. DEFINE N == Len(e)
            S == Seq(Files)
            step == [n \in 1 .. N |-> [x \in S |-> NtfsFiller(x, e[n])]]
            F(f) == [n \in 0 .. N |-> IF n = 0 THEN << >> ELSE NtfsFiller(f[n - 1], e[n])]
            Good(x, n) == /\ x \in S /\ IsInjective(x)
                          /\ \A i \in 1 .. Len(x) : /\ x[i] \notin filtered
                                                    /\ \E k \in 1 .. n : x[i] = e[k]
<1>1. N \in Nat /\ \A n \in 1 .. N : e[n] \in Files
  OBVIOUS
<1>2. \A a, b \in 1 .. N : e[a] = e[b] => a = b
  BY DEF NoRepetition, IsInjective
<1>. HIDE DEF N
<1>3. \A n \in 1 .. N, x \in S : NtfsFiller(x, e[n]) \in S
  BY <1>1 DEF NtfsFiller
<1>4. step \in [1 .. N -> [S -> S]] /\ \A n \in 1 .. N, x \in S : step[n][x] = NtfsFiller(x, e[n])
  BY <1>3
<1>. HIDE DEF step
<1>5. PICK f \in [0 .. N -> S] : Iterates(f, N, << >>, step)
  <2>1. << >> \in S
    OBVIOUS
  <2>. HIDE DEF S
  <2>. QED
    BY Zenon, <1>1, <1>4, <2>1, Iteration
<1>6. f = F(f)
  <2>1. ASSUME NEW n \in 0 .. N, n # 0 PROVE n \in 1 .. N /\ f[n - 1] \in S
    BY <1>1, <2>1
  <2>. HIDE DEF S
  <2>. QED
    BY Zenon, <1>4, <1>5, <2>1 DEF Iterates
<1>7. PICK g : g = F(g) /\ Listed(e) = g[N]
  BY Zenon, <1>6 DEF Listed, N
<1>8. g[0] = << >> /\ \A n \in 1 .. N : g[n] = NtfsFiller(g[n - 1], e[n])
  <2>1. ASSUME NEW n \in 1 .. N PROVE g[n] = NtfsFiller(g[n - 1], e[n])
    <3>1. n \in 0 .. N /\ n # 0
      BY <1>1
    <3>. QED
      BY Zenon, <1>7, <3>1
  <2>. QED
    BY <1>1, <1>7, <2>1
<1>. HIDE DEF F
<1>. DEFINE T == {n \in 0 .. N : Good(g[n], n)}
<1>9. 0 \in T
  <2>1. Good(<< >>, 0)
    BY DEF IsInjective
  <2>. HIDE DEF Good
  <2>. QED
    BY <1>1, <1>8, <2>1
<1>10. ASSUME NEW n \in 1 .. N, n - 1 \in T PROVE n \in T
  <2>. DEFINE x == g[n - 1]
              y == e[n]
  <2>1. Good(x, n - 1) /\ g[n] = NtfsFiller(x, y) /\ y \in Files /\ n \in 0 .. N
    <3>. HIDE DEF Good
    <3>1. n \in 0 .. N /\ y \in Files
      BY <1>1
    <3>2. g[n] = NtfsFiller(x, y)
      BY <1>8
    <3>. QED
      BY <1>10, <3>1, <3>2
  <2>. HIDE DEF x
  <2>2. CASE y \in filtered
    BY <2>1, <2>2 DEF NtfsFiller
  <2>3. CASE y \notin filtered
    <3>1. g[n] = Append(x, y)
      BY <2>1, <2>3 DEF NtfsFiller
    <3>2. ASSUME NEW i \in 1 .. Len(x) PROVE x[i] # y
      <4>1. PICK k \in 1 .. n - 1 : x[i] = e[k]
        BY <2>1
      <4>2. k \in 1 .. N /\ k # n
        BY <1>1
      <4>. QED
        BY <1>2, <4>1, <4>2
    <3>. DEFINE z == Append(x, y)
    <3>3. /\ z \in S /\ Len(z) = Len(x) + 1 /\ Len(x) \in Nat
          /\ \A i \in 1 .. Len(z) : \/ i \in 1 .. Len(x) /\ z[i] = x[i]
                                    \/ i = Len(x) + 1 /\ z[i] = y
      BY <2>1
    <3>4. IsInjective(z)
      <4>1. ASSUME NEW a \in 1 .. Len(z), NEW b \in 1 .. Len(z), z[a] = z[b] PROVE a = b
        BY <2>1, <3>2, <3>3, <4>1 DEF IsInjective
      <4>. QED
        BY <3>3, <4>1 DEF IsInjective
    <3>. HIDE DEF z
    <3>5. Good(z, n)
      BY SMTT(30), <2>1, <2>3, <3>3, <3>4
    <3>. QED
      BY Zenon, <2>1, <3>1, <3>5 DEF z
  <2>. QED
    BY <2>2, <2>3
<1>11. 0 .. N \subseteq T
  <2>. HIDE DEF T
  <2>. QED
    BY Zenon, <1>1, <1>9, <1>10, UpTo
<1>12. Good(Listed(e), N)
  BY <1>1, <1>7, <1>11
<1>. QED
  BY <1>12 DEF NoRepetition

-----------------------------------------------------------------------------
(* The directory on the disk.                                              *)

\* Creating an entry leaves every entry in the index once.
LEMMA InsertFacts ==
    ASSUME NEW s \in Seq(Files), NoRepetition(s), NEW i \in 1 .. Len(s) + 1,
           NEW f \in Files, f \notin Range(s)
    PROVE  InsertAt(s, i, f) \in Seq(Files) /\ NoRepetition(InsertAt(s, i, f))
<1>. DEFINE z == InsertAt(s, i, f)
<1>1. Len(s) \in Nat /\ \A k \in 1 .. Len(s) : s[k] \in Files /\ s[k] # f
  BY DEF Range
<1>2. /\ z \in Seq(Files) /\ Len(z) = Len(s) + 1
      /\ \A k \in 1 .. Len(s) + 1 :
            z[k] = IF k < i THEN s[k] ELSE IF k = i THEN f ELSE s[k - 1]
  <2>1. SubSeq(s, 1, i - 1) \in Seq(Files) /\ Len(SubSeq(s, 1, i - 1)) = i - 1
        /\ \A k \in 1 .. i - 1 : SubSeq(s, 1, i - 1)[k] = s[k]
    BY <1>1
  <2>2. SubSeq(s, i, Len(s)) \in Seq(Files) /\ Len(SubSeq(s, i, Len(s))) = Len(s) - i + 1
        /\ \A k \in 1 .. Len(s) - i + 1 : SubSeq(s, i, Len(s))[k] = s[k + i - 1]
    BY <1>1
  <2>. DEFINE u == SubSeq(s, 1, i - 1)
              v == SubSeq(s, i, Len(s))
              w == u \o <<f>>
  <2>3. z = w \o v
    BY DEF InsertAt
  <2>. HIDE DEF u, v
  <2>4. /\ w \in Seq(Files) /\ Len(w) = i
        /\ \A k \in 1 .. i : w[k] = IF k < i THEN s[k] ELSE f
    BY <1>1, <2>1 DEF u
  <2>. HIDE DEF w
  <2>5. z \in Seq(Files) /\ Len(z) = Len(s) + 1
    BY <1>1, <2>2, <2>3, <2>4 DEF v
  <2>6. ASSUME NEW k \in 1 .. Len(s) + 1
        PROVE  z[k] = IF k < i THEN s[k] ELSE IF k = i THEN f ELSE s[k - 1]
    <3>1. CASE k <= i
      BY <1>1, <2>2, <2>3, <2>4, <3>1 DEF v
    <3>2. CASE k > i
      <4>1. k - i \in 1 .. Len(s) - i + 1 /\ (k - i) + i - 1 = k - 1
        BY <1>1, <3>2
      <4>2. z[k] = v[k - i]
        BY <1>1, <2>2, <2>3, <2>4, <3>2, <4>1 DEF v
      <4>. QED
        BY <2>2, <3>2, <4>1, <4>2 DEF v
    <3>. QED
      BY <1>1, <3>1, <3>2
  <2>. QED
    BY <2>5, <2>6
<1>. HIDE DEF z
<1>3. ASSUME NEW a \in 1 .. Len(s) + 1, NEW b \in 1 .. Len(s) + 1, z[a] = z[b] PROVE a = b
  <2>. DEFINE p(k) == IF k < i THEN k ELSE k - 1
  <2>1. \A k \in 1 .. Len(s) + 1 : k # i => p(k) \in 1 .. Len(s) /\ z[k] = s[p(k)]
    BY <1>1, <1>2
  <2>2. a = i <=> b = i
    <3>1. z[i] = f /\ \A k \in 1 .. Len(s) + 1 : k # i => z[k] # f
      BY <1>1, <1>2, <2>1
    <3>. QED
      BY <1>3, <3>1
  <2>3. a # i => p(a) = p(b)
    BY <1>1, <1>3, <2>1, <2>2 DEF NoRepetition, IsInjective
  <2>4. a \in Int /\ b \in Int /\ i \in Int
    BY <1>1
  <2>5. \A x, y, j \in Int : x # j /\ y # j /\ p(x) = p(y) /\ j = i => x = y
    BY <2>4
  <2>. QED
    BY <2>2, <2>3, <2>4, <2>5
<1>. QED
  BY <1>1, <1>2, <1>3 DEF NoRepetition, IsInjective, z

\* So does deleting one.
LEMMA RemoveFacts ==
    ASSUME NEW s \in Seq(Files), NoRepetition(s), NEW i \in 1 .. Len(s)
    PROVE  RemoveAt(s, i) \in Seq(Files) /\ NoRepetition(RemoveAt(s, i))
  BY RemoveAtFacts, RemoveAtInjective DEF NoRepetition

-----------------------------------------------------------------------------
(* The inductive invariant.                                                *)

\* What is on the disk, and the variables that count.
Surroundings ==
    /\ nameSize \in [Files -> Sizes] /\ pathSize \in [Files -> Sizes]
    /\ filtered \subseteq Special /\ pageZero \in BOOLEAN
    /\ index \in Seq(Files) /\ NoRepetition(index)
    /\ changes \in 0 .. MaxChanges /\ starts \in 0 .. MaxStarts
    /\ handle \in {"none", "root", "opened"} /\ answer \in Answers

\* The list of the handle, made when it was opened.
Listing ==
    /\ SubFiles \in Seq(Files) /\ NoRepetition(SubFiles)
    /\ \A i \in 1 .. Len(SubFiles) : SubFiles[i] \notin filtered
    /\ FileSize = SizeOf(SubFiles)

\* The position is where the last entry that was returned began, plus the
\* size of the answer; that began after the ones returned before.
Reading ==
    /\ returned \in Seq(1 .. Len(SubFiles))
    /\ \A i, j \in 1 .. Len(returned) : i < j => returned[i] < returned[j]
    /\ Position = IF returned = << >> THEN 0
                  ELSE Offset(Last(returned)) + pathSize[SubFiles[Last(returned)]]
    /\ Position \in 0 .. FileSize + MaxSize

DirInv == Surroundings /\ Listing /\ Reading /\ EndMeansAllReturned

\* The size of the directory is the last of the sums.
LEMMA FileSizeFacts ==
    ASSUME Surroundings, Listing
    PROVE  /\ FileSize \in Nat /\ Len(SubFiles) \in Nat
           /\ \A n \in 0 .. Len(SubFiles) : /\ Sums(nameSize, SubFiles)[n] \in Nat
                                            /\ Sums(nameSize, SubFiles)[n] <= FileSize
<1>. DEFINE s == Sums(nameSize, SubFiles)
            N == Len(SubFiles)
<1>1. /\ N \in Nat /\ s \in [0 .. N -> Nat] /\ FileSize = s[N]
      /\ \A i, j \in 0 .. N : i < j => s[i] < s[j]
  <2>1. /\ SubFiles \in Seq(Files) /\ FileSize = SizeOf(SubFiles)
        /\ nameSize \in [Files -> Sizes]
    BY Zenon DEF Surroundings, Listing
  <2>2. s \in [0 .. N -> Nat] /\ \A i, j \in 0 .. N : i < j => s[i] < s[j]
    BY <2>1, SumsDef, SumsIncrease
  <2>3. FileSize = s[N] /\ N \in Nat
    BY <2>1 DEF SizeOf
  <2>. QED
    BY Zenon, <2>2, <2>3
<1>. HIDE DEF s, N
<1>2. ASSUME NEW n \in 0 .. N PROVE s[n] \in Nat /\ s[n] <= FileSize
  <2>1. N \in 0 .. N /\ (n < N \/ n = N)
    BY <1>1
  <2>2. s[n] \in Nat /\ s[N] \in Nat /\ (s[n] < s[N] \/ s[n] = s[N])
    BY <1>1, <2>1
  <2>. QED
    BY <1>1, <2>2
<1>3. FileSize \in Nat
  BY <1>1
<1>. QED
  BY <1>1, <1>2, <1>3 DEF s, N

\* The last entry that was returned is in the list.
LEMMA LastFacts ==
    ASSUME Listing, Reading
    PROVE  /\ Len(returned) \in Nat
           /\ returned = << >> <=> Len(returned) = 0
           /\ returned # << >> => /\ Len(returned) \in 1 .. Len(returned)
                                  /\ Last(returned) \in 1 .. Len(SubFiles)
                                  /\ Given = Last(returned)
                                  /\ SubFiles[Last(returned)] \in Files
           /\ returned = << >> => Given = 0
<1>1. returned \in Seq(1 .. Len(SubFiles)) /\ SubFiles \in Seq(Files)
  BY DEF Listing, Reading
<1>2. Len(returned) \in Nat /\ (returned = << >> <=> Len(returned) = 0)
  BY <1>1
<1>3. returned # << >> => /\ Len(returned) \in 1 .. Len(returned)
                          /\ returned[Len(returned)] \in 1 .. Len(SubFiles)
  BY <1>1, <1>2
<1>. QED
  BY <1>1, <1>2, <1>3 DEF Last, Given

\* When the sizes agree, the position is the offset of the entry after the
\* ones that were returned.
LEMMA PositionAgrees ==
    ASSUME Surroundings, Listing, Reading, SizesAgree
    PROVE  Given \in 0 .. Len(SubFiles) /\ Position = Sums(nameSize, SubFiles)[Given]
<1>. DEFINE s == Sums(nameSize, SubFiles)
            N == Len(SubFiles)
<1>1. N \in Nat /\ s[0] = 0 /\ \A n \in 1 .. N : s[n] = s[n - 1] + nameSize[SubFiles[n]]
  <2>1. nameSize \in [Files -> Sizes] /\ SubFiles \in Seq(Files)
    BY DEF Surroundings, Listing
  <2>2. N \in Nat
    BY <2>1
  <2>. QED
    BY <2>1, <2>2, SumsDef
<1>. HIDE DEF s, N
<1>2. CASE returned = << >>
  BY <1>1, <1>2, LastFacts DEF Reading, s, N
<1>3. CASE returned # << >>
  <2>1. Given \in 1 .. N /\ Position = s[Given - 1] + pathSize[SubFiles[Given]] /\ SubFiles[Given] \in Files
    BY <1>3, LastFacts DEF Reading, Offset, s, N
  <2>2. Position = s[Given] /\ Given \in 0 .. N
    BY <1>1, <2>1 DEF SizesAgree
  <2>. QED
    BY <2>2 DEF s, N
<1>. QED
  BY <1>2, <1>3

\* The entry the search loop stops at: it lies after the last one returned,
\* and when the sizes agree it is the next one.
LEMMA SearchFacts ==
    ASSUME Surroundings, Listing, Reading, AtPosition # {}
    PROVE  LET i == Min(AtPosition)
           IN  /\ i \in 1 .. Len(SubFiles) /\ Offset(i) = Position
               /\ returned # << >> => Last(returned) < i
               /\ SizesAgree => i = Given + 1
<1>. DEFINE s == Sums(nameSize, SubFiles)
            N == Len(SubFiles)
            i == Min(AtPosition)
<1>1. /\ N \in Nat /\ s \in [0 .. N -> Nat]
      /\ \A a, b \in 0 .. N : a < b => s[a] < s[b]
  <2>1. nameSize \in [Files -> Sizes] /\ SubFiles \in Seq(Files)
    BY DEF Surroundings, Listing
  <2>2. N \in Nat
    BY <2>1
  <2>. QED
    BY Zenon, <2>1, <2>2, SumsDef, SumsIncrease
<1>2. i \in AtPosition
  <2>1. AtPosition \in SUBSET Nat
    BY DEF AtPosition, Listing
  <2>2. \E x \in AtPosition : \A y \in AtPosition : x <= y
    BY <2>1, LeastNumber
  <2>. QED
    BY <2>2 DEF Min
<1>. HIDE DEF i
<1>3. i \in 1 .. N /\ s[i - 1] = Position /\ Offset(i) = Position
  BY <1>2 DEF AtPosition, Offset, Listing
<1>. HIDE DEF s, N
<1>4. i - 1 \in 0 .. N
  BY <1>1, <1>3
<1>5. ASSUME returned # << >> PROVE Last(returned) < i
  <2>. DEFINE l == Last(returned)
              p == pathSize[SubFiles[l]]
  <2>1. l \in 1 .. N /\ p \in Nat /\ p > 0 /\ Position = s[l - 1] + p
    <3>1. l \in 1 .. N /\ SubFiles[l] \in Files /\ Position = s[l - 1] + p
      BY <1>5, LastFacts DEF Reading, Offset, s, N
    <3>2. p \in 1 .. MaxSize
      BY <3>1 DEF Surroundings, Sizes
    <3>. QED
      BY <3>1, <3>2, DirectoryAssumption
  <2>. HIDE DEF l, p
  <2>2. l - 1 \in 0 .. N
    BY <1>1, <2>1
  <2>3. s[l - 1] < s[i - 1] /\ s[l - 1] \in Nat /\ s[i - 1] \in Nat
    BY <1>1, <1>3, <1>4, <2>1, <2>2
  <2>4. ~ (i - 1 < l - 1) /\ i - 1 # l - 1
    BY <1>1, <1>4, <2>2, <2>3
  <2>5. l < i
    BY <1>3, <2>1, <2>4
  <2>. QED
    BY <2>5 DEF l
<1>6. ASSUME SizesAgree PROVE i = Given + 1
  <2>1. Given \in 0 .. N /\ s[Given] = s[i - 1]
    BY <1>3, <1>6, PositionAgrees DEF s, N
  <2>2. s[Given] \in Nat /\ s[i - 1] \in Nat
    BY <1>1, <1>4, <2>1
  <2>3. ~ (Given < i - 1) /\ ~ (i - 1 < Given)
    BY <1>1, <1>4, <2>1, <2>2
  <2>. QED
    BY <1>3, <2>1, <2>3
<1>. QED
  BY <1>3, <1>5, <1>6 DEF i, N

\* Reading an entry keeps the position at the end of the last one returned.
LEMMA EntryStep ==
    ASSUME Surroundings, Listing, Reading, AtPosition # {}, Position <= FileSize,
           Position' = Position + pathSize[SubFiles[Min(AtPosition)]],
           returned' = Append(returned, Min(AtPosition)),
           UNCHANGED <<disk, SubFiles, FileSize>>
    PROVE  Reading' /\ Given' = Min(AtPosition)
<1>. DEFINE i == Min(AtPosition)
            N == Len(SubFiles)
            L == Len(returned)
<1>1. /\ i \in 1 .. N /\ Offset(i) = Position
      /\ returned # << >> => Last(returned) < i
  BY SearchFacts
<1>2. /\ L \in Nat /\ N \in Nat /\ returned \in Seq(1 .. N)
      /\ \A a, b \in 1 .. L : a < b => returned[a] < returned[b]
      /\ L # 0 => Last(returned) = returned[L]
      /\ returned = << >> <=> L = 0
  BY LastFacts, FileSizeFacts DEF Reading, Last
<1>3. SubFiles' = SubFiles /\ Position' = Position + pathSize[SubFiles[i]] /\ returned' = Append(returned, i)
      /\ nameSize' = nameSize /\ pathSize' = pathSize /\ FileSize' = FileSize
  BY DEF disk
<1>. HIDE DEF i
<1>4. returned' \in Seq(1 .. N) /\ Len(returned') = L + 1 /\ returned'[L + 1] = i
      /\ \A a \in 1 .. L : returned'[a] = returned[a]
  BY <1>1, <1>2, <1>3
<1>. HIDE DEF N, L
<1>5. \A a, b \in 1 .. Len(returned') : a < b => returned'[a] < returned'[b]
  <2>. SUFFICES ASSUME NEW a \in 1 .. L + 1, NEW b \in 1 .. L + 1, a < b
                PROVE  returned'[a] < returned'[b]
    BY <1>4
  <2>1. CASE b <= L
    <3>1. a \in 1 .. L /\ b \in 1 .. L
      BY <1>2, <2>1
    <3>. QED
      BY <1>2, <1>4, <3>1
  <2>2. CASE b = L + 1
    <3>1. a \in 1 .. L /\ L \in 1 .. L /\ L # 0 /\ (a < L \/ a = L)
      BY <1>2, <2>2
    <3>2. returned[a] < returned[L] \/ returned[a] = returned[L]
      BY <1>2, <3>1
    <3>3. returned[a] \in 1 .. N /\ returned[L] \in 1 .. N /\ returned[L] < i
      BY SMTT(30), <1>1, <1>2, <3>1 DEF L
    <3>4. returned[a] < i
      BY <1>1, <1>2, <3>2, <3>3
    <3>. QED
      BY <1>4, <2>2, <3>1, <3>4
  <2>3. b <= L \/ b = L + 1
    BY <1>2
  <2>. QED
    BY Zenon, <2>1, <2>2, <2>3
<1>6. returned' # << >> /\ Last(returned') = i
  BY <1>2, <1>4 DEF Last
<1>7. pathSize[SubFiles[i]] \in 1 .. MaxSize
  <2>1. SubFiles[i] \in Files
    BY <1>1 DEF Listing, N
  <2>. QED
    BY <2>1 DEF Surroundings, Sizes
<1>8. Position' \in 0 .. FileSize + MaxSize
  <2>1. Position \in 0 .. FileSize + MaxSize /\ FileSize \in Nat
    BY FileSizeFacts DEF Reading
  <2>. QED
    BY <1>3, <1>7, <2>1, DirectoryAssumption
<1>9. Position' = Sums(nameSize', SubFiles')[Last(returned') - 1] + pathSize'[SubFiles'[Last(returned')]]
  BY <1>1, <1>3, <1>6 DEF Offset
<1>. QED
  BY Zenon, <1>3, <1>4, <1>5, <1>6, <1>8, <1>9 DEF Reading, Given, Offset, N, i

\* A handle that has returned nothing yet.
LEMMA StartStep ==
    ASSUME Surroundings', Listing', Position' = 0, returned' = << >>
    PROVE  Reading' /\ Given' = 0
<1>1. FileSize' \in Nat
  <2>1. nameSize' \in [Files -> Sizes] /\ SubFiles' \in Seq(Files)
        /\ FileSize' = Sums(nameSize', SubFiles')[Len(SubFiles')]
    BY DEF Surroundings, Listing, SizeOf
  <2>2. Sums(nameSize', SubFiles') \in [0 .. Len(SubFiles') -> Nat]
    BY <2>1, SumsDef
  <2>3. Len(SubFiles') \in 0 .. Len(SubFiles')
    BY <2>1
  <2>. QED
    BY <2>1, <2>2, <2>3
<1>2. returned' \in Seq(1 .. Len(SubFiles')) /\ Len(returned') = 0
  OBVIOUS
<1>3. Position' \in 0 .. FileSize' + MaxSize
  <2>1. MaxSize \in Nat
    BY DirectoryAssumption
  <2>2. \A x, y \in Nat : 0 \in 0 .. x + y
    OBVIOUS
  <2>. QED
    BY Zenon, <1>1, <2>1, <2>2
<1>. QED
  BY <1>2, <1>3 DEF Reading, Given

\* The steps of the iterator that the model's variables show.
IteratorStep == Iterator!Next \/ UNCHANGED Iterator!vars

\* The invariant holds in the initial states.
LEMMA InitDir == Init => DirInv /\ Iterator!Init
<1>. SUFFICES ASSUME Init PROVE DirInv /\ Iterator!Init
  OBVIOUS
<1>1. index \in Seq(Files)
  BY DEF Init, SeqOf
<1>2. Surroundings
  BY <1>1, DirectoryAssumption DEF Init, Surroundings, Answers
<1>3. SubFiles = << >> /\ << >> \in Seq(Files) /\ Len(SubFiles) = 0 /\ FileSize = 0 /\ Position = 0 /\ returned = << >>
      /\ answer = "none" /\ nameSize \in [Files -> Sizes]
  BY DEF Init
<1>4. Listing
  <2>1. SizeOf(SubFiles) = 0
    <3>1. Sums(nameSize, SubFiles)[0] = 0
      BY Zenon, <1>3, SumsDef
    <3>. QED
      BY <1>3, <3>1 DEF SizeOf
  <2>. QED
    BY <1>3, <2>1 DEF Listing, NoRepetition, IsInjective
<1>5. Reading
  <2>1. MaxSize \in Nat
    BY DirectoryAssumption
  <2>2. 0 \in 0 .. 0 + MaxSize
    BY <2>1
  <2>. QED
    BY <1>3, <2>2 DEF Reading
<1>6. EndMeansAllReturned
  BY <1>3 DEF EndMeansAllReturned
<1>7. Iterator!Init
  BY <1>3 DEF Iterator!Init, Given
<1>. QED
  BY <1>2, <1>4, <1>5, <1>6, <1>7 DEF DirInv

\* A step that leaves the handle alone.
LEMMA HandleStep ==
    ASSUME DirInv, Surroundings', UNCHANGED <<disk, handle, SubFiles, FileSize, Position, returned>>,
           UNCHANGED answer \/ handle # "opened" \/ answer' \in {"too_small", "halt"}
    PROVE  DirInv' /\ IteratorStep
<1>1. Listing'
  BY DEF DirInv, Listing, SizeOf, disk
<1>2. Reading'
  BY DEF DirInv, Reading, Offset, disk
<1>3. EndMeansAllReturned'
  BY DEF DirInv, EndMeansAllReturned, SizesAgree, Given, disk
<1>4. UNCHANGED Iterator!vars
  BY DEF Iterator!vars, SizesAgree, Given, disk
<1>. QED
  BY <1>1, <1>2, <1>3, <1>4 DEF DirInv, IteratorStep

\* IndexChange changes the directory on the disk only.
LEMMA IndexStep ==
    ASSUME DirInv, IndexChange
    PROVE  DirInv' /\ IteratorStep
<1>1. index \in Seq(Files) /\ NoRepetition(index)
  BY DEF DirInv, Surroundings
<1>2. index' \in Seq(Files) /\ NoRepetition(index')
  <2>1. CASE \E f \in Files \ Range(index), i \in 1 .. Len(index) + 1 : index' = InsertAt(index, i, f)
    BY <1>1, <2>1, InsertFacts
  <2>2. CASE \E i \in DOMAIN index : index' = RemoveAt(index, i)
    <3>1. DOMAIN index = 1 .. Len(index)
      BY <1>1
    <3>. QED
      BY <1>1, <2>2, <3>1, RemoveFacts
  <2>. QED
    BY <2>1, <2>2 DEF IndexChange
<1>3. changes' \in 0 .. MaxChanges
  BY DirectoryAssumption DEF IndexChange, DirInv, Surroundings
<1>4. NoRepetition(index)'
  BY <1>2 DEF NoRepetition
<1>5. Surroundings'
  BY <1>2, <1>3, <1>4 DEF DirInv, Surroundings, IndexChange, disk
<1>. QED
  BY <1>5, HandleStep DEF IndexChange

\* Opening a handle or setting its position to zero.
LEMMA StartsStep ==
    ASSUME DirInv, Start, Listing', Position' = 0, returned' = << >>, answer' = "none",
           handle' \in {"none", "root", "opened"}, UNCHANGED <<disk, index, changes>>
    PROVE  DirInv' /\ IteratorStep
<1>1. starts' \in 0 .. MaxStarts
  BY DirectoryAssumption DEF Start, DirInv, Surroundings
<1>2. Surroundings'
  BY <1>1 DEF DirInv, Surroundings, disk, Answers
<1>3. Reading' /\ Given' = 0
  BY <1>2, StartStep
<1>4. EndMeansAllReturned'
  BY DEF EndMeansAllReturned
<1>5. Iterator!Open
  <2>1. SizesAgree' <=> SizesAgree
    BY DEF SizesAgree, disk
  <2>2. SubFiles' \in Seq(Files) /\ << >> \in Seq(Files)
    BY DEF Listing
  <2>. QED
    BY <1>3, <2>1, <2>2 DEF Iterator!Open
<1>. QED
  BY <1>2, <1>3, <1>4, <1>5 DEF DirInv, IteratorStep, Iterator!Next

\* NtfsOpenVolume, NtfsOFileOpen and NtfsSetPosition leave a handle with a
\* list and nothing returned.
LEMMA OpenSteps ==
    ASSUME DirInv, NtfsOpenVolume \/ NtfsOFileOpen \/ NtfsSetPosition
    PROVE  DirInv' /\ IteratorStep
<1>1. nameSize \in [Files -> Sizes] /\ index \in Seq(Files) /\ NoRepetition(index) /\ Len(index) \in Nat
  BY DEF DirInv, Surroundings
<1>2. CASE NtfsOpenVolume
  <2>1. SubFiles' = << >> /\ FileSize' = 0 /\ nameSize' = nameSize
    BY <1>2 DEF NtfsOpenVolume, disk
  <2>2. << >> \in Seq(Files) /\ Len(SubFiles') = 0 /\ NoRepetition(SubFiles)'
    BY <2>1 DEF NoRepetition, IsInjective
  <2>3. Sums(nameSize, << >>)[0] = 0
    BY Zenon, <1>1, <2>2, SumsDef
  <2>4. Listing'
    BY <2>1, <2>2, <2>3 DEF Listing, SizeOf
  <2>. QED
    BY <1>2, <2>4, StartsStep DEF NtfsOpenVolume
<1>3. CASE NtfsOFileOpen
  <2>1. PICK n \in 0 .. Len(index) : SubFiles' = Listed(SubSeq(index, 1, n)) /\ FileSize' = SizeOf(SubFiles')
    BY <1>3 DEF NtfsOFileOpen
  <2>. DEFINE e == SubSeq(index, 1, n)
  <2>2. e \in Seq(Files) /\ Len(e) = n /\ \A i \in 1 .. n : e[i] = index[i] /\ i \in 1 .. Len(index)
    BY <1>1
  <2>3. NoRepetition(e)
    <3>1. DOMAIN index = 1 .. Len(index) /\ DOMAIN e = 1 .. n
      BY <1>1, <2>2
    <3>2. \A a, b \in 1 .. Len(index) : index[a] = index[b] => a = b
      BY <1>1, <3>1 DEF NoRepetition, IsInjective
    <3>. HIDE DEF e
    <3>. QED
      BY <2>2, <3>1, <3>2 DEF NoRepetition, IsInjective
  <2>. HIDE DEF e
  <2>4. SubFiles' \in Seq(Files) /\ NoRepetition(SubFiles')
        /\ \A i \in 1 .. Len(SubFiles') : SubFiles'[i] \notin filtered
    BY Zenon, <2>1, <2>2, <2>3, ListedFacts DEF e
  <2>5. FileSize' = Sums(nameSize, SubFiles')[Len(SubFiles')] /\ nameSize' = nameSize /\ filtered' = filtered
    BY <1>3, <2>1 DEF NtfsOFileOpen, SizeOf, disk
  <2>6. NoRepetition(SubFiles)'
    BY <2>4 DEF NoRepetition
  <2>7. Listing'
    BY <2>4, <2>5, <2>6 DEF Listing, SizeOf
  <2>. QED
    BY <1>3, <2>7, StartsStep DEF NtfsOFileOpen
<1>4. CASE NtfsSetPosition
  <2>1. Listing'
    BY <1>4 DEF NtfsSetPosition, DirInv, Listing, SizeOf, disk
  <2>2. handle' \in {"none", "root", "opened"}
    BY <1>4 DEF NtfsSetPosition, DirInv, Surroundings
  <2>. QED
    BY <1>4, <2>1, <2>2, StartsStep DEF NtfsSetPosition
<1>. QED
  BY <1>2, <1>3, <1>4

\* NtfsIFileAccess on a handle that was opened.
LEMMA ReadStep ==
    ASSUME DirInv, NEW b, NtfsIFileAccess(b)
    PROVE  DirInv' /\ IteratorStep
<1>1. /\ Surroundings /\ Listing /\ Reading
      /\ UNCHANGED <<disk, index, changes, handle, SubFiles, FileSize, starts>>
  BY DEF DirInv, NtfsIFileAccess
<1>2. answer' \in Answers => Surroundings'
  BY <1>1 DEF Surroundings, disk
<1>3. Listing'
  BY <1>1 DEF Listing, SizeOf, disk
<1>4. SizesAgree' <=> SizesAgree
  BY <1>1 DEF SizesAgree, disk
<1>5. /\ Position \in Nat /\ FileSize \in Nat /\ Len(SubFiles) \in Nat
      /\ DOMAIN SubFiles = 1 .. Len(SubFiles)
  <2>1. Position \in 0 .. FileSize + MaxSize /\ SubFiles \in Seq(Files)
    BY <1>1 DEF Reading, Listing
  <2>. QED
    BY <1>1, <2>1, FileSizeFacts
<1>6. CASE UNCHANGED <<Position, returned>> /\ answer' \in {"error", "end"} /\ (answer' = "error" <=> Position > FileSize)
           /\ (answer' = "end" => AtPosition = {})
  <2>1. Surroundings' /\ Reading' /\ UNCHANGED Iterator!vars
    BY <1>1, <1>2, <1>4, <1>6 DEF Answers, Reading, Offset, disk, Iterator!vars, Given
  <2>2. ASSUME SizesAgree PROVE answer' # "error" /\ (answer' = "end" => Given = Len(SubFiles))
    <3>1. Given \in 0 .. Len(SubFiles) /\ Position = Sums(nameSize, SubFiles)[Given]
      BY <1>1, <2>2, PositionAgrees
    <3>2. Position <= FileSize
      BY <1>1, <3>1, FileSizeFacts
    <3>3. ASSUME Given # Len(SubFiles) PROVE AtPosition # {}
      <4>1. Given + 1 \in 1 .. Len(SubFiles) /\ (Given + 1) - 1 = Given
        <5>1. \A n \in Nat : \A g \in 0 .. n : g # n => g + 1 \in 1 .. n /\ (g + 1) - 1 = g
          OBVIOUS
        <5>. QED
          BY Zenon, <1>5, <3>1, <3>3, <5>1
      <4>2. Given + 1 \in AtPosition
        BY <1>5, <3>1, <4>1 DEF AtPosition, Offset
      <4>. QED
        BY SMTT(30), <4>2
    <3>4. ~ (Position > FileSize)
      BY <1>5, <3>2
    <3>. QED
      BY <1>6, <3>3, <3>4
  <2>3. EndMeansAllReturned'
    BY <1>1, <1>4, <1>6, <2>2 DEF EndMeansAllReturned, Given
  <2>. QED
    BY <1>3, <2>1, <2>3 DEF DirInv, IteratorStep
<1>7. CASE UNCHANGED <<Position, returned>> /\ answer' \in {"too_small", "halt"}
  BY <1>1, <1>2, <1>7, HandleStep DEF Answers
<1>8. CASE /\ ~ (Position > FileSize) /\ AtPosition # {} /\ answer' = "entry"
           /\ Position' = Position + pathSize[SubFiles[Min(AtPosition)]]
           /\ returned' = Append(returned, Min(AtPosition))
  <2>1. Position <= FileSize
    BY <1>5, <1>8
  <2>2. Reading' /\ Given' = Min(AtPosition)
    BY <1>1, <1>8, <2>1, EntryStep
  <2>3. Surroundings' /\ EndMeansAllReturned'
    BY <1>2, <1>8 DEF Answers, EndMeansAllReturned
  <2>4. CASE SizesAgree
    <3>1. Min(AtPosition) \in 1 .. Len(SubFiles) /\ Min(AtPosition) = Given + 1
      BY <1>1, <1>8, <2>4, SearchFacts
    <3>2. Given \in 0 .. Len(SubFiles)
      BY <1>1, <2>4, PositionAgrees
    <3>3. Given < Len(SubFiles) /\ Given' = Given + 1
      BY <1>5, <2>2, <3>1, <3>2
    <3>4. Iterator!ReadEntry
      BY <1>1, <1>4, <2>4, <3>3 DEF Iterator!ReadEntry
    <3>. QED
      BY SMTT(30), <1>3, <2>2, <2>3, <3>4 DEF DirInv, IteratorStep, Iterator!Next
  <2>5. CASE ~ SizesAgree
    <3>1. UNCHANGED Iterator!vars
      BY <1>4, <2>5 DEF Iterator!vars
    <3>. QED
      BY <1>3, <2>2, <2>3, <3>1 DEF DirInv, IteratorStep
  <2>. QED
    BY <2>4, <2>5
<1>9. CASE Position > FileSize
  BY <1>6, <1>9 DEF NtfsIFileAccess
<1>10. CASE ~ (Position > FileSize) /\ AtPosition = {}
  BY <1>6, <1>10 DEF NtfsIFileAccess
<1>11. CASE ~ (Position > FileSize) /\ AtPosition # {}
  <2>1. ReadEntry(Min(AtPosition), b)
    BY <1>11 DEF NtfsIFileAccess
  <2>. QED
    BY <1>7, <1>8, <1>11, <2>1 DEF ReadEntry
<1>. QED
  BY <1>9, <1>10, <1>11

\* Every step keeps the invariant, and is a step of the iterator or leaves it
\* as it is.
LEMMA NextDir == DirInv /\ [Next]_vars => DirInv' /\ IteratorStep
<1>. SUFFICES ASSUME DirInv, [Next]_vars PROVE DirInv' /\ IteratorStep
  OBVIOUS
<1>1. CASE IndexChange
  BY <1>1, IndexStep
<1>2. CASE NtfsOpenVolume \/ NtfsOFileOpen \/ NtfsSetPosition
  BY <1>2, OpenSteps
<1>3. CASE NtfsRead
  BY <1>3, ReadStep DEF NtfsRead
<1>4. CASE NtfsIFileAccessRoot
  <2>1. Surroundings'
    BY <1>4 DEF NtfsIFileAccessRoot, DirInv, Surroundings, disk, Answers
  <2>. QED
    BY <1>4, <2>1, HandleStep DEF NtfsIFileAccessRoot
<1>5. CASE UNCHANGED vars
  <2>1. Surroundings'
    BY <1>5 DEF DirInv, Surroundings, vars, disk
  <2>. QED
    BY <1>5, <2>1, HandleStep DEF vars
<1>. QED
  BY <1>1, <1>2, <1>3, <1>4, <1>5 DEF Next, Halted

\* Every step of ntfs_file_read on a directory and of its surroundings keeps
\* the invariant.
LEMMA DirInvariance == Spec => []DirInv
  BY InitDir, NextDir, PTL DEF Spec
-----------------------------------------------------------------------------
(***************************************************************************)
(* Whatever the two sizes of the entries are, a handle of any directory    *)
(* never returns an entry twice, and returns them in the order of the list *)
(* that NtfsFiller made.                                                   *)
(***************************************************************************)
THEOREM EntriesComeInOrder == Spec => []InOrder
<1>1. DirInv => InOrder
  <2>. SUFFICES ASSUME DirInv PROVE InOrder
    OBVIOUS
  <2>1. /\ SubFiles \in Seq(Files) /\ index \in Seq(Files) /\ returned \in Seq(1 .. Len(SubFiles))
        /\ \A i \in 1 .. Len(SubFiles) : SubFiles[i] \notin filtered
        /\ \A i, j \in 1 .. Len(returned) : i < j => returned[i] < returned[j]
    BY DEF DirInv, Surroundings, Listing, Reading
  <2>2. DOMAIN returned = 1 .. Len(returned) /\ DOMAIN SubFiles = 1 .. Len(SubFiles) /\ DOMAIN index = 1 .. Len(index)
    BY <2>1
  <2>3. \A i \in DOMAIN index : index[i] \in Files
    BY <2>1
  <2>4. \A i \in DOMAIN SubFiles : SubFiles[i] \in Files \ filtered
    BY <2>1
  <2>5. \A i \in DOMAIN returned : returned[i] \in DOMAIN SubFiles
    BY <2>1, <2>2
  <2>6. Range(index) \subseteq Files /\ Range(SubFiles) \subseteq Files \ filtered /\ Range(returned) \subseteq DOMAIN SubFiles
    BY <2>3, <2>4, <2>5 DEF Range
  <2>7. TypeOK
    BY <2>6 DEF TypeOK, DirInv, Surroundings, Listing, Reading
  <2>. QED
    BY <2>1, <2>2, <2>7 DEF InOrder
<1>. QED
  BY <1>1, DirInvariance, PTL

(***************************************************************************)
(* When the name in the index and the path of the inode give every entry   *)
(* the same size, the empty answer of NtfsIFileAccess comes after the last *)
(* entry only and no read fails, for any number of entries of any sizes.   *)
(***************************************************************************)
THEOREM EndAfterTheLast == Spec => []EndMeansAllReturned
<1>1. DirInv => EndMeansAllReturned
  BY DEF DirInv
<1>. QED
  BY <1>1, DirInvariance, PTL

(***************************************************************************)
(* When the sizes agree, opening, reading and rewinding a directory        *)
(* implements the iterator of DirIterator.                                 *)
(***************************************************************************)
THEOREM ReadsLikeAnIterator == Spec => ImplementsIterator
<1>1. DirInv /\ [Next]_vars => [Iterator!Next]_(Iterator!vars)
  BY NextDir DEF IteratorStep
<1>2. Init => Iterator!Init
  BY InitDir
<1>. QED
  BY <1>1, <1>2, DirInvariance, PTL DEF Spec, ImplementsIterator, Iterator!Spec

=============================================================================
