--------------------------- MODULE HotPatchProofs ---------------------------
(***************************************************************************)
(* Theorems about HotPatch, for every value of its constants: every set of *)
(* patch names, every number of versions, of APKs and of failures.         *)
(*                                                                         *)
(* The four properties follow from one invariant, PatchInv.  It adds to    *)
(* them what the order in which the code works establishes: where a call   *)
(* is relative to the map, that the files are those of the installed APK   *)
(* from the purge on, and which directories there are.                     *)
(***************************************************************************)
EXTENDS HotPatch, FiniteSetTheorems, SequenceTheorems, WellFoundedInduction, TLAPS

\* What the class loader's list can hold.
Entries == {Base, Bundles} \cup (Names \X Versions \X Apks)

\* A process that is not up yet has neither patches nor a map.
IdleInv ==
  /\ proc # "up" => sortedMap = NoMap /\ live = {}
  /\ proc = "down" => dexElements = <<>>
  /\ proc \in {"purge", "run"} => dexElements = <<Base>>

\* A call works beyond the map until its item is entered, and on an entry afterwards.
CallInv ==
  /\ call \in {"open", "write"} => dir[slot] /\ \A v \in Mapped : v < slot[2]
  /\ call = "load" => /\ sortedMap[slot[2]] = slot[1] /\ slot[2] \notin live
                      /\ \A v \in Mapped : v <= slot[2]
  /\ call = "undo" => sortedMap[slot[2]] = slot[1] /\ zip[slot] = Absent

\* Once purged, and with the key of the installed APK stored, the patches are of that APK.
FreshInv ==
  /\ prefKey <= apkKey
  /\ prefKey = apkKey \/ proc \in {"run", "up"} =>
       \A s \in Slots : zip[s] \in Apks => zip[s] = apkKey

\* Until an install fails, no version has two directories and the map has all of them.
MapDirs == {<<sortedMap[v], v>> : v \in Mapped}
DirsInv ==
  ~leftover =>
    /\ \A s, t \in Dirs : s[2] = t[2] => s = t
    /\ proc = "up" => Dirs = MapDirs \cup (IF call \in {"open", "write"} THEN {slot} ELSE {})

\* Where a class loader that searches q from the front finds e, and what it can find.
FirstAt(q, e) == CHOOSE i \in 1..Len(q) : q[i] = e /\ \A j \in 1..(i - 1) : q[j] # e
Found(q) == {q[i] : i \in 1..Len(q)}

\* A list q of an APK k: the patches of k before the bundles, and those of the map m that were
\* loaded, whose versions are l, among them and newest first.
Ordered(q, m, l, k) ==
  /\ q \in Seq(Entries)
  /\ \A v \in l : <<m[v], v, k>> \in Found(q)
  /\ \A v, w \in l : v < w => FirstAt(q, <<m[w], w, k>>) < FirstAt(q, <<m[v], v, k>>)
  /\ \A e \in Found(q) \ {Base, Bundles} :
       /\ e[3] = k
       /\ Bundles \in Found(q) => FirstAt(q, e) < FirstAt(q, Bundles)
LoaderInv == Ordered(dexElements, sortedMap, live, apkKey)

PatchInv == TypeOK /\ IdleInv /\ CallInv /\ FreshInv /\ DirsInv /\ LoaderInv

-----------------------------------------------------------------------------
(* Sequences.                                                              *)

\* There is only one first place.
LEMMA FirstIs ==
  ASSUME NEW T, NEW q \in Seq(T), NEW e, NEW i \in 1..Len(q),
         q[i] = e, \A j \in 1..(i - 1) : q[j] # e
  PROVE  FirstAt(q, e) = i
<1>1. Len(q) \in Nat
  OBVIOUS
<1>2. ASSUME NEW k \in 1..Len(q), q[k] = e, \A j \in 1..(k - 1) : q[j] # e PROVE k = i
  <2>1. ~(i < k) /\ ~(k < i)
    BY <1>1, <1>2
  <2> QED BY <1>1, <2>1
<1> QED BY <1>2 DEF FirstAt

\* An entry of the list has a first place.
LEMMA FirstExists ==
  ASSUME NEW T, NEW q \in Seq(T), NEW e, NEW i \in 1..Len(q), q[i] = e
  PROVE  /\ FirstAt(q, e) \in 1..Len(q) /\ FirstAt(q, e) <= i
         /\ q[FirstAt(q, e)] = e
         /\ \A j \in 1..(FirstAt(q, e) - 1) : q[j] # e
<1> DEFINE P == {k \in 1..Len(q) : q[k] = e}
<1>1. Len(q) \in Nat /\ P \subseteq Nat /\ i \in P
  OBVIOUS
<1>2. PICK m \in P : \A k \in P : ~(<<k, m>> \in OpToRel(<, Nat))
  <2> HIDE DEF P
  <2> QED BY <1>1, WFMin, NatLessThanWellFounded
<1>3. \A k \in P : ~(k < m)
  <2> HIDE DEF P
  <2> QED BY <1>1, <1>2 DEF OpToRel
<1>4. \A j \in 1..(m - 1) : q[j] # e
  BY <1>1, <1>3
<1>5. FirstAt(q, e) = m
  BY <1>4, FirstIs
<1> QED BY <1>1, <1>3, <1>4, <1>5

\* expandFieldArray in front: the new entry is found first, the others one place later.
LEMMA FirstCons ==
  ASSUME NEW T, NEW q \in Seq(T), NEW d \in T
  PROVE  /\ FirstAt(<<d>> \o q, d) = 1
         /\ \A e, i : i \in 1..Len(q) /\ q[i] = e /\ e # d
                        => FirstAt(<<d>> \o q, e) = FirstAt(q, e) + 1
<1> DEFINE r == <<d>> \o q
<1>1. /\ r \in Seq(T) /\ Len(r) = Len(q) + 1 /\ Len(q) \in Nat /\ r[1] = d
      /\ \A i \in 1..Len(q) : r[i + 1] = q[i]
  OBVIOUS
<1>2. FirstAt(r, d) = 1
  <2> HIDE DEF r
  <2>1. 1 \in 1..Len(r) /\ \A j \in 1..(1 - 1) : r[j] # d
    BY <1>1
  <2> QED BY <1>1, <2>1, FirstIs
<1>3. ASSUME NEW e, NEW i \in 1..Len(q), q[i] = e, e # d
      PROVE  FirstAt(r, e) = FirstAt(q, e) + 1
  <2> DEFINE f == FirstAt(q, e)
  <2>1. f \in 1..Len(q) /\ q[f] = e /\ \A j \in 1..(f - 1) : q[j] # e
    BY <1>3, FirstExists
  <2>0. f = FirstAt(q, e)
    OBVIOUS
  <2> HIDE DEF r, f
  <2>2. f + 1 \in 1..Len(r) /\ r[f + 1] = e
    BY <1>1, <2>1
  <2>3. ASSUME NEW j \in 1..f PROVE r[j] # e
    <3>1. CASE j = 1
      BY <1>1, <1>3, <3>1
    <3>2. CASE j # 1
      <4>1. PICK k : k = j - 1
        OBVIOUS
      <4>2. k \in 1..(f - 1) /\ k \in 1..Len(q) /\ j = k + 1
        BY <1>1, <2>1, <3>2, <4>1
      <4> QED BY <1>1, <2>1, <4>2
    <3> QED BY <3>1, <3>2
  <2>4. FirstAt(r, e) = f + 1
    <3>1. PICK g : g = f + 1
      OBVIOUS
    <3>0. 1..(g - 1) = 1..f
      BY <2>1, <3>1
    <3>2. g \in 1..Len(r) /\ r[g] = e /\ \A j \in 1..(g - 1) : r[j] # e
      BY <2>2, <2>3, <3>0, <3>1
    <3>3. r \in Seq(T)
      BY <1>1
    <3>4. FirstAt(r, e) = g
      BY <3>2, <3>3, FirstIs
    <3> QED BY <3>1, <3>4
  <2> QED BY <2>0, <2>4
<1> QED BY <1>2, <1>3 DEF r

\* expandFieldArray behind: an entry that is there already is found where it was, a new one last.
LEMMA FirstSnoc ==
  ASSUME NEW T, NEW q \in Seq(T), NEW d \in T
  PROVE  /\ \A e, i : i \in 1..Len(q) /\ q[i] = e => FirstAt(q \o <<d>>, e) = FirstAt(q, e)
         /\ (\A i \in 1..Len(q) : q[i] # d) => FirstAt(q \o <<d>>, d) = Len(q) + 1
<1> DEFINE r == q \o <<d>>
<1>1. /\ r \in Seq(T) /\ Len(r) = Len(q) + 1 /\ Len(q) \in Nat /\ r[Len(q) + 1] = d
      /\ \A i \in 1..Len(q) : r[i] = q[i]
  OBVIOUS
<1>2. ASSUME NEW e, NEW i \in 1..Len(q), q[i] = e PROVE FirstAt(r, e) = FirstAt(q, e)
  <2> DEFINE f == FirstAt(q, e)
  <2>1. f \in 1..Len(q) /\ q[f] = e /\ \A j \in 1..(f - 1) : q[j] # e
    BY <1>2, FirstExists
  <2>0. f = FirstAt(q, e)
    OBVIOUS
  <2> HIDE DEF r, f
  <2>2. f \in 1..Len(r) /\ r[f] = e /\ \A j \in 1..(f - 1) : r[j] # e
    BY <1>1, <2>1
  <2> QED BY <1>1, <2>0, <2>2, FirstIs
<1>3. ASSUME \A i \in 1..Len(q) : q[i] # d PROVE FirstAt(r, d) = Len(q) + 1
  <2> HIDE DEF r
  <2>1. Len(q) + 1 \in 1..Len(r) /\ \A j \in 1..((Len(q) + 1) - 1) : r[j] # d
    BY <1>1, <1>3
  <2> QED BY <1>1, <2>1, FirstIs
<1> QED BY <1>2, <1>3

-----------------------------------------------------------------------------
(* The comparator of sortedMap.                                            *)

\* A finite set of versions can be listed greatest first.
LEMMA DescendingExists ==
  \A n \in Nat : \A S \in SUBSET (1..n) :
    \E q \in [1..Cardinality(S) -> S] :
      /\ \A v \in S : \E i \in DOMAIN q : q[i] = v
      /\ \A i, j \in DOMAIN q : i < j => q[j] < q[i]
<1> DEFINE Lists(S) ==
             {q \in [1..Cardinality(S) -> S] : /\ \A v \in S : \E i \in DOMAIN q : q[i] = v
                                               /\ \A i, j \in DOMAIN q : i < j => q[j] < q[i]}
           Bad == {n \in Nat : \E S \in SUBSET (1..n) : Lists(S) = {}}
<1>1. SUFFICES ASSUME Bad # {} PROVE FALSE
  OBVIOUS
<1>2. PICK n \in Bad : \A k \in Bad : ~(<<k, n>> \in OpToRel(<, Nat))
  <2>1. Bad \subseteq Nat
    OBVIOUS
  <2> HIDE DEF Bad
  <2> QED BY <1>1, <2>1, WFMin, NatLessThanWellFounded
<1>3. n \in Nat /\ \A k \in Nat : k < n => k \notin Bad
  BY <1>2 DEF OpToRel
<1>4. PICK S \in SUBSET (1..n) : Lists(S) = {}
  OBVIOUS
<1>5. CASE S = {}
  <2>1. Cardinality(S) = 0
    BY <1>5, FS_EmptySet
  <2>2. [i \in 1..0 |-> 0] \in Lists(S)
    BY <1>5, <2>1
  <2> QED BY <1>4, <2>2
<1>6. CASE n \notin S /\ S # {}
  <2> HIDE DEF Lists
  <2>1. n - 1 \in Nat /\ n - 1 < n
    <3>1. PICK v \in S : TRUE
      BY <1>6
    <3> QED BY <1>3, <3>1
  <2>0. S \in SUBSET (1..(n - 1))
    <3>1. \A v \in S : v \in 1..n /\ v # n
      BY <1>6
    <3> QED BY <1>3, <3>1
  <2>2. n - 1 \in Bad
    BY <1>4, <2>0, <2>1
  <2> QED BY <1>3, <2>1, <2>2
<1>7. CASE n \in S
  <2>1. n - 1 \in Nat /\ n - 1 < n /\ S \ {n} \in SUBSET (1..(n - 1))
    <3>1. n \in 1..n /\ \A v \in S \ {n} : v \in 1..n /\ v # n
      BY <1>7
    <3> QED BY <1>3, <3>1
  <2>2. Lists(S \ {n}) # {}
    <3> HIDE DEF Lists
    <3> QED BY <1>3, <2>1
  <2>3. PICK q \in [1..Cardinality(S \ {n}) -> S \ {n}] :
          /\ \A v \in S \ {n} : \E i \in DOMAIN q : q[i] = v
          /\ \A i, j \in DOMAIN q : i < j => q[j] < q[i]
    BY <2>2
  <2> DEFINE m == Cardinality(S \ {n})
  <2>4. m \in Nat /\ Cardinality(S) = m + 1
    <3>1. IsFiniteSet(S)
      <4>1. 1 \in Int /\ n \in Int
        BY <1>3
      <4>2. IsFiniteSet(1..n)
        BY <4>1, FS_Interval
      <4> QED BY <4>2, FS_Subset
    <3>2. IsFiniteSet(S \ {n}) /\ m = Cardinality(S) - 1
      BY <1>7, <3>1, FS_RemoveElement
    <3> QED BY <3>1, <3>2, FS_CardinalityType
  <2> DEFINE r == [i \in 1..(m + 1) |-> IF i = 1 THEN n ELSE q[i - 1]]
  <2> HIDE DEF m
  <2>5. q \in [1..m -> S \ {n}] /\ DOMAIN q = 1..m
    BY <2>3 DEF m
  <2>6. r \in [1..(m + 1) -> S]
    <3>1. ASSUME NEW i \in 1..(m + 1), i # 1 PROVE i - 1 \in 1..m
      BY <2>4, <3>1
    <3>2. \A i \in 1..(m + 1) : (IF i = 1 THEN n ELSE q[i - 1]) \in S
      BY <1>7, <2>5, <3>1
    <3> QED BY <3>2
  <2>7. ASSUME NEW v \in S PROVE \E i \in 1..(m + 1) : r[i] = v
    <3>1. CASE v = n
      <4>1. 1 \in 1..(m + 1) /\ r[1] = n
        BY <2>4
      <4> QED BY <3>1, <4>1
    <3>2. CASE v # n
      <4>1. PICK i \in 1..m : q[i] = v
        BY <2>3, <2>5, <3>2
      <4>2. i + 1 \in 1..(m + 1) /\ i + 1 # 1 /\ (i + 1) - 1 = i
        BY <2>4, <4>1
      <4>3. r[i + 1] = v
        BY <4>1, <4>2
      <4> QED BY <4>2, <4>3
    <3> QED BY <3>1, <3>2
  <2>8. ASSUME NEW i \in 1..(m + 1), NEW j \in 1..(m + 1), i < j PROVE r[j] < r[i]
    <3>0. j # 1 /\ j - 1 \in 1..m
      BY <2>4, <2>8
    <3>1. j # 1 /\ j - 1 \in 1..m /\ r[j] = q[j - 1] /\ q[j - 1] \in 1..(n - 1)
      BY <2>1, <2>5, <3>0
    <3>2. CASE i = 1
      <4>1. r[i] = n
        BY <3>2
      <4>2. r[j] \in 1..(n - 1)
        BY <3>1
      <4> HIDE DEF r
      <4> QED BY <1>3, <4>1, <4>2
    <3>3. CASE i # 1
      <4>1. i - 1 \in 1..m /\ i - 1 < j - 1
        BY <2>4, <2>8, <3>3
      <4>2. r[i] = q[i - 1]
        BY <3>3
      <4> QED BY <2>3, <2>5, <3>1, <4>1, <4>2
    <3> QED BY <3>2, <3>3
  <2>9. r \in Lists(S)
    <3>1. DOMAIN r = 1..(m + 1)
      OBVIOUS
    <3> HIDE DEF r
    <3> QED BY <2>4, <2>6, <2>7, <2>8, <3>1
  <2> QED BY <1>4, <2>9
<1> QED BY <1>5, <1>6, <1>7

\* What Descending returns.
LEMMA DescendingLists ==
  ASSUME NEW n \in Nat, NEW S \in SUBSET (1..n)
  PROVE  /\ Cardinality(S) \in Nat
         /\ Descending(S) \in [1..Cardinality(S) -> S]
         /\ \A v \in S : \E i \in 1..Cardinality(S) : Descending(S)[i] = v
         /\ \A i, j \in 1..Cardinality(S) : i < j => Descending(S)[j] < Descending(S)[i]
<1>1. IsFiniteSet(S)
  <2>1. 1 \in Int /\ n \in Int
    OBVIOUS
  <2>2. IsFiniteSet(1..n)
    BY <2>1, FS_Interval
  <2> QED BY <2>2, FS_Subset
<1>2. Cardinality(S) \in Nat
  BY <1>1, FS_CardinalityType
<1>3. \E q \in [1..Cardinality(S) -> S] :
        /\ \A v \in S : \E i \in DOMAIN q : q[i] = v
        /\ \A i, j \in DOMAIN q : i < j => q[j] < q[i]
  BY DescendingExists
<1>4. /\ Descending(S) \in [1..Cardinality(S) -> S]
      /\ \A v \in S : \E i \in DOMAIN Descending(S) : Descending(S)[i] = v
      /\ \A i, j \in DOMAIN Descending(S) : i < j => Descending(S)[j] < Descending(S)[i]
  BY <1>3 DEF Descending
<1>5. DOMAIN Descending(S) = 1..Cardinality(S)
  BY <1>4
<1> QED BY <1>2, <1>4, <1>5

\* The greatest of some versions.
LEMMA GreatestExists ==
  ASSUME NEW n \in Nat, NEW S \in SUBSET (1..n), S # {}
  PROVE  \E v \in S : \A w \in S : w <= v
<1> DEFINE c == Cardinality(S)
           d == Descending(S)
<1>1. /\ c \in Nat /\ d \in [1..c -> S]
      /\ \A v \in S : \E i \in 1..c : d[i] = v
      /\ \A i, j \in 1..c : i < j => d[j] < d[i]
  BY DescendingLists
<1> HIDE DEF c, d
<1>2. 1 \in 1..c /\ d[1] \in S
  <2>1. PICK v \in S : TRUE
    OBVIOUS
  <2>2. PICK i \in 1..c : d[i] = v
    BY <1>1
  <2>3. 1 \in 1..c
    BY <1>1, <2>2
  <2> QED BY <1>1, <2>3
<1>3. ASSUME NEW w \in S PROVE w <= d[1]
  <2>1. PICK i \in 1..c : d[i] = w
    BY <1>1
  <2>2. i = 1 \/ d[i] < d[1]
    BY <1>1, <1>2, <2>1
  <2>3. w \in Nat /\ d[1] \in Nat
    <3>1. \A x \in S : x \in Nat
      OBVIOUS
    <3> QED BY <1>2, <3>1
  <2> QED BY <2>1, <2>2, <2>3
<1> QED BY <1>2, <1>3

-----------------------------------------------------------------------------
(* Lists of dex elements.                                                  *)

\* A patch is neither the APK nor the bundles.
LEMMA PatchIsPatch ==
  ASSUME NEW n, NEW v \in Versions, NEW k
  PROVE  <<n, v, k>> \notin {Base, Bundles} /\ Base # Bundles
  BY PatchAssumption DEF Base, Bundles, Versions

\* What is found after an entry was put in front or behind.
LEMMA FoundCons ==
  ASSUME NEW T, NEW q \in Seq(T), NEW d \in T
  PROVE  /\ <<d>> \o q \in Seq(T) /\ Found(<<d>> \o q) = Found(q) \cup {d}
         /\ q \o <<d>> \in Seq(T) /\ Found(q \o <<d>>) = Found(q) \cup {d}
<1>1. ASSUME NEW r \in Seq(T), Len(r) = Len(q) + 1, r[1] = d,
             \A i \in 1..Len(q) : r[i + 1] = q[i]
      PROVE  Found(r) = Found(q) \cup {d}
  <2>0. Len(q) \in Nat
    OBVIOUS
  <2>1. \A i \in 1..Len(q) : i + 1 \in 1..Len(r)
    BY <1>1, <2>0
  <2>2. 1 \in 1..Len(r)
    BY <1>1, <2>0
  <2>3. ASSUME NEW i \in 1..Len(r) PROVE r[i] \in Found(q) \cup {d}
    <3>1. CASE i = 1
      BY <1>1, <3>1
    <3>2. CASE i # 1
      <4>1. PICK k : k = i - 1
        OBVIOUS
      <4>2. k \in 1..Len(q) /\ i = k + 1
        BY <1>1, <2>0, <3>2, <4>1
      <4> QED BY <1>1, <4>2 DEF Found
    <3> QED BY <3>1, <3>2
  <2>4. Found(q) \cup {d} \subseteq Found(r)
    BY <1>1, <2>1, <2>2 DEF Found
  <2> QED BY <2>3, <2>4 DEF Found
<1>2. ASSUME NEW r \in Seq(T), Len(r) = Len(q) + 1, r[Len(q) + 1] = d,
             \A i \in 1..Len(q) : r[i] = q[i]
      PROVE  Found(r) = Found(q) \cup {d}
  <2>0. Len(q) \in Nat
    OBVIOUS
  <2>1. 1..Len(r) = 1..Len(q) \cup {Len(q) + 1}
    BY <1>2, <2>0
  <2> QED BY <1>2, <2>1 DEF Found
<1>3. /\ <<d>> \o q \in Seq(T) /\ Len(<<d>> \o q) = Len(q) + 1 /\ (<<d>> \o q)[1] = d
      /\ \A i \in 1..Len(q) : (<<d>> \o q)[i + 1] = q[i]
  OBVIOUS
<1>4. /\ q \o <<d>> \in Seq(T) /\ Len(q \o <<d>>) = Len(q) + 1 /\ (q \o <<d>>)[Len(q) + 1] = d
      /\ \A i \in 1..Len(q) : (q \o <<d>>)[i] = q[i]
  OBVIOUS
<1>5. Found(<<d>> \o q) = Found(q) \cup {d}
  BY <1>1, <1>3
<1>6. Found(q \o <<d>>) = Found(q) \cup {d}
  BY <1>2, <1>4
<1> QED BY <1>3, <1>4, <1>5, <1>6

\* LoadPatch: a new patch in front.
LEMMA OrderedCons ==
  ASSUME NEW q, NEW m, NEW l \in SUBSET Versions, NEW k \in Apks, Ordered(q, m, l, k),
         NEW v \in Versions, m[v] \in Names, v \notin l, \A w \in l : w <= v
  PROVE  Ordered(<<<<m[v], v, k>>>> \o q, m, l \cup {v}, k)
<1> DEFINE Patch(w) == <<m[w], w, k>>
           r == <<Patch(v)>> \o q
<1>1. q \in Seq(Entries) /\ Patch(v) \in Entries
  BY DEF Ordered, Entries
<1>2. r \in Seq(Entries) /\ Found(r) = Found(q) \cup {Patch(v)}
  BY <1>1, FoundCons
<1>3. FirstAt(r, Patch(v)) = 1
  BY <1>1, FirstCons
<1>4. ASSUME NEW e \in Found(q), e # Patch(v)
      PROVE  /\ FirstAt(r, e) = FirstAt(q, e) + 1
             /\ FirstAt(q, e) \in Nat \ {0}
  <2>1. PICK i \in 1..Len(q) : q[i] = e
    BY DEF Found
  <2>2. FirstAt(q, e) \in 1..Len(q)
    BY <1>1, <2>1, FirstExists
  <2>3. FirstAt(r, e) = FirstAt(q, e) + 1
    BY <1>1, <1>4, <2>1, FirstCons
  <2> QED BY <2>2, <2>3
<1>5. Bundles # Patch(v) /\ \A w \in l : Patch(w) # Patch(v)
  BY PatchIsPatch
<1> HIDE DEF r
<1>6. \A w \in l \cup {v} : Patch(w) \in Found(r)
  BY <1>2 DEF Ordered
<1>7. ASSUME NEW w \in l \cup {v}, NEW x \in l \cup {v}, w < x
      PROVE  FirstAt(r, Patch(x)) < FirstAt(r, Patch(w))
  <2>1. w \in l /\ w \in 1..MaxVersion /\ v \in 1..MaxVersion
    <3>1. w # v
      <4>1. v \in Nat /\ x <= v
        BY DEF Versions
      <4> QED BY <1>7, <4>1
    <3> QED BY <3>1 DEF Versions
  <2>2. Patch(w) \in Found(q) /\ Patch(w) # Patch(v)
    BY <1>5, <2>1 DEF Ordered
  <2>3. PICK a : a = FirstAt(q, Patch(w))
    OBVIOUS
  <2>4. FirstAt(r, Patch(w)) = a + 1 /\ a \in Nat \ {0}
    BY <1>4, <2>2, <2>3
  <2>5. CASE x = v
    BY <1>3, <2>4, <2>5
  <2>6. CASE x # v
    <3>1. x \in l /\ Patch(x) \in Found(q) /\ Patch(x) # Patch(v)
      BY <1>5, <2>6 DEF Ordered
    <3>2. PICK b : b = FirstAt(q, Patch(x))
      OBVIOUS
    <3>3. FirstAt(r, Patch(x)) = b + 1 /\ b \in Nat \ {0}
      BY <1>4, <3>1, <3>2
    <3>4. b < a
      BY <1>7, <2>1, <2>3, <3>1, <3>2 DEF Ordered
    <3> QED BY <2>4, <3>3, <3>4
  <2> QED BY <2>5, <2>6
<1>8. ASSUME NEW e \in Found(r) \ {Base, Bundles}
      PROVE  e[3] = k /\ (Bundles \in Found(r) => FirstAt(r, e) < FirstAt(r, Bundles))
  <2>1. e[3] = k
    BY <1>2, <1>8 DEF Ordered
  <2>2. ASSUME Bundles \in Found(r) PROVE FirstAt(r, e) < FirstAt(r, Bundles)
    <3>1. Bundles \in Found(q)
      BY <1>2, <1>5, <2>2
    <3>2. PICK b : b = FirstAt(q, Bundles)
      OBVIOUS
    <3>3. FirstAt(r, Bundles) = b + 1 /\ b \in Nat \ {0}
      BY <1>4, <1>5, <3>1, <3>2
    <3>4. CASE e = Patch(v)
      BY <1>3, <3>3, <3>4
    <3>5. CASE e # Patch(v)
      <4>1. e \in Found(q)
        BY <1>2, <1>8, <3>5
      <4>2. PICK a : a = FirstAt(q, e)
        OBVIOUS
      <4>3. FirstAt(r, e) = a + 1 /\ a \in Nat \ {0}
        BY <1>4, <3>5, <4>1, <4>2
      <4>4. a < b
        BY <1>8, <3>1, <3>2, <4>1, <4>2 DEF Ordered
      <4> QED BY <3>3, <4>3, <4>4
    <3> QED BY <3>4, <3>5
  <2> QED BY <2>1, <2>2
<1>9. Ordered(r, m, l \cup {v}, k)
  BY <1>2, <1>6, <1>7, <1>8 DEF Ordered
<1> QED BY <1>9 DEF r

\* The first run: the bundles behind.
LEMMA OrderedSnoc ==
  ASSUME NEW q, NEW m, NEW l, NEW k, Ordered(q, m, l, k)
  PROVE  Ordered(q \o <<Bundles>>, m, l, k)
<1> DEFINE r == q \o <<Bundles>>
<1>1. q \in Seq(Entries) /\ Bundles \in Entries /\ Len(q) \in Nat
  <2>1. q \in Seq(Entries) /\ Bundles \in Entries
    BY DEF Ordered, Entries
  <2> QED BY <2>1
<1>2. r \in Seq(Entries) /\ Found(r) = Found(q) \cup {Bundles}
  BY <1>1, FoundCons
<1>3. ASSUME NEW e \in Found(q)
      PROVE  FirstAt(r, e) = FirstAt(q, e) /\ FirstAt(q, e) \in 1..Len(q)
  <2>1. PICK i \in 1..Len(q) : q[i] = e
    BY DEF Found
  <2> QED BY <1>1, <2>1, FirstExists, FirstSnoc
<1>4. ASSUME Bundles \notin Found(q) PROVE FirstAt(r, Bundles) = Len(q) + 1
  <2>1. \A i \in 1..Len(q) : q[i] # Bundles
    BY <1>4 DEF Found
  <2> QED BY <1>1, <2>1, FirstSnoc
<1> HIDE DEF r
<1>5. \A v \in l : <<m[v], v, k>> \in Found(r)
  BY <1>2 DEF Ordered
<1>6. ASSUME NEW v \in l, NEW w \in l, v < w
      PROVE  FirstAt(r, <<m[w], w, k>>) < FirstAt(r, <<m[v], v, k>>)
  <2>1. FirstAt(q, <<m[w], w, k>>) < FirstAt(q, <<m[v], v, k>>)
    BY <1>6 DEF Ordered
  <2>2. <<m[w], w, k>> \in Found(q) /\ <<m[v], v, k>> \in Found(q)
    BY DEF Ordered
  <2> QED BY <1>3, <2>1, <2>2
<1>7. ASSUME NEW e \in Found(r) \ {Base, Bundles}
      PROVE  e[3] = k /\ (Bundles \in Found(r) => FirstAt(r, e) < FirstAt(r, Bundles))
  <2>1. e \in Found(q) /\ e[3] = k
    BY <1>2, <1>7 DEF Ordered
  <2>2. CASE Bundles \in Found(q)
    <3>1. FirstAt(q, e) < FirstAt(q, Bundles)
      BY <1>7, <2>1, <2>2 DEF Ordered
    <3> QED BY <1>3, <2>1, <2>2, <3>1
  <2>3. CASE Bundles \notin Found(q)
    <3>1. FirstAt(r, e) \in 1..Len(q)
      BY <1>3, <2>1
    <3> QED BY <1>1, <1>4, <2>1, <2>3, <3>1
  <2> QED BY <2>2, <2>3
<1>8. Ordered(r, m, l, k)
  BY <1>2, <1>5, <1>6, <1>7 DEF Ordered
<1> QED BY <1>8 DEF r

\* A map that agrees on the versions that are loaded.
LEMMA OrderedMap ==
  ASSUME NEW q, NEW m, NEW l, NEW k, Ordered(q, m, l, k),
         NEW n, NEW h \in SUBSET l, \A v \in h : n[v] = m[v]
  PROVE  Ordered(q, n, h, k)
<1>1. ASSUME NEW v \in h PROVE <<n[v], v, k>> \in Found(q)
  BY DEF Ordered
<1>2. ASSUME NEW v \in h, NEW w \in h, v < w
      PROVE  FirstAt(q, <<n[w], w, k>>) < FirstAt(q, <<n[v], v, k>>)
  <2>1. FirstAt(q, <<m[w], w, k>>) < FirstAt(q, <<m[v], v, k>>)
    BY <1>2 DEF Ordered
  <2> QED BY <2>1
<1> QED BY <1>1, <1>2 DEF Ordered

\* A process that has just started.
LEMMA OrderedStart ==
  ASSUME NEW m, NEW k
  PROVE  Ordered(<<>>, m, {}, k) /\ Ordered(<<Base>>, m, {}, k)
<1>1. <<>> \in Seq(Entries) /\ Found(<<>>) = {}
  BY DEF Found
<1>2. <<Base>> \in Seq(Entries) /\ Found(<<Base>>) = {Base}
  <2>1. Base \in Entries
    BY DEF Entries
  <2>2. Len(<<Base>>) = 1 /\ <<Base>>[1] = Base
    OBVIOUS
  <2> QED BY <2>1, <2>2 DEF Found
<1> QED BY <1>1, <1>2 DEF Ordered

\* run: the patches of a map whose files are of the APK k, newest first behind the APK.
LEMMA OrderedRun ==
  ASSUME NEW listing \in [Versions -> Names \cup {Absent}], NEW l \in SUBSET Versions,
         NEW k \in Apks, \A v \in l : listing[v] \in Names, NEW files
  PROVE  files = [i \in DOMAIN Descending(l) |->
                    <<listing[Descending(l)[i]], Descending(l)[i], k>>]
           => Ordered(<<Base>> \o files, listing, l, k)
<1> DEFINE c == Cardinality(l)
           d == Descending(l)
           Patch(w) == <<listing[w], w, k>>
<1>0. SUFFICES ASSUME files = [i \in DOMAIN d |-> Patch(d[i])]
               PROVE  Ordered(<<Base>> \o files, listing, l, k)
  OBVIOUS
<1>1. /\ c \in Nat /\ d \in [1..c -> l]
      /\ \A v \in l : \E i \in 1..c : d[i] = v
      /\ \A i, j \in 1..c : i < j => d[j] < d[i]
  <2>1. MaxVersion \in Nat /\ l \in SUBSET (1..MaxVersion)
    BY PatchAssumption DEF Versions
  <2> QED BY <2>1, DescendingLists
<1>2. files = [i \in 1..c |-> Patch(d[i])]
  <2>1. DOMAIN d = 1..c
    BY <1>1
  <2> QED BY <1>0, <2>1
<1> HIDE DEF c, d
<1>3. files \in Seq(Entries) /\ Len(files) = c /\ \A i \in 1..c : files[i] = Patch(d[i])
  <2>1. \A i \in 1..c : Patch(d[i]) \in Entries
    <3>1. \A i \in 1..c : d[i] \in l
      BY <1>1
    <3> QED BY <3>1 DEF Entries
  <2>2. files \in [1..c -> Entries]
    BY <1>2, <2>1
  <2> QED BY <1>1, <1>2, <2>2
<1>4. ASSUME NEW i \in 1..c PROVE FirstAt(files, Patch(d[i])) = i
  <2>1. ASSUME NEW j \in 1..(i - 1) PROVE files[j] # Patch(d[i])
    <3>1. j \in 1..c /\ j < i
      BY <1>1
    <3>2. d[i] < d[j] /\ d[i] \in Nat /\ d[j] \in Nat
      <4>1. \A x \in l : x \in Nat
        BY DEF Versions
      <4> QED BY <1>1, <3>1, <4>1
    <3> QED BY <1>3, <3>1, <3>2
  <2>2. i \in 1..Len(files) /\ files[i] = Patch(d[i])
    BY <1>3
  <2>3. PICK e : e = Patch(d[i])
    OBVIOUS
  <2>4. files \in Seq(Entries)
    BY <1>3
  <2>5. files[i] = e /\ \A j \in 1..(i - 1) : files[j] # e
    BY <2>1, <2>2, <2>3
  <2>6. FirstAt(files, e) = i
    BY <2>2, <2>4, <2>5, FirstIs
  <2> QED BY <2>3, <2>6
<1> DEFINE r == <<Base>> \o files
<1>5. Base \in Entries
  BY DEF Entries
<1>6. r \in Seq(Entries) /\ Found(r) = Found(files) \cup {Base}
  <2>1. files \in Seq(Entries)
    BY <1>3
  <2> QED BY <1>5, <2>1, FoundCons
<1>7. Found(files) = {Patch(v) : v \in l}
  <2>1. Found(files) = {Patch(d[i]) : i \in 1..c}
    BY <1>3 DEF Found
  <2>2. \A i \in 1..c : d[i] \in l
    BY <1>1
  <2> QED BY <1>1, <2>1, <2>2
<1>8. ASSUME NEW i \in 1..c PROVE FirstAt(r, Patch(d[i])) = i + 1
  <2>1. Patch(d[i]) # Base
    <3>1. d[i] \in Versions
      BY <1>1
    <3> QED BY <3>1, PatchIsPatch
  <2>2. i \in 1..Len(files) /\ files[i] = Patch(d[i])
    BY <1>3
  <2>3. PICK e : e = Patch(d[i])
    OBVIOUS
  <2>4. files \in Seq(Entries)
    BY <1>3
  <2>5. FirstAt(r, e) = FirstAt(files, e) + 1
    BY <1>5, <2>1, <2>2, <2>3, <2>4, FirstCons
  <2> QED BY <1>4, <2>3, <2>5
<1>9. Bundles \notin Found(r)
  <2>1. Bundles # Base
    BY DEF Base, Bundles
  <2>2. ASSUME NEW v \in l PROVE Patch(v) # Bundles
    <3>1. v \in Versions
      OBVIOUS
    <3> QED BY <3>1, PatchIsPatch
  <2> QED BY <1>6, <1>7, <2>1, <2>2
<1> HIDE DEF r
<1>10. \A v \in l : Patch(v) \in Found(r)
  BY <1>6, <1>7
<1>11. ASSUME NEW v \in l, NEW w \in l, v < w
       PROVE  FirstAt(r, Patch(w)) < FirstAt(r, Patch(v))
  <2>1. PICK i \in 1..c : d[i] = v
    BY <1>1
  <2>2. PICK j \in 1..c : d[j] = w
    BY <1>1
  <2>3. j < i
    <3>1. v \in Nat /\ w \in Nat
      BY DEF Versions
    <3>2. ~(i < j) /\ i # j
      BY <1>1, <1>11, <2>1, <2>2, <3>1
    <3> QED BY <1>1, <3>2
  <2>4. FirstAt(r, Patch(w)) = j + 1 /\ FirstAt(r, Patch(v)) = i + 1
    BY <1>8, <2>1, <2>2
  <2> QED BY <2>3, <2>4
<1>12. ASSUME NEW e \in Found(r) \ {Base, Bundles} PROVE e[3] = k
  BY <1>6, <1>7, <1>12
<1>13. Ordered(r, listing, l, k)
  BY <1>6, <1>9, <1>10, <1>11, <1>12 DEF Ordered
<1> QED BY <1>13 DEF r

-----------------------------------------------------------------------------
(* The invariant.                                                          *)

\* firstKey is the greatest version of the map.
LEMMA FirstKeyIsLast ==
  ASSUME TypeOK
  PROVE  FirstKey \in 0..MaxVersion /\ \A v \in Mapped : v <= FirstKey
<1>1. MaxVersion \in Nat /\ Mapped \in SUBSET (1..MaxVersion)
  BY PatchAssumption DEF Mapped, Versions
<1>2. CASE Mapped = {}
  BY <1>1, <1>2 DEF FirstKey
<1>3. CASE Mapped # {}
  <2>1. \E v \in Mapped : \A w \in Mapped : w <= v
    BY <1>1, <1>3, GreatestExists
  <2>2. FirstKey \in Mapped /\ \A w \in Mapped : w <= FirstKey
    BY <1>3, <2>1 DEF FirstKey
  <2> QED BY <1>1, <2>2
<1> QED BY <1>2, <1>3

\* The patch an undo file names is one of the map.
LEMMA UndoneIsMapped ==
  ASSUME TypeOK, NEW n, Matching(n) # {}
  PROVE  NewestMatch(n) \in Mapped
<1>1. MaxVersion \in Nat /\ Matching(n) \in SUBSET (1..MaxVersion)
  BY PatchAssumption DEF Matching, Mapped, Versions
<1>2. \E v \in Matching(n) : \A w \in Matching(n) : w <= v
  BY <1>1, GreatestExists
<1>3. NewestMatch(n) \in Matching(n)
  BY <1>2 DEF NewestMatch
<1> QED BY <1>3 DEF Matching

\* The directory a call works on.
LEMMA SlotTyped ==
  ASSUME TypeOK, call # "none"
  PROVE  /\ slot \in Slots /\ slot = <<slot[1], slot[2]>>
         /\ slot[1] \in Names /\ slot[2] \in Versions /\ slot[2] \in Nat
         /\ slot[1] # Absent
<1>1. slot \in Slots
  BY DEF TypeOK
<1>2. slot[1] \in Names /\ slot[2] \in Versions /\ slot = <<slot[1], slot[2]>>
  BY <1>1 DEF Slots
<1> QED BY <1>1, <1>2, PatchAssumption DEF Versions

\* The list of a directory listing whose files are of the APK that runs.
LEMMA NewestFirstOf ==
  ASSUME NEW listing \in [Versions -> Names \cup {Absent}], NEW failing,
         \A s \in Slots : Installed(s) => zip[s] = apkKey,
         NEW l, l = Loadable(listing, failing)
  PROVE  /\ l \in SUBSET Versions /\ \A v \in l : listing[v] \in Names
         /\ NewestFirst(listing, failing) =
              [i \in DOMAIN Descending(l) |-> <<listing[Descending(l)[i]], Descending(l)[i], apkKey>>]
<1> DEFINE d == Descending(l)
<1>1. l \in SUBSET Versions
  BY DEF Loadable
<1>2. ASSUME NEW v \in l
      PROVE  listing[v] \in Names /\ Element(<<listing[v], v>>) = <<listing[v], v, apkKey>>
  <2>1. <<listing[v], v>> \in Slots /\ Installed(<<listing[v], v>>)
    BY DEF Loadable
  <2>2. zip[<<listing[v], v>>] = apkKey
    BY <2>1
  <2> QED BY <2>1, <2>2 DEF Slots, Element
<1>3. \A i \in DOMAIN d : d[i] \in l
  <2>1. MaxVersion \in Nat /\ l \in SUBSET (1..MaxVersion)
    BY <1>1, PatchAssumption DEF Versions
  <2>2. d \in [1..Cardinality(l) -> l]
    BY <2>1, DescendingLists
  <2> QED BY <2>2
<1>4. \A i \in DOMAIN d : Element(<<listing[d[i]], d[i]>>) = <<listing[d[i]], d[i], apkKey>>
  BY <1>2, <1>3
<1>5. NewestFirst(listing, failing) = [i \in DOMAIN d |-> Element(<<listing[d[i]], d[i]>>)]
  BY DEF NewestFirst
<1>6. NewestFirst(listing, failing) = [i \in DOMAIN d |-> <<listing[d[i]], d[i], apkKey>>]
  BY <1>4, <1>5
<1> QED BY <1>1, <1>2, <1>6

\* The first start.
LEMMA InitPatchInv == Init => PatchInv
<1> SUFFICES ASSUME Init PROVE PatchInv
  OBVIOUS
<1> USE PatchAssumption DEF Init
<1>1. Mapped = {} /\ Dirs = {} /\ MapDirs = {}
  BY DEF Mapped, Dirs, MapDirs, NoMap
<1>2. Patches = {}
  BY DEF Patches, Elements
<1>3. TypeOK
  <2>1. 1 \in Apks /\ 0 \in 0..MaxApk
    BY DEF Apks
  <2>2. sortedMap \in [Versions -> Names \cup {Absent}]
    BY DEF NoMap
  <2>3. /\ dir \in [Slots -> BOOLEAN] /\ zip \in [Slots -> {Absent, Torn} \cup Apks]
        /\ \A s \in Slots : zip[s] # Absent => dir[s]
    OBVIOUS
  <2>4. apkKey \in Apks /\ prefKey \in 0..MaxApk /\ ioErrors \in 0..MaxIOErrors
    BY <2>1
  <2>5. /\ proc = "down" /\ firstRun = "none" /\ call = "none" /\ slot = NoSlot
        /\ live \subseteq Mapped /\ leftover \in BOOLEAN
    OBVIOUS
  <2> QED BY <1>2, <2>2, <2>3, <2>4, <2>5 DEF TypeOK
<1>4. IdleInv /\ CallInv /\ FreshInv
  <2>1. \A s \in Slots : zip[s] \notin Apks
    BY DEF Apks
  <2> QED BY <2>1 DEF IdleInv, CallInv, FreshInv
<1>5. DirsInv
  BY <1>1 DEF DirsInv
<1>6. LoaderInv
  BY OrderedStart DEF LoaderInv
<1> QED BY <1>3, <1>4, <1>5, <1>6 DEF PatchInv

\* The list: the first run appends, an install prepends, a restart does both again.
LEMMA LoaderStep == PatchInv /\ [Next]_patchVars => LoaderInv'
<1> SUFFICES ASSUME PatchInv, [Next]_patchVars PROVE LoaderInv'
  OBVIOUS
<1>1. TypeOK /\ IdleInv /\ CallInv /\ FreshInv /\ LoaderInv
  BY DEF PatchInv
<1>2. apkKey \in Apks /\ apkKey \in Nat /\ sortedMap \in [Versions -> Names \cup {Absent}]
  BY <1>1, PatchAssumption DEF TypeOK, Apks
<1>3. Ordered(dexElements, sortedMap, live, apkKey) /\ live \in SUBSET Versions
  BY <1>1 DEF LoaderInv, TypeOK, Mapped
<1> USE DEF LoaderInv
<1>4. CASE UNCHANGED <<dexElements, sortedMap, live, apkKey>>
  BY <1>3, <1>4
<1>5. CASE Boot
  <2>1. dexElements' = <<Base>> /\ live' = {}
    BY <1>1, <1>5 DEF Boot, IdleInv, history
  <2> QED BY <2>1, OrderedStart
<1>6. CASE Run
  <2>1. PICK listing \in Listings, failing \in SUBSET {s \in Slots : Installed(s)} :
          /\ sortedMap' = listing /\ live' = Loadable(listing, failing)
          /\ dexElements' = Expand(Expand(dexElements, NewestFirst(listing, failing), FALSE),
                                   <<Bundles>>, FALSE)
    BY <1>6 DEF Run
  <2>2. dexElements = <<Base>> /\ apkKey' = apkKey /\ proc = "run"
    BY <1>1, <1>6 DEF Run, IdleInv, diskVars
  <2>3. \A s \in Slots : Installed(s) => zip[s] = apkKey
    BY <1>1, <2>2 DEF FreshInv, Installed
  <2>4. listing \in [Versions -> Names \cup {Absent}]
    BY DEF Listings
  <2>5. Ordered(<<Base>> \o NewestFirst(listing, failing), listing, live', apkKey)
    <3>1. PICK files : files = NewestFirst(listing, failing)
      OBVIOUS
    <3>0. PICK l : l = Loadable(listing, failing)
      OBVIOUS
    <3>2. /\ l \in SUBSET Versions
          /\ \A v \in l : listing[v] \in Names
          /\ NewestFirst(listing, failing) =
               [i \in DOMAIN Descending(l) |-> <<listing[Descending(l)[i]], Descending(l)[i], apkKey>>]
      BY <2>3, <2>4, <3>0, NewestFirstOf
    <3>3. l = live'
      BY <2>1, <3>0
    <3>4. Ordered(<<Base>> \o files, listing, l, apkKey)
      BY <1>2, <2>4, <3>1, <3>2, OrderedRun
    <3> QED BY <3>1, <3>3, <3>4
  <2>6. dexElements' = (<<Base>> \o NewestFirst(listing, failing)) \o <<Bundles>>
    BY <2>1, <2>2 DEF Expand
  <2> QED BY <2>1, <2>2, <2>5, <2>6, OrderedSnoc
<1>7. CASE RunBundles
  <2>1. dexElements' = dexElements \o <<Bundles>> /\ UNCHANGED <<sortedMap, live, apkKey>>
    BY <1>7 DEF RunBundles, Expand, history, diskVars
  <2> QED BY <1>3, <2>1, OrderedSnoc
<1>8. CASE Crash
  BY <1>8, OrderedStart DEF Crash
<1>9. CASE UpgradeApk
  <2>1. dexElements' = <<>> /\ live' = {}
    BY <1>1, <1>9 DEF UpgradeApk, IdleInv, history
  <2> QED BY <2>1, OrderedStart
<1>10. CASE UndoDone
  <2>1. /\ dexElements' = dexElements /\ apkKey' = apkKey /\ live' = live \ {slot[2]}
        /\ sortedMap' = [sortedMap EXCEPT ![slot[2]] = Absent]
    BY <1>10 DEF UndoDone
  <2>2. \A v \in live' : v \in Versions /\ sortedMap'[v] = sortedMap[v]
    BY <1>2, <1>3, <2>1
  <2> QED BY <1>3, <2>1, <2>2, OrderedMap
<1>11. CASE CopyWrite
  <2>1. /\ UNCHANGED <<dexElements, apkKey, live>> /\ call = "write"
        /\ sortedMap' = [sortedMap EXCEPT ![slot[2]] = slot[1]]
    BY <1>11 DEF CopyWrite, history
  <2>2. \A v \in live : v < slot[2] /\ v \in Nat
    BY <1>1, <1>3, <2>1 DEF CallInv, TypeOK, Versions
  <2>3. \A v \in live : sortedMap'[v] = sortedMap[v]
    BY <1>2, <1>3, <2>1, <2>2
  <2> QED BY <1>3, <2>1, <2>3, OrderedMap
<1>12. CASE LoadPatch
  <2>1. UNCHANGED <<sortedMap, apkKey>> /\ call = "load"
    BY <1>12 DEF LoadPatch, diskVars
  <2>2. CASE UNCHANGED <<dexElements, live>>
    BY <1>3, <2>1, <2>2
  <2>3. CASE /\ Installed(slot) /\ dexElements' = Expand(dexElements, <<Element(slot)>>, TRUE)
             /\ live' = live \cup {slot[2]}
    <3>1. PICK v : v = slot[2]
      OBVIOUS
    <3>2. /\ slot \in Slots /\ slot = <<sortedMap[v], v>> /\ sortedMap[v] \in Names
          /\ v \in Versions
      BY <1>1, <2>1, <3>1, SlotTyped DEF CallInv
    <3>3. zip[slot] = apkKey
      <4>1. proc = "up"
        BY <1>1, <2>1 DEF TypeOK
      <4> QED BY <1>1, <2>3, <3>2, <4>1 DEF FreshInv, Installed
    <3>4. Element(slot) = <<sortedMap[v], v, apkKey>>
      BY <3>2, <3>3 DEF Element
    <3>5. v \notin live /\ \A w \in live : w <= v
      BY <1>1, <2>1, <3>1 DEF CallInv, TypeOK
    <3>6. Ordered(<<<<sortedMap[v], v, apkKey>>>> \o dexElements, sortedMap, live \cup {v}, apkKey)
      BY <1>2, <1>3, <3>2, <3>5, OrderedCons
    <3> QED BY <2>1, <2>3, <3>1, <3>4, <3>6 DEF Expand
  <2> QED BY <1>12, <2>2, <2>3 DEF LoadPatch
<1>13. CASE UNCHANGED patchVars
  BY <1>4, <1>13 DEF patchVars, diskVars, history
<1>14. CASE \E s \in Slots : PurgeDir(s)
  BY <1>4, <1>14 DEF PurgeDir, history
<1>15. CASE \E n \in Names : UndoBegin(n) \/ InstallBegin(n)
  BY <1>4, <1>15 DEF UndoBegin, InstallBegin, history
<1>16. CASE PurgeDone \/ CommitKey \/ CopyOpen \/ CopyFails
  BY <1>4, <1>16 DEF PurgeDone, CommitKey, CopyOpen, CopyFails, diskVars, history
<1> QED BY <1>5, <1>6, <1>7, <1>8, <1>9, <1>10, <1>11, <1>12, <1>13, <1>14, <1>15, <1>16 DEF Next

\* What can be found in a list of entries besides the APK and the bundles.
LEMMA PatchEntries ==
  ASSUME NEW q, NEW m, NEW l, NEW k, Ordered(q, m, l, k)
  PROVE  Found(q) \ {Base, Bundles} \subseteq Names \X Versions \X Apks
<1>1. q \in Seq(Entries)
  BY DEF Ordered
<1>2. \A i \in 1..Len(q) : q[i] \in Entries
  BY <1>1
<1> QED BY <1>2 DEF Found, Entries

\* The number of patches that fail to load in a run.
LEMMA FailingCounted ==
  ASSUME NEW failing \in SUBSET Slots
  PROVE  Cardinality(failing) \in Nat
<1>1. IsFiniteSet(Versions)
  <2>1. 1 \in Int /\ MaxVersion \in Int
    BY PatchAssumption
  <2> QED BY <2>1, FS_Interval DEF Versions
<1>2. IsFiniteSet(Slots)
  BY <1>1, PatchAssumption, FS_Product DEF Slots
<1> QED BY <1>2, FS_Subset, FS_CardinalityType

\* The stages of a process and of a call, and the bounds.
StageOK ==
  /\ apkKey \in Apks /\ prefKey \in 0..MaxApk
  /\ proc \in {"down", "purge", "run", "up"}
  /\ firstRun \in {"none", "install", "run"}
  /\ call \in {"none", "undo", "open", "write", "load"}
  /\ call # "none" \/ firstRun # "none" => proc = "up"
  /\ ioErrors \in 0..MaxIOErrors /\ leftover \in BOOLEAN

\* A step keeps the stages and the bounds.
LEMMA StageStep == PatchInv /\ [Next]_patchVars => StageOK'
<1> SUFFICES ASSUME PatchInv, [Next]_patchVars PROVE StageOK'
  OBVIOUS
<1>1. StageOK
  BY DEF PatchInv, TypeOK, StageOK
<1>2. MaxApk \in Nat /\ MaxIOErrors \in Nat /\ apkKey \in 0..MaxApk
  BY <1>1, PatchAssumption DEF StageOK, Apks
<1> USE DEF StageOK, diskVars, callVars, history
<1>3. CASE Boot
  BY <1>1, <1>3 DEF Boot
<1>4. CASE PurgeDone
  BY <1>1, <1>4 DEF PurgeDone
<1>5. CASE Run
  <2>1. PICK failing \in SUBSET {s \in Slots : Installed(s)} :
          ioErrors' = ioErrors + Cardinality(failing) /\ ioErrors' <= MaxIOErrors
    BY <1>5 DEF Run
  <2>2. Cardinality(failing) \in Nat
    BY FailingCounted
  <2>3. ioErrors' \in 0..MaxIOErrors
    BY <1>1, <1>2, <2>1, <2>2
  <2> QED BY <1>1, <1>5, <2>3 DEF Run
<1>6. CASE CommitKey
  BY <1>1, <1>2, <1>6 DEF CommitKey
<1>7. CASE RunBundles
  BY <1>1, <1>7 DEF RunBundles
<1>8. CASE Crash
  BY <1>1, <1>8 DEF Crash
<1>9. CASE UpgradeApk
  <2>1. apkKey' \in Apks
    BY <1>1, <1>2, <1>9 DEF UpgradeApk, Apks
  <2> QED BY <1>1, <1>9, <2>1 DEF UpgradeApk
<1>10. CASE \E s \in Slots : PurgeDir(s)
  BY <1>1, <1>10 DEF PurgeDir
<1>11. CASE \E n \in Names : UndoBegin(n) \/ InstallBegin(n)
  BY <1>1, <1>11 DEF UndoBegin, InstallBegin
<1>12. CASE UndoDone
  BY <1>1, <1>12 DEF UndoDone
<1>13. CASE CopyOpen
  BY <1>1, <1>13 DEF CopyOpen
<1>14. CASE CopyWrite
  BY <1>1, <1>14 DEF CopyWrite
<1>15. CASE CopyFails
  <2>1. ioErrors' \in 0..MaxIOErrors
    BY <1>1, <1>2, <1>15 DEF CopyFails, Fails
  <2> QED BY <1>1, <1>15, <2>1 DEF CopyFails
<1>16. CASE LoadPatch
  <2>1. ioErrors' \in 0..MaxIOErrors
    <3>1. ioErrors' = ioErrors \/ (ioErrors < MaxIOErrors /\ ioErrors' = ioErrors + 1)
      BY <1>16 DEF LoadPatch, Fails
    <3> QED BY <1>1, <1>2, <3>1
  <2> QED BY <1>1, <1>16, <2>1 DEF LoadPatch
<1>17. CASE UNCHANGED patchVars
  BY <1>1, <1>17 DEF patchVars
<1> QED BY <1>3, <1>4, <1>5, <1>6, <1>7, <1>8, <1>9, <1>10, <1>11, <1>12, <1>13, <1>14, <1>15,
           <1>16, <1>17 DEF Next

\* The files, the directory of the call and the map.
FilesOK ==
  /\ dir \in [Slots -> BOOLEAN]
  /\ zip \in [Slots -> {Absent, Torn} \cup Apks]
  /\ slot \in Slots \cup {NoSlot}
  /\ sortedMap \in [Versions -> Names \cup {Absent}]
  /\ live \subseteq Mapped
  /\ call # "none" <=> slot # NoSlot
  /\ \A s \in Slots : zip[s] # Absent => dir[s]

\* A directory is none of those a call has when there is no call.
LEMMA SlotIsNone == NoSlot \notin Slots
  BY PatchAssumption DEF NoSlot, Slots, Versions

\* A step keeps the files in their directories and the loaded versions in the map.
LEMMA FilesStep == PatchInv /\ [Next]_patchVars => FilesOK'
<1> SUFFICES ASSUME PatchInv, [Next]_patchVars PROVE FilesOK'
  OBVIOUS
<1>1. TypeOK /\ IdleInv /\ CallInv
  BY DEF PatchInv
<1>2. FilesOK
  BY <1>1 DEF TypeOK, FilesOK
<1> USE DEF FilesOK, diskVars, callVars, history
<1>3. CASE Boot \/ PurgeDone \/ CommitKey \/ RunBundles \/ UpgradeApk \/ UNCHANGED patchVars
  <2>1. UNCHANGED <<dir, zip, slot, sortedMap, live, call>>
    BY <1>3 DEF Boot, PurgeDone, CommitKey, RunBundles, UpgradeApk, patchVars
  <2> QED BY <1>2, <2>1 DEF Mapped
<1>4. CASE Run
  <2>1. PICK listing \in Listings, failing \in SUBSET {s \in Slots : Installed(s)} :
          sortedMap' = listing /\ live' = Loadable(listing, failing)
    BY <1>4 DEF Run
  <2>2. listing \in [Versions -> Names \cup {Absent}]
    BY DEF Listings
  <2>3. live' \subseteq Mapped'
    <3>1. \A v \in Loadable(listing, failing) : v \in Versions /\ listing[v] \in Names
      BY DEF Loadable, Slots
    <3>2. Absent \notin Names
      BY PatchAssumption
    <3> QED BY <2>1, <3>1, <3>2 DEF Mapped
  <2>4. UNCHANGED <<dir, zip, slot, call>>
    BY <1>4 DEF Run
  <2> QED BY <1>2, <2>1, <2>2, <2>3, <2>4
<1>5. CASE Crash
  <2>1. UNCHANGED <<dir, zip>> /\ call' = "none" /\ slot' = NoSlot /\ sortedMap' = NoMap /\ live' = {}
    BY <1>5 DEF Crash
  <2> QED BY <1>2, <2>1 DEF NoMap
<1>6. CASE \E s \in Slots : PurgeDir(s)
  <2>1. PICK s \in Slots : PurgeDir(s)
    BY <1>6
  <2>2. /\ dir' = [dir EXCEPT ![s] = FALSE] /\ zip' = [zip EXCEPT ![s] = Absent]
        /\ UNCHANGED <<slot, sortedMap, live, call>>
    BY <2>1 DEF PurgeDir
  <2>3. dir' \in [Slots -> BOOLEAN] /\ zip' \in [Slots -> {Absent, Torn} \cup Apks]
    BY <1>2, <2>2
  <2>4. \A t \in Slots : zip'[t] # Absent => dir'[t]
    BY <1>2, <2>2
  <2> QED BY <1>2, <2>2, <2>3, <2>4 DEF Mapped
<1>7. ASSUME NEW n \in Names, UndoBegin(n) PROVE FilesOK'
  <2>1. PICK v : v = NewestMatch(Undoes[n])
    OBVIOUS
  <2>2. v \in Mapped
    <3>1. Matching(Undoes[n]) # {}
      BY <1>7 DEF UndoBegin, Undoable
    <3> QED BY <1>1, <2>1, <3>1, UndoneIsMapped
  <2>3. /\ slot' = <<sortedMap[v], v>> /\ zip' = [zip EXCEPT ![slot'] = Absent] /\ call' = "undo"
        /\ UNCHANGED <<dir, sortedMap, live>>
    BY <1>7, <2>1 DEF UndoBegin
  <2>4. slot' \in Slots
    BY <1>2, <2>2, <2>3 DEF Mapped, Slots
  <2>5. zip' \in [Slots -> {Absent, Torn} \cup Apks] /\ \A t \in Slots : zip'[t] # Absent => dir'[t]
    BY <1>2, <2>3, <2>4
  <2> QED BY <1>2, <2>3, <2>4, <2>5, SlotIsNone DEF Mapped
<1>8. ASSUME NEW n \in Names, InstallBegin(n) PROVE FilesOK'
  <2>1. /\ slot' = <<n, FirstKey + 1>> /\ dir' = [dir EXCEPT ![slot'] = TRUE] /\ call' = "open"
        /\ UNCHANGED <<zip, sortedMap, live>> /\ FirstKey < MaxVersion
    BY <1>8 DEF InstallBegin
  <2>2. slot' \in Slots
    <3>1. FirstKey + 1 \in Versions
      BY <1>1, <2>1, FirstKeyIsLast, PatchAssumption DEF Versions
    <3> QED BY <2>1, <3>1 DEF Slots
  <2>3. dir' \in [Slots -> BOOLEAN] /\ \A t \in Slots : zip'[t] # Absent => dir'[t]
    BY <1>2, <2>1, <2>2
  <2> QED BY <1>2, <2>1, <2>2, <2>3, SlotIsNone DEF Mapped
<1>9. CASE UndoDone
  <2>1. /\ dir' = [dir EXCEPT ![slot] = FALSE] /\ sortedMap' = [sortedMap EXCEPT ![slot[2]] = Absent]
        /\ live' = live \ {slot[2]} /\ call' = "none" /\ slot' = NoSlot /\ zip' = zip /\ call = "undo"
    BY <1>9 DEF UndoDone
  <2>2. slot \in Slots /\ slot[2] \in Versions /\ zip[slot] = Absent
    BY <1>1, <2>1, SlotTyped DEF CallInv
  <2>3. dir' \in [Slots -> BOOLEAN] /\ sortedMap' \in [Versions -> Names \cup {Absent}]
    BY <1>2, <2>1
  <2>4. \A t \in Slots : zip'[t] # Absent => dir'[t]
    BY <1>2, <2>1, <2>2
  <2>5. live' \subseteq Mapped'
    BY <1>2, <2>1 DEF Mapped
  <2> QED BY <1>2, <2>1, <2>3, <2>4, <2>5
<1>10. CASE CopyOpen
  <2>1. /\ zip' = [zip EXCEPT ![slot] = Torn] /\ call' = "write" /\ call = "open"
        /\ UNCHANGED <<dir, slot, sortedMap, live>>
    BY <1>10 DEF CopyOpen
  <2>2. slot \in Slots /\ dir[slot]
    BY <1>1, <2>1, SlotTyped DEF CallInv
  <2>3. zip' \in [Slots -> {Absent, Torn} \cup Apks] /\ \A t \in Slots : zip'[t] # Absent => dir'[t]
    BY <1>2, <2>1, <2>2
  <2> QED BY <1>2, <2>1, <2>2, <2>3, SlotIsNone DEF Mapped
<1>11. CASE CopyWrite
  <2>1. PICK content \in {apkKey, Torn} : zip' = [zip EXCEPT ![slot] = content]
    BY <1>11 DEF CopyWrite
  <2>2. /\ call' = "load" /\ call = "write" /\ UNCHANGED <<dir, slot, live>>
        /\ sortedMap' = [sortedMap EXCEPT ![slot[2]] = slot[1]]
    BY <1>11 DEF CopyWrite
  <2>3. slot \in Slots /\ dir[slot] /\ slot[1] \in Names /\ slot[2] \in Versions /\ slot[1] # Absent
    BY <1>1, <2>2, SlotTyped DEF CallInv
  <2>4. apkKey \in Apks
    BY <1>1 DEF TypeOK
  <2>5. zip' \in [Slots -> {Absent, Torn} \cup Apks] /\ \A t \in Slots : zip'[t] # Absent => dir'[t]
    BY <1>2, <2>1, <2>2, <2>3, <2>4
  <2>6. sortedMap' \in [Versions -> Names \cup {Absent}] /\ live' \subseteq Mapped'
    BY <1>2, <2>2, <2>3 DEF Mapped
  <2> QED BY <1>2, <2>2, <2>3, <2>5, <2>6, SlotIsNone
<1>12. CASE CopyFails
  <2>1. UNCHANGED <<dir, zip, sortedMap, live>> /\ call' = "none" /\ slot' = NoSlot
    BY <1>12 DEF CopyFails
  <2> QED BY <1>2, <2>1 DEF Mapped
<1>13. CASE LoadPatch
  <2>1. UNCHANGED <<dir, zip, sortedMap>> /\ call' = "none" /\ slot' = NoSlot /\ call = "load"
    BY <1>13 DEF LoadPatch
  <2>2. slot[2] \in Versions /\ sortedMap[slot[2]] # Absent
    BY <1>1, <2>1, SlotTyped DEF CallInv
  <2>3. live' \subseteq live \cup {slot[2]}
    BY <1>13 DEF LoadPatch
  <2>4. live' \subseteq Mapped'
    BY <1>2, <2>1, <2>2, <2>3 DEF Mapped
  <2> QED BY <1>2, <2>1, <2>4
<1> QED BY <1>3, <1>4, <1>5, <1>6, <1>7, <1>8, <1>9, <1>10, <1>11, <1>12, <1>13 DEF Next

\* A step keeps the types: the patches of the list are typed because its entries are.
LEMMA TypeStep == PatchInv /\ [Next]_patchVars => TypeOK'
<1> SUFFICES ASSUME PatchInv, [Next]_patchVars PROVE TypeOK'
  OBVIOUS
<1>1. StageOK' /\ FilesOK'
  BY StageStep, FilesStep
<1>2. Patches' \subseteq Names \X Versions \X Apks
  <2>1. Ordered(dexElements', sortedMap', live', apkKey')
    BY LoaderStep DEF LoaderInv
  <2>2. Patches' = Found(dexElements') \ {Base, Bundles}
    BY DEF Patches, Elements, Found, Base, Bundles
  <2> QED BY <2>1, <2>2, PatchEntries
<1> QED BY <1>1, <1>2 DEF TypeOK, StageOK, FilesOK

\* Only a process that is up has patches: the main thread runs them before anything else.
LEMMA IdleStep == PatchInv /\ [Next]_patchVars => IdleInv'
<1> SUFFICES ASSUME PatchInv, [Next]_patchVars PROVE IdleInv'
  OBVIOUS
<1>1. IdleInv /\ StageOK
  BY DEF PatchInv, TypeOK, StageOK
<1> USE DEF IdleInv, StageOK, diskVars, callVars, history
<1>2. CASE Boot
  BY <1>1, <1>2 DEF Boot
<1>3. CASE Crash
  BY <1>3 DEF Crash
<1>4. CASE PurgeDone \/ Run
  BY <1>4 DEF PurgeDone, Run
<1>5. CASE CommitKey \/ RunBundles
  BY <1>1, <1>5 DEF CommitKey, RunBundles
<1>6. CASE UpgradeApk
  BY <1>1, <1>6 DEF UpgradeApk
<1>7. CASE \E s \in Slots : PurgeDir(s)
  BY <1>1, <1>7 DEF PurgeDir
<1>8. CASE \E n \in Names : UndoBegin(n) \/ InstallBegin(n)
  BY <1>1, <1>8 DEF UndoBegin, InstallBegin
<1>9. CASE UndoDone \/ CopyOpen \/ CopyWrite \/ CopyFails \/ LoadPatch
  BY <1>1, <1>9 DEF UndoDone, CopyOpen, CopyWrite, CopyFails, LoadPatch
<1>10. CASE UNCHANGED patchVars
  BY <1>1, <1>10 DEF patchVars
<1> QED BY <1>2, <1>3, <1>4, <1>5, <1>6, <1>7, <1>8, <1>9, <1>10 DEF Next

\* installHotPatch takes a version above the map, and the map is its own until it returns.
LEMMA CallStep == PatchInv /\ [Next]_patchVars => CallInv'
<1> SUFFICES ASSUME PatchInv, [Next]_patchVars PROVE CallInv'
  OBVIOUS
<1>1. TypeOK /\ IdleInv /\ CallInv
  BY DEF PatchInv
<1>2. FilesOK /\ StageOK
  BY <1>1 DEF TypeOK, FilesOK, StageOK
<1> USE DEF CallInv, diskVars, callVars, history
<1>3. CASE call' = "none"
  BY <1>3
<1>4. CASE UNCHANGED <<dir, zip, slot, sortedMap, live, call>>
  BY <1>1, <1>4 DEF Mapped
<1>5. CASE \E s \in Slots : PurgeDir(s)
  <2>1. call' = "none"
    BY <1>2, <1>5 DEF PurgeDir, StageOK
  <2> QED BY <1>3, <2>1
<1>6. CASE Boot \/ PurgeDone \/ Run
  <2>1. call' = "none"
    BY <1>2, <1>6 DEF Boot, PurgeDone, Run, StageOK
  <2> QED BY <1>3, <2>1
<1>7. ASSUME NEW n \in Names, UndoBegin(n) PROVE CallInv'
  <2>1. PICK v : v = NewestMatch(Undoes[n])
    OBVIOUS
  <2>2. v \in Mapped
    <3>1. Matching(Undoes[n]) # {}
      BY <1>7 DEF UndoBegin, Undoable
    <3> QED BY <1>1, <2>1, <3>1, UndoneIsMapped
  <2>3. /\ slot' = <<sortedMap[v], v>> /\ zip' = [zip EXCEPT ![slot'] = Absent] /\ call' = "undo"
        /\ UNCHANGED <<dir, sortedMap, live>>
    BY <1>7, <2>1 DEF UndoBegin
  <2>4. slot' \in Slots
    BY <1>2, <2>2, <2>3 DEF Mapped, Slots, FilesOK
  <2> QED BY <1>2, <2>3, <2>4 DEF FilesOK
<1>8. ASSUME NEW n \in Names, InstallBegin(n) PROVE CallInv'
  <2>1. /\ slot' = <<n, FirstKey + 1>> /\ dir' = [dir EXCEPT ![slot'] = TRUE] /\ call' = "open"
        /\ UNCHANGED <<zip, sortedMap, live>> /\ FirstKey < MaxVersion
    BY <1>8 DEF InstallBegin
  <2>2. FirstKey \in 0..MaxVersion /\ \A v \in Mapped : v <= FirstKey
    BY <1>1, FirstKeyIsLast
  <2>3. slot' \in Slots
    <3>1. FirstKey + 1 \in Versions
      BY <2>1, <2>2, PatchAssumption DEF Versions
    <3> QED BY <2>1, <3>1 DEF Slots
  <2>4. dir'[slot']
    BY <1>2, <2>1, <2>3 DEF FilesOK
  <2>5. \A v \in Mapped' : v < slot'[2]
    <3>1. Mapped' = Mapped /\ slot'[2] = FirstKey + 1
      BY <2>1 DEF Mapped
    <3>2. \A v \in Mapped : v \in Nat
      BY DEF Mapped, Versions
    <3> QED BY <2>2, <3>1, <3>2
  <2> QED BY <2>1, <2>4, <2>5
<1>9. CASE CopyOpen
  BY <1>1, <1>9 DEF CopyOpen, Mapped
<1>10. CASE CopyWrite
  <2>1. /\ call' = "load" /\ call = "write" /\ UNCHANGED <<slot, live>>
        /\ sortedMap' = [sortedMap EXCEPT ![slot[2]] = slot[1]]
    BY <1>10 DEF CopyWrite
  <2>2. slot[2] \in Versions /\ slot[2] \in Nat
    BY <1>1, <2>1, SlotTyped
  <2>3. \A v \in Mapped : v < slot[2] /\ v \in Nat
    BY <1>1, <2>1 DEF Mapped, Versions
  <2>4. sortedMap'[slot'[2]] = slot'[1]
    BY <1>2, <2>1, <2>2 DEF FilesOK
  <2>5. slot'[2] \notin live'
    BY <1>2, <2>1, <2>2, <2>3 DEF FilesOK
  <2>6. \A v \in Mapped' : v <= slot'[2]
    <3>1. Mapped' \subseteq Mapped \cup {slot[2]}
      BY <1>2, <2>1 DEF Mapped, FilesOK
    <3> QED BY <2>1, <2>2, <2>3, <3>1
  <2> QED BY <2>1, <2>4, <2>5, <2>6
<1>11. CASE UndoDone \/ CopyFails \/ LoadPatch \/ Crash
  BY <1>3, <1>11 DEF UndoDone, CopyFails, LoadPatch, Crash
<1>12. CASE CommitKey \/ RunBundles \/ UpgradeApk \/ UNCHANGED patchVars
  BY <1>4, <1>12 DEF CommitKey, RunBundles, UpgradeApk, patchVars
<1> QED BY <1>5, <1>6, <1>7, <1>8, <1>9, <1>10, <1>11, <1>12 DEF Next

\* A patch of another APK is gone before the key is stored, and before the process is up.
LEMMA FreshStep == PatchInv /\ [Next]_patchVars => FreshInv'
<1> SUFFICES ASSUME PatchInv, [Next]_patchVars PROVE FreshInv'
  OBVIOUS
<1>1. TypeOK /\ FreshInv
  BY DEF PatchInv
<1>2. FilesOK /\ StageOK
  BY <1>1 DEF TypeOK, FilesOK, StageOK
<1>3. apkKey \in Nat /\ prefKey \in Nat /\ Absent \notin Apks /\ Torn \notin Apks
  BY <1>2, PatchAssumption DEF StageOK, Apks
<1> USE DEF FreshInv, diskVars, callVars, history
<1>4. CASE UNCHANGED <<apkKey, prefKey, zip, proc>>
  BY <1>1, <1>4
<1>5. CASE Boot
  BY <1>1, <1>5 DEF Boot
<1>6. CASE \E s \in Slots : PurgeDir(s)
  <2>1. PICK s \in Slots : zip' = [zip EXCEPT ![s] = Absent] /\ UNCHANGED <<apkKey, prefKey, proc>>
    BY <1>6 DEF PurgeDir
  <2> QED BY <1>1, <1>2, <1>3, <2>1 DEF FilesOK
<1>7. CASE PurgeDone
  <2>1. UNCHANGED <<apkKey, prefKey, zip>> /\ Dirs = {}
    BY <1>7 DEF PurgeDone
  <2>2. \A s \in Slots : zip[s] \notin Apks
    BY <1>2, <1>3, <2>1 DEF FilesOK, Dirs
  <2> QED BY <1>1, <2>1, <2>2
<1>8. CASE Run
  BY <1>1, <1>8 DEF Run
<1>9. CASE CommitKey
  <2>1. proc = "up" /\ prefKey' = apkKey /\ UNCHANGED <<apkKey, zip, proc>>
    BY <1>2, <1>9 DEF CommitKey, StageOK
  <2> QED BY <1>1, <1>3, <2>1
<1>10. CASE Crash
  BY <1>1, <1>10 DEF Crash
<1>11. CASE UpgradeApk
  <2>1. proc' = "down" /\ apkKey' = apkKey + 1 /\ prefKey' = prefKey
    BY <1>11 DEF UpgradeApk
  <2> QED BY <1>1, <1>3, <2>1
<1>12. ASSUME NEW n \in Names, UndoBegin(n) PROVE FreshInv'
  <2>1. UNCHANGED <<apkKey, prefKey, proc>> /\ zip' = [zip EXCEPT ![slot'] = Absent]
    BY <1>12 DEF UndoBegin
  <2> QED BY <1>1, <1>2, <1>3, <2>1 DEF FilesOK
<1>13. CASE CopyOpen
  <2>1. UNCHANGED <<apkKey, prefKey, proc>> /\ zip' = [zip EXCEPT ![slot] = Torn]
    BY <1>13 DEF CopyOpen
  <2> QED BY <1>1, <1>2, <1>3, <2>1 DEF FilesOK
<1>14. CASE CopyWrite
  <2>1. PICK content \in {apkKey, Torn} : zip' = [zip EXCEPT ![slot] = content]
    BY <1>14 DEF CopyWrite
  <2>2. UNCHANGED <<apkKey, prefKey, proc>>
    BY <1>14 DEF CopyWrite
  <2> QED BY <1>1, <1>2, <1>3, <2>1, <2>2 DEF FilesOK
<1>15. CASE RunBundles \/ UndoDone \/ CopyFails \/ LoadPatch \/ UNCHANGED patchVars
  BY <1>4, <1>15 DEF RunBundles, UndoDone, CopyFails, LoadPatch, patchVars
<1>16. CASE \E n \in Names : InstallBegin(n)
  BY <1>4, <1>16 DEF InstallBegin
<1> QED BY <1>5, <1>6, <1>7, <1>8, <1>9, <1>10, <1>11, <1>12, <1>13, <1>14, <1>15, <1>16 DEF Next

\* mkdirs and the map, purge and the map go together, and a start reads what they left.
LEMMA DirsStep == PatchInv /\ [Next]_patchVars => DirsInv'
<1> SUFFICES ASSUME PatchInv, [Next]_patchVars PROVE DirsInv'
  OBVIOUS
<1>1. TypeOK /\ IdleInv /\ CallInv /\ DirsInv
  BY DEF PatchInv
<1>2. FilesOK /\ StageOK
  BY <1>1 DEF TypeOK, FilesOK, StageOK
<1>3. \A s \in Slots : s = <<s[1], s[2]>> /\ s[1] \in Names /\ s[2] \in Versions
  BY DEF Slots
<1>4. Absent \notin Names
  BY PatchAssumption
<1> USE DEF DirsInv, MapDirs, diskVars, callVars, history
<1>5. CASE /\ UNCHANGED <<dir, leftover, sortedMap>>
           /\ proc' = "up" => /\ proc = "up"
                              /\ call \in {"open", "write"} <=> call' \in {"open", "write"}
                              /\ call \in {"open", "write"} => slot' = slot
  BY <1>1, <1>5 DEF Dirs, Mapped
<1>6. CASE Boot
  <2>1. UNCHANGED <<dir, leftover, sortedMap>> /\ proc' # "up"
    BY <1>6 DEF Boot
  <2> QED BY <1>5, <2>1
<1>7. CASE Crash \/ UpgradeApk
  <2>1. UNCHANGED <<dir, leftover>> /\ proc' # "up"
    BY <1>7 DEF Crash, UpgradeApk
  <2> QED BY <1>1, <2>1 DEF Dirs
<1>8. CASE \E s \in Slots : PurgeDir(s)
  <2>1. PICK s \in Slots : dir' = [dir EXCEPT ![s] = FALSE] /\ UNCHANGED leftover /\ proc' # "up"
    BY <1>8 DEF PurgeDir
  <2>2. Dirs' \subseteq Dirs
    BY <1>2, <2>1 DEF Dirs, FilesOK
  <2> QED BY <1>1, <2>1, <2>2
<1>9. CASE PurgeDone
  <2>1. Dirs' = {} /\ sortedMap' = NoMap /\ call' = "none"
    BY <1>1, <1>2, <1>9 DEF PurgeDone, Dirs, IdleInv, StageOK
  <2>2. Mapped' = {}
    BY <2>1 DEF Mapped, NoMap
  <2> QED BY <2>1, <2>2
<1>10. CASE Run
  <2>1. PICK listing \in Listings : sortedMap' = listing
    BY <1>10 DEF Run
  <2>2. UNCHANGED <<dir, leftover>> /\ call' = "none"
    BY <1>2, <1>10 DEF Run, StageOK
  <2>3. SUFFICES ASSUME \A s, t \in Dirs : s[2] = t[2] => s = t PROVE Dirs' = MapDirs'
    BY <1>1, <2>2 DEF Dirs
  <2>4. Dirs' = Dirs
    BY <2>2 DEF Dirs
  <2>5. ASSUME NEW v \in Versions
        PROVE  \/ listing[v] = Absent /\ \A n \in Names : ~dir[<<n, v>>]
               \/ listing[v] \in Names /\ dir[<<listing[v], v>>]
    BY DEF Listings
  <2>6. ASSUME NEW s \in Dirs PROVE s \in MapDirs'
    <3>1. s \in Slots /\ dir[s]
      BY DEF Dirs
    <3>2. s = <<s[1], s[2]>> /\ s[1] \in Names /\ s[2] \in Versions
      BY <1>3, <3>1
    <3>3. listing[s[2]] \in Names /\ dir[<<listing[s[2]], s[2]>>]
      BY <2>5, <3>1, <3>2
    <3>4. <<listing[s[2]], s[2]>> \in Dirs
      BY <3>2, <3>3 DEF Dirs, Slots
    <3>5. s = <<listing[s[2]], s[2]>>
      BY <2>3, <3>4
    <3>6. s[2] \in Mapped'
      BY <1>4, <2>1, <3>2, <3>3 DEF Mapped
    <3> QED BY <2>1, <3>5, <3>6
  <2>7. ASSUME NEW v \in Mapped' PROVE <<sortedMap'[v], v>> \in Dirs
    <3>1. v \in Versions /\ listing[v] # Absent
      BY <2>1 DEF Mapped
    <3>2. listing[v] \in Names /\ dir[<<listing[v], v>>]
      BY <2>5, <3>1
    <3> QED BY <2>1, <3>1, <3>2 DEF Dirs, Slots
  <2> QED BY <2>4, <2>6, <2>7
<1>11. ASSUME NEW n \in Names, UndoBegin(n) PROVE DirsInv'
  <2>1. UNCHANGED <<dir, leftover, sortedMap, proc>> /\ call = "none" /\ call' = "undo"
    BY <1>11 DEF UndoBegin
  <2> QED BY <1>5, <2>1
<1>12. ASSUME NEW n \in Names, InstallBegin(n) PROVE DirsInv'
  <2>1. /\ slot' = <<n, FirstKey + 1>> /\ dir' = [dir EXCEPT ![slot'] = TRUE] /\ call' = "open"
        /\ UNCHANGED <<sortedMap, leftover>> /\ FirstKey < MaxVersion
        /\ proc = "up" /\ call = "none"
    BY <1>12 DEF InstallBegin
  <2>2. FirstKey \in 0..MaxVersion /\ \A v \in Mapped : v <= FirstKey
    BY <1>1, FirstKeyIsLast
  <2>3. slot' \in Slots /\ slot'[2] = FirstKey + 1
    <3>1. FirstKey + 1 \in Versions
      BY <2>1, <2>2, PatchAssumption DEF Versions
    <3> QED BY <2>1, <3>1 DEF Slots
  <2>4. Dirs' = Dirs \cup {slot'}
    BY <1>2, <2>1, <2>3 DEF Dirs, FilesOK
  <2>5. SUFFICES ASSUME ~leftover
                 PROVE  (\A s, t \in Dirs' : s[2] = t[2] => s = t) /\ Dirs' = MapDirs' \cup {slot'}
    BY <2>1
  <2>6. (\A s, t \in Dirs : s[2] = t[2] => s = t) /\ Dirs = MapDirs
    BY <1>1, <2>1, <2>5
  <2>7. \A s \in Dirs : s[2] # slot'[2]
    <3>1. \A s \in Dirs : s[2] \in Mapped
      BY <2>6
    <3>2. \A v \in Mapped : v \in Nat /\ v # FirstKey + 1
      BY <2>2 DEF Mapped, Versions
    <3> QED BY <2>3, <3>1, <3>2
  <2>8. MapDirs' = MapDirs
    BY <2>1 DEF Mapped
  <2>9. \A s, t \in Dirs' : s[2] = t[2] => s = t
    BY <2>4, <2>6, <2>7
  <2> QED BY <2>4, <2>6, <2>8, <2>9
<1>13. CASE UndoDone
  <2>1. /\ dir' = [dir EXCEPT ![slot] = FALSE] /\ sortedMap' = [sortedMap EXCEPT ![slot[2]] = Absent]
        /\ call' = "none" /\ call = "undo" /\ UNCHANGED <<leftover, proc>>
    BY <1>13 DEF UndoDone
  <2>2. /\ slot \in Slots /\ slot[2] \in Versions /\ slot = <<slot[1], slot[2]>>
        /\ sortedMap[slot[2]] = slot[1] /\ slot[1] # Absent /\ proc = "up"
    BY <1>1, <1>2, <2>1, SlotTyped DEF CallInv, StageOK
  <2>3. Dirs' = Dirs \ {slot}
    BY <1>2, <2>1, <2>2 DEF Dirs, FilesOK
  <2>4. Mapped' = Mapped \ {slot[2]} /\ \A v \in Mapped' : sortedMap'[v] = sortedMap[v]
    BY <1>2, <2>1, <2>2 DEF Mapped, FilesOK
  <2>5. MapDirs' = MapDirs \ {slot}
    BY <2>2, <2>4
  <2> QED BY <1>1, <2>1, <2>2, <2>3, <2>5
<1>14. CASE CopyWrite
  <2>1. /\ call' = "load" /\ call = "write" /\ UNCHANGED <<dir, slot, leftover, proc>>
        /\ sortedMap' = [sortedMap EXCEPT ![slot[2]] = slot[1]]
    BY <1>14 DEF CopyWrite
  <2>2. /\ slot[2] \in Versions /\ slot[2] \in Nat /\ slot[1] # Absent
        /\ slot = <<slot[1], slot[2]>> /\ proc = "up"
    BY <1>1, <1>2, <2>1, SlotTyped DEF StageOK
  <2>3. slot[2] \notin Mapped
    BY <1>1, <2>1, <2>2 DEF CallInv
  <2>4. /\ Mapped' = Mapped \cup {slot[2]} /\ sortedMap'[slot[2]] = slot[1]
        /\ \A v \in Mapped : sortedMap'[v] = sortedMap[v]
    BY <1>2, <2>1, <2>2, <2>3 DEF Mapped, FilesOK
  <2>5. MapDirs' = MapDirs \cup {slot}
    BY <2>2, <2>3, <2>4
  <2>6. Dirs' = Dirs
    BY <2>1 DEF Dirs
  <2> QED BY <1>1, <2>1, <2>2, <2>5, <2>6
<1>15. CASE CopyFails
  <2>1. leftover'
    BY <1>15 DEF CopyFails
  <2> QED BY <2>1
<1>16. CASE CopyOpen \/ LoadPatch
  BY <1>5, <1>16 DEF CopyOpen, LoadPatch
<1>17. CASE CommitKey \/ RunBundles \/ UNCHANGED patchVars
  BY <1>5, <1>17 DEF CommitKey, RunBundles, patchVars
<1> QED BY <1>6, <1>7, <1>8, <1>9, <1>10, <1>11, <1>12, <1>13, <1>14, <1>15, <1>16, <1>17 DEF Next

-----------------------------------------------------------------------------
(* The theorems.                                                           *)

\* The inductive invariant holds throughout.
THEOREM PatchInvariance == Spec => []PatchInv
<1>1. PatchInv /\ [Next]_patchVars => PatchInv'
  BY TypeStep, IdleStep, CallStep, FreshStep, DirsStep, LoaderStep DEF PatchInv
<1> QED BY InitPatchInv, <1>1, PTL DEF Spec

\* The state has the types of HotPatch, and each stage is where TypeOK says.
THEOREM PatchTypes == Spec => []TypeOK
<1>1. PatchInv => TypeOK
  BY DEF PatchInv
<1> QED BY PatchInvariance, <1>1, PTL

\* Of two loaded patches the class loader consults the one installed later first, for any number
\* of patches installed, undone and restarted: run sorts and appends, installHotPatch prepends.
THEOREM NewestFound == Spec => []NewestPatchWins
<1>1. PatchInv => NewestPatchWins
  BY DEF PatchInv, LoaderInv, Ordered, NewestPatchWins, Position, FirstAt
<1> QED BY PatchInvariance, <1>1, PTL

\* Every patch is consulted before the bundles, on a first run and on every later start.
THEOREM PatchedBundles == Spec => []PatchesBeforeBundles
<1>1. PatchInv => PatchesBeforeBundles
  BY DEF PatchInv, LoaderInv, Ordered, PatchesBeforeBundles, Position, FirstAt, Patches, Elements, Found
<1> QED BY PatchInvariance, <1>1, PTL

\* No patch of another APK is ever loaded, whichever file operation the process dies in.
THEOREM PatchesOfThisApk == Spec => []NoStalePatch
<1>1. PatchInv => NoStalePatch
  BY DEF PatchInv, LoaderInv, Ordered, NoStalePatch, Patches, Elements, Found
<1> QED BY PatchInvariance, <1>1, PTL

\* Between calls, until an install fails, the map is what the next start would run.
THEOREM RestartSame == Spec => []RestartRunsMap
<1>1. PatchInv => RestartRunsMap
  BY DEF PatchInv, DirsInv, MapDirs, RestartRunsMap
<1> QED BY PatchInvariance, <1>1, PTL
=============================================================================
