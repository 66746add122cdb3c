------------------------ MODULE ResourceBuildProofs ------------------------
(***************************************************************************)
(* Theorems of ResourceBuild.  What the operators of the build compute is  *)
(* mostly a fold; a proof about a fold takes an instance of FoldFacts with *)
(* the step, and with what the step keeps.                                 *)
(***************************************************************************)
EXTENDS ResourceBuild, SequenceTheorems, FunctionTheorems, FiniteSetTheorems, WellFoundedInduction, TLAPS

-----------------------------------------------------------------------------
(* What the folds are over: sets of numbers, and finite sets. *)

\* Every set of numbers that is not empty has a smallest one.
LEMMA SmallestNumber == \A B \in SUBSET Nat : B # {} => \E m \in B : \A k \in B : m <= k
<1> SUFFICES ASSUME NEW S \in SUBSET Nat, S # {} PROVE \E n \in S : \A m \in S : n <= m
  OBVIOUS
<1>1. PICK n \in S : \A m \in S : ~(<<m, n>> \in OpToRel(<, Nat))
  BY NatLessThanWellFounded, WFMin
<1>2. \A m \in S : m \in Nat /\ n \in Nat
  OBVIOUS
<1>3. \A m \in S : ~(m < n)
  BY <1>1, <1>2 DEF OpToRel
<1> QED BY <1>2, <1>3

\* What FoldFacts calls a finite set.
Tame(S) == \A B \in SUBSET SUBSET S : B # {} => \E s \in B : \A u \in B : u \subseteq s => u = s
LEMMA FiniteIsTame == ASSUME NEW S, IsFiniteSet(S) PROVE Tame(S)
<1> SUFFICES ASSUME NEW B \in SUBSET SUBSET S, B # {} PROVE \E s \in B : \A u \in B : u \subseteq s => u = s
  BY DEF Tame
<1> DEFINE sizes == {Cardinality(s) : s \in B}
<1>1. \A s \in B : IsFiniteSet(s) /\ Cardinality(s) \in Nat
  BY FS_Subset, FS_CardinalityType
<1>2. sizes \in SUBSET Nat /\ sizes # {}
  BY <1>1
<1>3. PICK n \in sizes : \A k \in sizes : n <= k
  <2> HIDE DEF sizes
  <2> QED BY <1>2, SmallestNumber
<1>4. PICK s \in B : n = Cardinality(s)
  BY <1>3
<1>5. ASSUME NEW u \in B, u \subseteq s PROVE u = s
  <2>1. Cardinality(u) <= Cardinality(s) /\ (Cardinality(s) = Cardinality(u) => s = u)
    BY <1>1, <1>5, FS_Subset
  <2>2. Cardinality(s) <= Cardinality(u)
    BY <1>3, <1>4
  <2> QED BY <1>1, <2>1, <2>2
<1> QED BY <1>5

-----------------------------------------------------------------------------
(* A set in an order. *)

\* Ranked by numbers that differ, the elements of a finite set have 0, 1, 2 ... others before them.
LEMMA RanksFill ==
  ASSUME NEW S, IsFiniteSet(S), NEW rank \in [S -> Int],
         \A x, y \in S : rank[x] = rank[y] => x = y
  PROVE  \A i \in 1..Cardinality(S) : \E x \in S : Cardinality({y \in S : rank[y] < rank[x]}) = i - 1
<1> TAKE i \in 1..Cardinality(S)
<1> DEFINE Below(x) == {y \in S : rank[y] < rank[x]}
           n == Cardinality(S)
           T == 0..(n - 1)
           h == [x \in S |-> Cardinality(Below(x))]
<1>1. n \in Nat
  BY FS_CardinalityType
<1>2. \A x \in S : IsFiniteSet(Below(x)) /\ Cardinality(Below(x)) \in Nat
  BY FS_Subset, FS_CardinalityType
<1>3. ASSUME NEW x \in S, NEW y \in S, rank[x] < rank[y]
      PROVE  Cardinality(Below(x)) < Cardinality(Below(y))
  <2>1. Below(x) \subseteq Below(y) /\ x \in Below(y) /\ x \notin Below(x)
    BY <1>3
  <2> HIDE DEF Below
  <2>2. Below(x) # Below(y) /\ Below(x) \in SUBSET Below(y)
    BY <2>1
  <2> QED BY <1>2, <2>2, FS_Subset
<1>4. ASSUME NEW x \in S PROVE Cardinality(Below(x)) \in T
  <2>1. Below(x) \in SUBSET S /\ x \notin Below(x)
    OBVIOUS
  <2> HIDE DEF Below
  <2>2. Below(x) # S
    BY <2>1
  <2> QED BY <1>1, <1>2, <2>1, <2>2, FS_Subset
<1>5. h \in Injection(S, T)
  <2>1. \A x, y \in S : x # y => Cardinality(Below(x)) # Cardinality(Below(y))
    <3> TAKE x, y \in S
    <3> HAVE x # y
    <3>1. rank[x] \in Int /\ rank[y] \in Int /\ rank[x] # rank[y]
      OBVIOUS
    <3> HIDE DEF Below
    <3>2. CASE rank[x] < rank[y]
      BY <1>2, <1>3, <3>2
    <3>3. CASE rank[y] < rank[x]
      BY <1>2, <1>3, <3>3
    <3> QED BY <3>1, <3>2, <3>3
  <2> HIDE DEF Below, T
  <2> QED BY <1>4, <2>1 DEF Injection, IsInjective
<1>6. IsFiniteSet(T) /\ Cardinality(T) = n
  <2> HIDE DEF n
  <2>1. n - 1 \in Int /\ (0 > n - 1 => n = 0) /\ (n - 1) - 0 + 1 = n
    BY <1>1
  <2> QED BY <2>1, FS_Interval
<1>7. h \in Surjection(S, T)
  <2> HIDE DEF h, T
  <2> QED BY <1>5, <1>6, FS_Injection
<1>8. i - 1 \in T
  BY <1>1
<1>9. PICK x \in S : h[x] = i - 1
  <2> HIDE DEF h, T
  <2> QED BY <1>7, <1>8 DEF Surjection
<1> QED BY <1>9

\* What has its place in an order, in that order.
LEMMA OrderFinite == ASSUME NEW order, IsOrder(order) PROVE IsFiniteSet(ToSet(order))
<1> DEFINE n == Len(order)
           f == [i \in 1..n |-> order[i]]
<1>1. n \in Nat /\ DOMAIN order = 1..n
  BY DEF IsOrder, IsList
<1>2. IsFiniteSet(1..n)
  BY <1>1, FS_Interval
<1>3. f \in Surjection(1..n, ToSet(order))
  BY <1>1 DEF Surjection, ToSet
<1> HIDE DEF n, f
<1> QED BY <1>2, <1>3, FS_Surjection

LEMMA RankOfPlace ==
  ASSUME NEW order, IsOrder(order)
  PROVE  /\ \A c \in ToSet(order) : RankIn(order, c) \in Int
         /\ \A c, d \in ToSet(order) : RankIn(order, c) = RankIn(order, d) => c = d
<1>1. DOMAIN order \subseteq Int
  BY DEF IsOrder, IsList
<1>2. \A c \in ToSet(order) : /\ RankIn(order, c) \in DOMAIN order
                              /\ order[RankIn(order, c)] = c
  <2> TAKE c \in ToSet(order)
  <2>1. \E i \in DOMAIN order : order[i] = c
    BY DEF ToSet
  <2>2. RankIn(order, c) = CHOOSE i \in DOMAIN order : order[i] = c
    BY DEF RankIn
  <2> QED BY <2>1, <2>2
<1> QED BY <1>1, <1>2

AtPlace(order, S, i) == CHOOSE x \in S : Cardinality({y \in S : RankIn(order, y) < RankIn(order, x)}) = i - 1
LEMMA InOrder ==
  ASSUME NEW order, IsOrder(order), NEW S \in SUBSET ToSet(order), NEW list,
         list = [i \in 1..Cardinality(S) |-> AtPlace(order, S, i)]
  PROVE  /\ Cardinality(S) \in Nat /\ IsFiniteSet(S)
         /\ DOMAIN list = 1..Cardinality(S)
         /\ \A i \in 1..Cardinality(S) : list[i] \in S
<1> DEFINE rank == [c \in S |-> RankIn(order, c)]
<1>1. IsFiniteSet(S) /\ Cardinality(S) \in Nat
  BY OrderFinite, FS_Subset, FS_CardinalityType
<1>2. rank \in [S -> Int] /\ \A x, y \in S : rank[x] = rank[y] => x = y
  BY RankOfPlace
<1>5. \A i \in 1..Cardinality(S) : \E x \in S : Cardinality({y \in S : rank[y] < rank[x]}) = i - 1
  <2> HIDE DEF rank
  <2> QED BY <1>1, <1>2, RanksFill
<1>4. ASSUME NEW i \in 1..Cardinality(S) PROVE list[i] \in S
  <2>1. \E x \in S : Cardinality({y \in S : rank[y] < rank[x]}) = i - 1
    BY <1>4, <1>5
  <2>2. \A x \in S : {y \in S : rank[y] < rank[x]} = {y \in S : RankIn(order, y) < RankIn(order, x)}
    OBVIOUS
  <2>3. \E x \in S : Cardinality({y \in S : RankIn(order, y) < RankIn(order, x)}) = i - 1
    <3> HIDE DEF rank
    <3> QED BY <2>1, <2>2
  <2>4. AtPlace(order, S, i) \in S
    BY <2>3 DEF AtPlace
  <2> QED BY <2>4
<1> QED BY <1>1, <1>4

\* Files: the configurations of a group.
LEMMA FilesOfGroup ==
  ASSUME NEW g, DOMAIN g \subseteq ToSet(ConfigOrder)
  PROVE  /\ Cardinality(DOMAIN g) \in Nat
         /\ DOMAIN Files(g) = 1..Cardinality(DOMAIN g)
         /\ \A i \in 1..Cardinality(DOMAIN g) : Files(g)[i] \in DOMAIN g
<1> DEFINE S == DOMAIN g
<1>1. Files(g) = [i \in 1..Cardinality(S) |-> AtPlace(ConfigOrder, S, i)]
  BY DEF Files, Ordered, AtPlace
<1>2. S \in SUBSET ToSet(ConfigOrder) /\ IsOrder(ConfigOrder)
  BY SourcesAssumption
<1> HIDE DEF S
<1>3. /\ Cardinality(S) \in Nat /\ DOMAIN Files(g) = 1..Cardinality(S)
      /\ \A i \in 1..Cardinality(S) : Files(g)[i] \in S
  BY <1>1, <1>2, InOrder
<1> QED BY <1>3 DEF S

-----------------------------------------------------------------------------
(* Variants that differ in their density only. *)

LEMMA DensityBit == \A a : BitOf(a) = "density" => a = "density"
BY DEF BitOf

\* Which they are, whichever of them is asked.
LEMMA SameButDensity ==
  ASSUME NEW c, NEW d
  PROVE  Diff(c, d) \subseteq {"density"} <=> \A a \in Axes \ {"density"} : c[a] = d[a]
<1>1. BitOf("density") = "density"
  BY DEF BitOf
<1>2. Diff(c, d) \subseteq {"density"} <=> \A a \in Axes : c[a] # d[a] => BitOf(a) = "density"
  BY DEF Diff
<1> QED BY <1>1, <1>2, DensityBit

\* That n is taken instead of m.
Beats(n, m, preferred) == \/ n < m /\ n >= preferred /\ m > preferred
                          \/ n > m /\ m < preferred
\* Those that no other variant of G beats.
Unbeaten(G, preferred) ==
    {x \in G : \A d \in G : IsSameExcept(x, d, {"density"}) => ~Beats(d.density, x.density, preferred)}

BetterOp(c, preferred, r, best, d) ==
    LET n == d.density
    IN  IF d = c \/ ~IsSameExcept(c, d, {"density"}) THEN best
        ELSE IF n < best /\ n >= preferred /\ best > preferred THEN n
        ELSE IF n > best /\ best < preferred THEN n ELSE best
BetterGood(c, preferred, r, best) == best = c.density
Better == INSTANCE FoldFacts WITH Op <- BetterOp, Good <- BetterGood

\* The search for a better density ends where it began.
LEMMA UnbeatenIsBest ==
  ASSUME NEW G, G \subseteq ToSet(ConfigOrder), NEW g, DOMAIN g \subseteq G,
         NEW preferred \in Nat, NEW c \in Unbeaten(G, preferred)
  PROVE  BestDensity(g, c, preferred) = c.density
<1> DEFINE n == Cardinality(DOMAIN g)
<1>1. n \in Nat /\ DOMAIN Files(g) = 1..n /\ \A i \in 1..n : Files(g)[i] \in G
  BY FilesOfGroup
<1>2. BestDensity(g, c, preferred) = Better!Left(c, preferred, 0, c.density, Files(g))
  BY DEF BestDensity, FoldLeft, MapThenFoldSet, BetterOp, Better!Left, Max
<1>3. BetterGood(c, preferred, 0, c.density)
  BY DEF BetterGood
<1>4. \A acc : \A i \in 1..n : BetterGood(c, preferred, 0, acc) =>
                                 BetterGood(c, preferred, 0, BetterOp(c, preferred, 0, acc, Files(g)[i]))
  <2> HIDE DEF n
  <2> QED BY <1>1 DEF BetterGood, BetterOp, Unbeaten, Beats
<1>5. BetterGood(c, preferred, 0, Better!Left(c, preferred, 0, c.density, Files(g)))
  <2> HIDE DEF n
  <2> QED BY <1>1, <1>3, <1>4, Better!LeftKeeps, SmallestNumber
<1> QED BY <1>2, <1>5 DEF BetterGood

\* What is left of a group.
Part(g, group) == DOMAIN g \subseteq DOMAIN group /\ \A c \in DOMAIN g : g[c] = group[c]

FirstOp(entries, q, r, g, c) == IF Removable(g, c) /\ ~WeakMatch(entries, c) THEN Without(g, c) ELSE g
FirstGood(entries, group, r, g) == Part(g, group)
First == INSTANCE FoldFacts WITH Op <- FirstOp, Good <- FirstGood

\* The first pass only takes away.
LEMMA FirstPassShrinks ==
  ASSUME NEW entries, NEW group, DOMAIN group \subseteq ToSet(ConfigOrder)
  PROVE  Part(FirstPass(entries, group), group)
<1> DEFINE n == Cardinality(DOMAIN group)
<1>1. n \in Nat /\ DOMAIN Files(group) = 1..n
  BY FilesOfGroup
<1>2. FirstPass(entries, group) = First!Left(entries, group, 0, group, Files(group))
  BY DEF FirstPass, FoldLeft, MapThenFoldSet, FirstOp, First!Left, Max
<1>3. FirstGood(entries, group, 0, group)
  BY DEF FirstGood, Part
<1>4. \A acc : \A i \in 1..n : FirstGood(entries, group, 0, acc) =>
                                 FirstGood(entries, group, 0, FirstOp(entries, group, 0, acc, Files(group)[i]))
  BY DEF FirstGood, FirstOp, Without, Part
<1>5. FirstGood(entries, group, 0, First!Left(entries, group, 0, group, Files(group)))
  <2> HIDE DEF n
  <2> QED BY <1>1, <1>3, <1>4, First!LeftKeeps, SmallestNumber
<1> QED BY <1>2, <1>5 DEF FirstGood

SecondOp(preferred, group, r, g, c) ==
    IF /\ Removable(g, c) /\ c.density \notin {0, preferred}
       /\ BestDensity(g, c, preferred) # c.density
    THEN Without(g, c) ELSE g
SecondGood(preferred, group, r, g) == Unbeaten(DOMAIN group, preferred) \subseteq DOMAIN g /\ Part(g, group)
Second == INSTANCE FoldFacts WITH Op <- SecondOp, Good <- SecondGood

\* The second pass keeps what is not beaten, in whichever order it takes the others away.
LEMMA SecondPassKeeps ==
  ASSUME NEW preferred \in Nat, NEW group, DOMAIN group \subseteq ToSet(ConfigOrder)
  PROVE  /\ Unbeaten(DOMAIN group, preferred) \subseteq DOMAIN SecondPass(preferred, group)
         /\ Part(SecondPass(preferred, group), group)
<1> DEFINE n == Cardinality(DOMAIN group)
           G == DOMAIN group
<1>1. n \in Nat /\ DOMAIN Files(group) = 1..n
  BY FilesOfGroup
<1>2. SecondPass(preferred, group) = Second!Left(preferred, group, 0, group, Files(group))
  BY DEF SecondPass, FoldLeft, MapThenFoldSet, SecondOp, Second!Left, Max
<1>3. SecondGood(preferred, group, 0, group)
  BY DEF SecondGood, Unbeaten, Part
<1>4. ASSUME NEW acc, NEW c, SecondGood(preferred, group, 0, acc)
      PROVE  SecondGood(preferred, group, 0, SecondOp(preferred, group, 0, acc, c))
  <2>1. G \subseteq ToSet(ConfigOrder)
    OBVIOUS
  <2>2. Part(acc, group) /\ DOMAIN acc \subseteq G /\ Unbeaten(G, preferred) \subseteq DOMAIN acc
    BY <1>4 DEF SecondGood, Part
  <2>a. G = DOMAIN group
    OBVIOUS
  <2> HIDE DEF G
  <2>3. CASE c \in Unbeaten(G, preferred)
    <3>1. BestDensity(acc, c, preferred) = c.density
      BY <2>1, <2>2, <2>3, UnbeatenIsBest
    <3>2. SecondOp(preferred, group, 0, acc, c) = acc
      BY <3>1 DEF SecondOp
    <3> QED BY <1>4, <3>2
  <2>4. CASE c \notin Unbeaten(G, preferred)
    <3>1. SecondOp(preferred, group, 0, acc, c) \in {acc, Without(acc, c)}
      BY DEF SecondOp
    <3>2. DOMAIN Without(acc, c) = DOMAIN acc \ {c} /\ Part(Without(acc, c), group)
      BY <2>2 DEF Without, Part
    <3> QED BY <2>2, <2>4, <2>a, <3>1, <3>2 DEF SecondGood
  <2> QED BY <2>3, <2>4
<1>5. SecondGood(preferred, group, 0, Second!Left(preferred, group, 0, group, Files(group)))
  <2>1. \A acc : \A i \in 1..n : SecondGood(preferred, group, 0, acc) =>
                                   SecondGood(preferred, group, 0, SecondOp(preferred, group, 0, acc, Files(group)[i]))
    BY <1>4
  <2> HIDE DEF n, G
  <2> QED BY <1>1, <1>3, <2>1, Second!LeftKeeps, SmallestNumber
<1> QED BY <1>2, <1>5 DEF SecondGood

\* What a device of the preferred density would have taken, as BestDensityKept says it.
BestOf(ds, preferred) ==
    LET above == {d \in ds : d >= preferred}
    IN  IF above # {} THEN CHOOSE d \in above : \A e \in above : d <= e
        ELSE CHOOSE d \in ds : \A e \in ds : e <= d

LEMMA BestOfNumbers ==
  ASSUME NEW ds \in SUBSET Nat, ds # {}, NEW preferred \in Nat
  PROVE  /\ BestOf(ds, preferred) \in ds
         /\ \A n \in ds : ~Beats(n, BestOf(ds, preferred), preferred)
<1> DEFINE above == {d \in ds : d >= preferred}
           best == BestOf(ds, preferred)
<1>1. CASE above # {}
  <2>1. \E d \in above : \A e \in above : d <= e
    BY <1>1, SmallestNumber
  <2>2. best = CHOOSE d \in above : \A e \in above : d <= e
    BY <1>1 DEF BestOf
  <2>3. best \in above /\ \A e \in above : best <= e
    BY <2>1, <2>2
  <2> HIDE DEF best
  <2>4. \A n \in ds : ~Beats(n, best, preferred)
    BY <2>3 DEF Beats
  <2> QED BY <2>3, <2>4 DEF best
<1>2. CASE above = {}
  <2> DEFINE T == {preferred - d : d \in ds}
  <2>1. \A d \in ds : d < preferred /\ d \in Nat /\ preferred - d \in Nat
    BY <1>2
  <2>2. T \in SUBSET Nat /\ T # {}
    BY <2>1
  <2>3. PICK m \in T : \A k \in T : m <= k
    <3> HIDE DEF T
    <3> QED BY <2>2, SmallestNumber
  <2>4. PICK d \in ds : m = preferred - d
    BY <2>3
  <2>5. \A e \in ds : preferred - d <= preferred - e
    BY <2>3, <2>4
  <2>6. \A e \in ds : e <= d
    BY <2>1, <2>5
  <2>7. best = CHOOSE x \in ds : \A e \in ds : e <= x
    BY <1>2 DEF BestOf
  <2>8. best \in ds /\ \A e \in ds : e <= best
    BY <2>6, <2>7
  <2> HIDE DEF best
  <2>9. \A n \in ds : ~Beats(n, best, preferred)
    BY <2>1, <2>8 DEF Beats
  <2> QED BY <2>8, <2>9 DEF best
<1> QED BY <1>1, <1>2

\* The best of the variants of c is one that is not beaten.
LEMMA BestIsUnbeaten ==
  ASSUME NEW G, G \subseteq ToSet(ConfigOrder), NEW preferred \in Nat, NEW c \in G
  PROVE  LET same == {d \in G : Diff(c, d) \subseteq {"density"}}
         IN  \E x \in Unbeaten(G, preferred) :
                x \in same /\ x.density = BestOf({d.density : d \in same}, preferred)
<1> DEFINE same == {d \in G : Diff(c, d) \subseteq {"density"}}
           ds == {d.density : d \in same}
           best == BestOf(ds, preferred)
<1>1. \A d \in G : d.density \in Nat
  BY SourcesAssumption DEF ToSet
<1>2. c \in same
  BY SameButDensity
<1>3. ds \in SUBSET Nat /\ ds # {}
  BY <1>1, <1>2
<1>4. best \in ds /\ \A n \in ds : ~Beats(n, best, preferred)
  <2> HIDE DEF ds
  <2> QED BY <1>3, BestOfNumbers
<1>5. PICK x \in same : x.density = best
  BY <1>4
<1>6. ASSUME NEW d \in G, IsSameExcept(x, d, {"density"}) PROVE d \in same
  <2>1. \A a \in Axes \ {"density"} : x[a] = d[a]
    BY <1>6, SameButDensity DEF IsSameExcept
  <2>2. \A a \in Axes \ {"density"} : c[a] = x[a]
    BY SameButDensity
  <2> QED BY <2>1, <2>2, SameButDensity
<1>7. \A d \in G : IsSameExcept(x, d, {"density"}) => ~Beats(d.density, x.density, preferred)
  <2>1. \A d \in same : d.density \in ds
    OBVIOUS
  <2> HIDE DEF best, ds, same
  <2> QED BY <1>4, <1>5, <1>6, <2>1
<1> QED BY <1>5, <1>7 DEF Unbeaten

-----------------------------------------------------------------------------
(* Lists. *)

LEMMA ListIsSeq ==
  ASSUME NEW s
  PROVE  /\ IsList(s) => s \in Seq({s[i] : i \in 1..Len(s)}) /\ Len(s) \in Nat /\ DOMAIN s = 1..Len(s)
         /\ \A T : s \in Seq(T) => IsList(s) /\ \A i \in DOMAIN s : s[i] \in T
BY DEF IsList

LEMMA EmptyIsList == IsList(<< >>) /\ DOMAIN << >> = {}
<1> DEFINE e == << >>
<1>1. e \in Seq({})
  OBVIOUS
<1>2. DOMAIN e = {}
  OBVIOUS
<1> HIDE DEF e
<1>3. IsList(e) /\ DOMAIN e = {}
  BY <1>1, <1>2, ListIsSeq
<1> QED BY <1>3 DEF e

LEMMA FunctionIsList ==
  ASSUME NEW n \in Nat, NEW f, f = [i \in 1..n |-> f[i]]
  PROVE  IsList(f) /\ DOMAIN f = 1..n /\ Len(f) = n
<1> DEFINE T == {f[i] : i \in 1..n}
<1>1. f \in [1..n -> T]
  OBVIOUS
<1> HIDE DEF T
<1>2. f \in Seq(T)
  BY <1>1
<1>3. DOMAIN f = 1..n
  BY <1>1
<1>4. Len(f) = n
  BY <1>2, <1>3
<1> QED BY <1>2, <1>3, <1>4, ListIsSeq

LEMMA AppendIsList ==
  ASSUME NEW s, IsList(s), NEW x
  PROVE  /\ IsList(Append(s, x)) /\ Len(Append(s, x)) = Len(s) + 1
         /\ DOMAIN Append(s, x) = 1..(Len(s) + 1)
         /\ \A i \in DOMAIN s : Append(s, x)[i] = s[i]
         /\ Append(s, x)[Len(s) + 1] = x
<1> DEFINE T == {s[i] : i \in 1..Len(s)} \cup {x}
<1>1. s \in Seq(T) /\ x \in T /\ Len(s) \in Nat /\ DOMAIN s = 1..Len(s)
  BY DEF IsList
<1> HIDE DEF T
<1>2. Append(s, x) \in Seq(T)
  BY <1>1
<1>3. /\ Len(Append(s, x)) = Len(s) + 1 /\ DOMAIN Append(s, x) = 1..(Len(s) + 1)
      /\ \A i \in DOMAIN s : Append(s, x)[i] = s[i]
      /\ Append(s, x)[Len(s) + 1] = x
  BY <1>1
<1> QED BY <1>2, <1>3, ListIsSeq

LEMMA TailIsList ==
  ASSUME NEW s, IsList(s), s # << >>
  PROVE  /\ IsList(Tail(s)) /\ 1 \in DOMAIN s /\ Head(s) = s[1]
         /\ \A i \in DOMAIN Tail(s) : i + 1 \in DOMAIN s /\ Tail(s)[i] = s[i + 1]
<1> DEFINE T == {s[i] : i \in 1..Len(s)}
<1>1. s \in Seq(T) /\ Len(s) \in Nat /\ DOMAIN s = 1..Len(s)
  BY DEF IsList
<1> HIDE DEF T
<1>2. Len(s) # 0
  BY <1>1
<1>3. Tail(s) \in Seq(T) /\ Head(s) = s[1] /\ Len(Tail(s)) = Len(s) - 1
  BY <1>1, <1>2
<1>4. \A i \in 1..(Len(s) - 1) : Tail(s)[i] = s[i + 1]
  BY <1>1, <1>2
<1>5. DOMAIN Tail(s) = 1..(Len(s) - 1)
  BY <1>3
<1>6. \A i \in 1..(Len(s) - 1) : i + 1 \in 1..Len(s)
  BY <1>1
<1>7. 1 \in 1..Len(s)
  BY <1>1, <1>2
<1>8. IsList(Tail(s))
  BY <1>3, ListIsSeq
<1> QED BY <1>1, <1>3, <1>4, <1>5, <1>6, <1>7, <1>8

LEMMA ConcatIsList ==
  ASSUME NEW s, NEW t, IsList(s), IsList(t)
  PROVE  /\ IsList(s \o t)
         /\ \A i \in DOMAIN (s \o t) : (\E j \in DOMAIN s : (s \o t)[i] = s[j]) \/ (\E j \in DOMAIN t : (s \o t)[i] = t[j])
<1> DEFINE T == {s[i] : i \in 1..Len(s)} \cup {t[i] : i \in 1..Len(t)}
<1>1. s \in Seq(T) /\ t \in Seq(T) /\ DOMAIN s = 1..Len(s) /\ DOMAIN t = 1..Len(t)
  BY DEF IsList
<1>3. \A x \in T : (\E j \in DOMAIN s : x = s[j]) \/ (\E j \in DOMAIN t : x = t[j])
  BY <1>1
<1> HIDE DEF T
<1>2. s \o t \in Seq(T)
  BY <1>1
<1> QED BY <1>2, <1>3, ListIsSeq

\* FlattenSeq, for lists of lists.
LEMMA FlattenIsList ==
  ASSUME NEW ss, IsList(ss), \A i \in DOMAIN ss : IsList(ss[i])
  PROVE  /\ IsList(FlattenSeq(ss))
         /\ \A j \in DOMAIN FlattenSeq(ss) : \E i \in DOMAIN ss : \E k \in DOMAIN ss[i] : FlattenSeq(ss)[j] = ss[i][k]
<1> DEFINE n == Len(ss)
           Next1(g, i) == IF i = 1 THEN ss[i] ELSE g[i - 1] \o ss[i]
           UpTo(g, m) == g = [i \in 1..n |-> g[i]] /\ \A i \in 1..m : g[i] = Next1(g, i)
           Unbuilt == {m \in Nat : m <= n /\ ~\E g : UpTo(g, m)}
           fl == CHOOSE g : g = [i \in 1..n |-> Next1(g, i)]
           From(x) == \A j \in DOMAIN x : \E i \in DOMAIN ss : \E k \in DOMAIN ss[i] : x[j] = ss[i][k]
           Wrong == {m \in Nat : 1 <= m /\ m <= n /\ ~(IsList(fl[m]) /\ From(fl[m]))}
<1>1. n \in Nat /\ DOMAIN ss = 1..n
  BY DEF IsList
<1> HIDE DEF n
<1>2. 0 \notin Unbuilt
  <2> DEFINE g == [i \in 1..n |-> << >>]
  <2>1. UpTo(g, 0)
    OBVIOUS
  <2> QED BY <2>1
<1>3. ASSUME NEW m \in Nat, m + 1 <= n, m \notin Unbuilt PROVE m + 1 \notin Unbuilt
  <2>1. PICK g : UpTo(g, m)
    BY <1>1, <1>3
  <2> DEFINE h == [i \in 1..n |-> IF i = m + 1 THEN Next1(g, i) ELSE g[i]]
  <2>2. h = [i \in 1..n |-> h[i]]
    OBVIOUS
  <2>3. ASSUME NEW i \in 1..(m + 1) PROVE h[i] = Next1(h, i)
    <3>1. i \in 1..n /\ (i # 1 => i - 1 \in 1..n /\ i - 1 # m + 1)
      BY <1>1, <1>3
    <3>2. i # 1 => h[i - 1] = g[i - 1]
      BY <3>1
    <3>3. Next1(h, i) = Next1(g, i)
      BY <3>2
    <3>4. i # m + 1 => g[i] = Next1(g, i)
      <4> HIDE DEF Next1
      <4>1. i # m + 1 => i \in 1..m
        BY <1>3
      <4> QED BY <2>1, <4>1
    <3>5. h[i] = IF i = m + 1 THEN Next1(g, i) ELSE g[i]
      BY <3>1
    <3> QED BY <3>3, <3>4, <3>5
  <2> HIDE DEF h
  <2>4. UpTo(h, m + 1)
    BY <2>2, <2>3
  <2> QED BY <2>4
<1>4. \E g : UpTo(g, n)
  <2>0. Unbuilt \in SUBSET Nat /\ \A m \in Unbuilt : m <= n
    OBVIOUS
  <2>a. n \notin Unbuilt => \E g : UpTo(g, n)
    BY <1>1
  <2> HIDE DEF Unbuilt
  <2>1. CASE Unbuilt = {}
    BY <2>1, <2>a
  <2>2. CASE Unbuilt # {}
    <3>1. PICK m \in Unbuilt : \A k \in Unbuilt : m <= k
      BY <2>0, <2>2, SmallestNumber
    <3>2. m \in Nat /\ m # 0 /\ m <= n
      BY <2>0, <1>2
    <3>3. m - 1 \in Nat /\ m - 1 \notin Unbuilt /\ (m - 1) + 1 <= n /\ (m - 1) + 1 = m
      BY <2>0, <1>1, <3>1, <3>2
    <3> QED BY <1>3, <3>3
  <2> QED BY <2>1, <2>2
<1>5. fl = [i \in 1..n |-> Next1(fl, i)]
  <2>1. PICK g : UpTo(g, n)
    BY <1>4
  <2>2. g = [i \in 1..n |-> Next1(g, i)]
    BY <2>1
  <2> HIDE DEF Next1
  <2> QED BY <2>2
<1> HIDE DEF fl
<1>6. \A m \in 1..n : IsList(fl[m]) /\ From(fl[m])
  <2>0. Wrong \in SUBSET Nat /\ \A m \in Wrong : 1 <= m /\ m <= n /\ ~(IsList(fl[m]) /\ From(fl[m]))
    OBVIOUS
  <2>a. \A m \in 1..n : m \notin Wrong => IsList(fl[m]) /\ From(fl[m])
    OBVIOUS
  <2> HIDE DEF Wrong
  <2>1. SUFFICES ASSUME Wrong # {} PROVE FALSE
    BY <2>a
  <2>2. PICK m \in Wrong : \A k \in Wrong : m <= k
    BY <2>0, <2>1, SmallestNumber
  <2>3. m \in 1..n /\ m \in DOMAIN ss
    BY <1>1, <2>0
  <2>4. CASE m = 1
    <3>1. fl[m] = ss[m]
      BY <1>5, <2>3, <2>4
    <3> QED BY <2>0, <2>3, <3>1
  <2>5. CASE m # 1
    <3>1. m - 1 \in 1..n /\ m - 1 \notin Wrong
      BY <1>1, <2>0, <2>2, <2>3, <2>5
    <3>2. IsList(fl[m - 1]) /\ From(fl[m - 1])
      BY <2>a, <3>1
    <3>3. fl[m] = fl[m - 1] \o ss[m]
      BY <1>5, <2>3, <2>5
    <3>4. IsList(ss[m])
      BY <2>3
    <3>5. IsList(fl[m])
      BY <3>2, <3>3, <3>4, ConcatIsList
    <3>6. From(fl[m])
      <4> DEFINE a == fl[m - 1]
                 b == ss[m]
      <4>1. IsList(a) /\ IsList(b) /\ From(a)
        BY <3>2, <3>4
      <4>2. \A j \in DOMAIN b : \E i \in DOMAIN ss : \E k \in DOMAIN ss[i] : b[j] = ss[i][k]
        BY <2>3
      <4>0. fl[m] = a \o b
        BY <3>3
      <4> HIDE DEF a, b, From
      <4>3. \A j \in DOMAIN (a \o b) : (\E k \in DOMAIN a : (a \o b)[j] = a[k]) \/ (\E k \in DOMAIN b : (a \o b)[j] = b[k])
        BY <4>1, ConcatIsList
      <4>4. From(a \o b)
        BY <4>1, <4>2, <4>3 DEF From
      <4> QED BY <4>0, <4>4
    <3> QED BY <2>0, <3>5, <3>6
  <2> QED BY <2>4, <2>5
<1>7. CASE n = 0
  <2>1. FlattenSeq(ss) = ss
    BY <1>7 DEF FlattenSeq, n
  <2> QED BY <1>1, <1>7, <2>1
<1>8. CASE n # 0
  <2>1. FlattenSeq(ss) = fl[n]
    BY <1>8 DEF FlattenSeq, fl, n
  <2> QED BY <1>1, <1>6, <1>8, <2>1
<1> QED BY <1>7, <1>8

-----------------------------------------------------------------------------
(* What the build keeps: the inductive invariant BuildInv.  What OldStylesClean promises of an APK *)
(* depends on every table that is made on the way to it: an attribute of L stays found under the   *)
(* name its slot in a bag has, so that modifyForCompat finds it when it removes the attributes of  *)
(* L from the bags for older platforms, and nothing adds one to a bag afterwards.                  *)

\* The ids of the attributes of L.
LIds(inc) == {inc[r].id : r \in {x \in DOMAIN inc : x[2] = "attr" /\ inc[x].public /\ inc[x].fromL}}
Means(inc, ref, id) == ref \in DOMAIN inc /\ inc[ref].public /\ inc[ref].id = id

\* A slot of a bag with the id of an attribute of L has its name, and its name leads to the id.
KeyOk(inc, b, id) == id \in LIds(inc) => Internal(id) \/ (b[1] # "^" /\ Means(inc, <<b[1], "attr", b[2]>>, id))
SlotOk(inc, b, x) == DOMAIN x = {"value", "isId", "format", "keyId"} /\ Len(b) = 2 /\ KeyOk(inc, b, x.keyId)
EntryOk(inc, e) ==
    /\ DOMAIN e = {"kind", "item", "format", "bag", "parent", "parentId"}
    /\ IsRef(e.parent) /\ IsFiniteSet(DOMAIN e.bag)
    /\ \A b \in DOMAIN e.bag : SlotOk(inc, b, e.bag[b])
\* The attributes of L are of a package that is not built, and ids of attributes.
IncludedOk(inc, own) ==
    \A r \in {x \in DOMAIN inc : x[2] = "attr" /\ inc[x].public /\ inc[x].fromL} :
        /\ inc[r].id # NoId /\ inc[r].id[1] # own
        /\ \A s \in DOMAIN inc : inc[s].id = inc[r].id => s[2] = "attr"
\* The cache answers with the id of an attribute of L where the included tables do.
CachedOk(inc, x) ==
    x.id \in LIds(inc) => LET ref == <<x.key[1], x.key[2], x.key[3]>>
                          IN  ref \in DOMAIN inc /\ inc[ref].id = x.id /\ (x.key[4] => inc[ref].public)
ReadOk(f) == FileOk(f) /\ {"config", "type"} \subseteq DOMAIN f /\ "sdk" \in DOMAIN f.config
WorkOk(f) == EventsOk(f.events) /\ {"events", "config"} \subseteq DOMAIN f /\ "sdk" \in DOMAIN f.config

TableFields == {"types", "order", "index", "entryIndex", "entries", "pub", "pubType", "isPublic", "canAdd",
                "numLocal", "cache", "work", "opt", "ok", "errors"}
TableOk(t) ==
    /\ DOMAIN t = TableFields
    /\ IsList(t.types) /\ \A x \in DOMAIN t.order : IsList(t.order[x])
    /\ IsFiniteSet(DOMAIN t.pubType) /\ \A x \in DOMAIN t.pubType : t.pubType[x] \in Nat
    /\ IsFiniteSet(DOMAIN t.entries)
    /\ \A k \in DOMAIN t.entries : "sdk" \in DOMAIN k[3] /\ EntryOk(t.opt.included, t.entries[k])
    /\ \A s \in DOMAIN t.cache : CachedOk(t.opt.included, t.cache[s])
    /\ IsList(t.work) /\ \A i \in DOMAIN t.work : WorkOk(t.work[i])
    /\ {"included", "minSdk", "packageId"} \subseteq DOMAIN t.opt
    /\ t.opt.packageId \in PackageIds
    /\ IncludedOk(t.opt.included, t.opt.packageId)

\* No bag of an entry, and none of an APK, for platforms before L has an attribute of L.
OldBagClean(inc, k, e) ==
    e.kind = "bag" /\ k[3].sdk < SDK_L => \A b \in DOMAIN e.bag : Internal(e.bag[b].keyId) \/ e.bag[b].keyId \notin LIds(inc)
Clean(t) == IsMinSdkVersionLOrAbove(t) \/ \A k \in DOMAIN t.entries : OldBagClean(t.opt.included, k, t.entries[k])
ApkClean(inc, apk) ==
    /\ "table" \in DOMAIN apk
    /\ \A c \in apk.table.chunks : c.config.sdk < SDK_L =>
        \A n \in DOMAIN c.entries : "map" \in DOMAIN c.entries[n] =>
            \A id \in DOMAIN c.entries[n].map : Internal(id) \/ id \notin LIds(inc)
ApksClean(apks) == IsMinSdkVersionLOrAbove(table) \/ \A i \in DOMAIN apks : ApkClean(table.opt.included, apks[i])

\* The sources, and what is left on disk for other builds.
GroupOk(g) == DOMAIN g \subseteq ToSet(ConfigOrder) /\ \A c \in DOMAIN g : ReadOk(g[c])
ResOk(m) ==
    /\ IsFiniteSet(DOMAIN m)
    /\ \A k \in DOMAIN m : k = <<k[1], k[2]>> /\ k[2] \in ToSet(LeafOrder) /\ GroupOk(m[k])
AssetsOk == IsList(assets) /\ assets # << >> /\ \A i \in DOMAIN assets : ResOk(assets[i].groups)
PublishedOk == \A p \in DOMAIN published : \A x \in DOMAIN published[p].exported :
                  ~published[p].exported[x].fromL /\ published[p].exported[x].id[1] \in PackageIds

\* The places of a build at which there is a table.
HasTable == {"files", "values", "late", "xml", "flatten", "validate", "symbols", "apk", "done"}
\* All of it, where the build is.
BuildInv ==
    /\ pc # "idle" => prj \in UNION ToSet(Plan)
    /\ PublishedOk
    /\ pc \in {"package", "files", "values"} => AssetsOk
    /\ pc \in HasTable => TableOk(table) /\ ResOk(resources)
    /\ pc = "values" => IsList(todo) /\ \A i \in DOMAIN todo : ReadOk(todo[i][2])
    /\ pc = "xml" => IsList(todo) /\ \A i \in DOMAIN todo : ReadOk(todo[i])
    /\ pc \in {"flatten", "validate", "symbols", "apk", "done"} => Clean(table)
    /\ pc \in {"validate", "symbols", "apk"} => ApksClean(out.apks)
    /\ pc = "done" /\ prj.opt.output => ApksClean(published[prj.package].apks)

-----------------------------------------------------------------------------
(* The directories are read: the groups are of configurations in ConfigOrder. *)

AssetFields == {"raw", "groups", "resDirs", "groupEntries", "ok", "errors"}
Tidy(a) == DOMAIN a = AssetFields /\ ResOk(a.groups)

LEMMA NewIsTidy == Tidy(NewAssets)
<1>1. DOMAIN NewAssets = AssetFields /\ NewAssets.groups = << >>
  BY DEF NewAssets, AssetFields
<1>2. ResOk(NewAssets.groups)
  BY <1>1, EmptyIsList, FS_EmptySet DEF ResOk
<1> QED BY <1>1, <1>2 DEF Tidy

LEMMA SetResOk ==
  ASSUME NEW m, ResOk(m), NEW k, k = <<k[1], k[2]>>, k[2] \in ToSet(LeafOrder), NEW g, GroupOk(g)
  PROVE  ResOk(Set(m, k, g))
<1>1. IsFiniteSet(DOMAIN Set(m, k, g))
  BY FS_AddElement DEF ResOk, Set
<1>2. \A x \in DOMAIN Set(m, k, g) : /\ x = k \/ x \in DOMAIN m
                                     /\ Set(m, k, g)[x] = IF x = k THEN g ELSE m[x]
  BY DEF Set
<1> QED BY <1>1, <1>2 DEF ResOk

LEMMA AddFileTidy ==
  ASSUME NEW a, Tidy(a), NEW key, key = <<key[1], key[2]>>, key[2] \in ToSet(LeafOrder),
         NEW config \in ToSet(ConfigOrder), NEW file, ReadOk(file), NEW overwrite
  PROVE  Tidy(AddFile(a, key, config, file, overwrite))
<1> DEFINE group == IF key \in DOMAIN a.groups THEN a.groups[key] ELSE << >>
           new == Set(group, config, file)
<1>1. GroupOk(group)
  BY EmptyIsList DEF Tidy, ResOk, GroupOk
<1>2. GroupOk(new)
  BY <1>1 DEF Set, GroupOk
<1> HIDE DEF new
<1> DEFINE groups == Set(a.groups, key, new)
<1>3. ResOk(groups)
  BY <1>2, SetResOk DEF Tidy
<1> HIDE DEF groups
<1>4. \/ AddFile(a, key, config, file, overwrite) = [a EXCEPT !.ok = FALSE, !.errors = TRUE]
      \/ AddFile(a, key, config, file, overwrite) = [a EXCEPT !.groups = groups]
  BY DEF AddFile, groups, new
<1> QED BY <1>3, <1>4 DEF Tidy, AssetFields

\* A file with what its directory says.
LEMMA FileIsRead ==
  ASSUME NEW f, FileOk(f), "config" \notin DOMAIN f, NEW config \in ToSet(ConfigOrder), NEW type
  PROVE  ReadOk(Over(f, [config |-> config, type |-> type]))
<1> DEFINE g == [config |-> config, type |-> type]
           o == Over(f, g)
<1>1. DOMAIN g = {"config", "type"} /\ g.config = config
  OBVIOUS
<1> HIDE DEF g
<1>2. /\ DOMAIN o = DOMAIN f \cup {"config", "type"}
      /\ o.config = config /\ \A x \in DOMAIN f : o[x] = f[x]
  BY <1>1 DEF Over
<1> HIDE DEF o
<1>3. "sdk" \in DOMAIN config
  BY SourcesAssumption DEF ToSet
<1>4. o.leaf = f.leaf /\ o.tags = f.tags /\ o.events = f.events
  BY <1>2 DEF FileOk
<1> QED BY <1>2, <1>3, <1>4 DEF ReadOk, FileOk, o, g

FileOp(patterns, d, config, a, f) == SlurpFile(a, patterns, d, config, f)
FileGood(patterns, d, config, a) == Tidy(a)
File == INSTANCE FoldFacts WITH Op <- FileOp, Good <- FileGood

\* What SourcesOk says of one directory of resources.
DirOk(d) ==
    /\ IsList(d.files)
    /\ \A n \in DOMAIN d.files : FileOk(d.files[n]) /\ "config" \notin DOMAIN d.files[n]
    /\ InitFromDirName(d).ok => InitFromDirName(d).config \in ToSet(ConfigOrder)

LEMMA SlurpFilesTidy ==
  ASSUME NEW a, Tidy(a), NEW patterns, NEW d, DirOk(d), NEW config \in ToSet(ConfigOrder)
  PROVE  Tidy(SlurpFiles(a, patterns, d, config))
<1> DEFINE n == Len(d.files)
           read == FoldLeft(LAMBDA u, f : SlurpFile(u, patterns, d, config, f), a, d.files)
<1>1. n \in Nat /\ DOMAIN d.files = 1..n /\ \A i \in 1..n : FileOk(d.files[i]) /\ "config" \notin DOMAIN d.files[i]
  BY DEF IsList, DirOk
<1>2. read = File!Left(patterns, d, config, a, d.files)
  BY DEF FoldLeft, MapThenFoldSet, FileOp, File!Left, Max
<1>3. \A acc : \A i \in 1..n : FileGood(patterns, d, config, acc) =>
                                 FileGood(patterns, d, config, FileOp(patterns, d, config, acc, d.files[i]))
  <2> SUFFICES ASSUME NEW acc, NEW i \in 1..n, Tidy(acc) PROVE Tidy(SlurpFile(acc, patterns, d, config, d.files[i]))
    BY DEF FileGood, FileOp
  <2> DEFINE f == d.files[i]
             key == <<d.type, f.leaf>>
             file == Over(f, [config |-> config, type |-> d.type])
             no == FALSE
  <2>1. FileOk(f) /\ "config" \notin DOMAIN f
    BY <1>1
  <2>2. f.leaf \in ToSet(LeafOrder)
    BY <2>1 DEF FileOk
  <2> HIDE DEF f
  <2>3. ReadOk(file)
    BY <2>1, FileIsRead
  <2>4. key = <<key[1], key[2]>> /\ key[2] \in ToSet(LeafOrder)
    BY <2>2
  <2>5. SlurpFile(acc, patterns, d, config, f) \in {acc, AddFile(acc, key, config, file, no)}
    BY DEF SlurpFile
  <2> HIDE DEF file, key, no
  <2>6. Tidy(AddFile(acc, key, config, file, no))
    BY <2>3, <2>4, AddFileTidy
  <2> QED BY <2>5, <2>6 DEF f
<1>4. FileGood(patterns, d, config, a)
  BY DEF FileGood
<1>5. FileGood(patterns, d, config, File!Left(patterns, d, config, a, d.files))
  <2> HIDE DEF n
  <2> QED BY <1>1, <1>3, <1>4, File!LeftKeeps, SmallestNumber
<1>6. Tidy(read)
  BY <1>2, <1>5 DEF FileGood
<1> HIDE DEF read
<1>7. \E x, y : SlurpFiles(a, patterns, d, config) = [read EXCEPT !.groupEntries = x, !.resDirs = y]
  BY DEF SlurpFiles, read
<1> QED BY <1>6, <1>7 DEF Tidy, AssetFields

DirOp(patterns, maxResVersion, r, s, d) == SlurpDir(s, patterns, d, InitFromDirName(d), maxResVersion)
DirGood(patterns, maxResVersion, r, s) == DOMAIN s = {"a", "bad"} /\ Tidy(s.a)
Directory == INSTANCE FoldFacts WITH Op <- DirOp, Good <- DirGood

\* What SourcesOk says of one resource tree.
TreeOk(tree) ==
    /\ IsList(tree)
    /\ \A j \in DOMAIN tree : DirOk(tree[j])

LEMMA SlurpTreeTidy ==
  ASSUME NEW a, Tidy(a), NEW patterns, NEW tree, TreeOk(tree), NEW maxResVersion
  PROVE  Tidy(SlurpResourceTree(a, patterns, tree, maxResVersion))
<1> DEFINE n == Len(tree)
           start == [a |-> a, bad |-> FALSE]
           end == FoldLeft(LAMBDA s, d : SlurpDir(s, patterns, d, InitFromDirName(d), maxResVersion), start, tree)
<1>1. n \in Nat /\ DOMAIN tree = 1..n
  BY DEF TreeOk, IsList
<1>2. end = Directory!Left(patterns, maxResVersion, 0, start, tree)
  BY DEF FoldLeft, MapThenFoldSet, DirOp, Directory!Left, Max
<1>3. ASSUME NEW s, NEW i \in 1..n, DirGood(patterns, maxResVersion, 0, s)
      PROVE  DirGood(patterns, maxResVersion, 0, DirOp(patterns, maxResVersion, 0, s, tree[i]))
  <2> DEFINE d == tree[i]
             params == InitFromDirName(d)
             read == SlurpFiles(s.a, patterns, d, params.config)
             next == SlurpDir(s, patterns, d, params, maxResVersion)
  <2>1. DirOk(d) /\ (params.ok => params.config \in ToSet(ConfigOrder))
    BY <1>1 DEF TreeOk, DirOk
  <2>2. DOMAIN s = {"a", "bad"} /\ Tidy(s.a)
    BY <1>3 DEF DirGood
  <2>3. params.ok => Tidy(read)
    <3> HIDE DEF d, params
    <3> QED BY <2>1, <2>2, SlurpFilesTidy
  <2> HIDE DEF d, params
  <2>4. \/ next = s
        \/ next = [s EXCEPT !.bad = TRUE]
        \/ params.ok /\ next = [s EXCEPT !.a = read]
    BY DEF SlurpDir
  <2> HIDE DEF read, next
  <2>5. DirGood(patterns, maxResVersion, 0, next)
    BY <2>2, <2>3, <2>4 DEF DirGood
  <2> QED BY <2>5 DEF DirOp, next, params, d
<1>4. DirGood(patterns, maxResVersion, 0, start)
  BY DEF DirGood
<1>5. DirGood(patterns, maxResVersion, 0, Directory!Left(patterns, maxResVersion, 0, start, tree))
  <2> HIDE DEF n, start
  <2> QED BY <1>1, <1>3, <1>4, Directory!LeftKeeps, SmallestNumber
<1>6. Tidy(end.a)
  BY <1>2, <1>5 DEF DirGood
<1> HIDE DEF end
<1>7. \E x : SlurpResourceTree(a, patterns, tree, maxResVersion) = [end.a EXCEPT !.ok = x]
  BY DEF SlurpResourceTree, ReadToTheEnd, end
<1> QED BY <1>6, <1>7 DEF Tidy, AssetFields

RawOp(patterns, overwrite, r, s, f) ==
    IF ~s.ok \/ ~(\A i \in DOMAIN f[1] : ~IsHidden(patterns, f[1][i], IF i = Len(f[1]) THEN "file" ELSE "dir"))
       \/ f[2] # "file" THEN s
    ELSE IF f[1] \in DOMAIN s.raw /\ ~overwrite THEN [s EXCEPT !.ok = FALSE, !.errors = TRUE]
    ELSE [s EXCEPT !.raw = Set(@, f[1], f[2]), !.groupEntries = @ \cup {DefaultConfig}]
RawGood(patterns, overwrite, r, s) == Tidy(s)
Raw == INSTANCE FoldFacts WITH Op <- RawOp, Good <- RawGood

LEMMA SlurpFullTidy ==
  ASSUME NEW a, Tidy(a), NEW patterns, NEW tree, IsList(tree), NEW overwrite
  PROVE  Tidy(SlurpFullTree(a, patterns, tree, overwrite))
<1> DEFINE n == Len(tree)
<1>1. n \in Nat /\ DOMAIN tree = 1..n
  BY DEF IsList
<1>2. SlurpFullTree(a, patterns, tree, overwrite) = Raw!Left(patterns, overwrite, 0, a, tree)
  BY DEF SlurpFullTree, FoldLeft, MapThenFoldSet, RawOp, Raw!Left, Max
<1>3. ASSUME NEW s, NEW f, Tidy(s) PROVE Tidy(RawOp(patterns, overwrite, 0, s, f))
  <2>1. \/ RawOp(patterns, overwrite, 0, s, f) = s
        \/ RawOp(patterns, overwrite, 0, s, f) = [s EXCEPT !.ok = FALSE, !.errors = TRUE]
        \/ \E x, y : RawOp(patterns, overwrite, 0, s, f) = [s EXCEPT !.raw = x, !.groupEntries = y]
    BY DEF RawOp
  <2> QED BY <1>3, <2>1 DEF Tidy, AssetFields
<1>4. RawGood(patterns, overwrite, 0, a)
  BY DEF RawGood
<1>5. \A acc : \A i \in 1..n : RawGood(patterns, overwrite, 0, acc) =>
                                 RawGood(patterns, overwrite, 0, RawOp(patterns, overwrite, 0, acc, tree[i]))
  BY <1>3 DEF RawGood
<1>6. RawGood(patterns, overwrite, 0, Raw!Left(patterns, overwrite, 0, a, tree))
  <2> HIDE DEF n
  <2> QED BY <1>1, <1>4, <1>5, Raw!LeftKeeps, SmallestNumber
<1> QED BY <1>2, <1>6 DEF RawGood

AssetsOp(patterns, q, r, a, tree) == SlurpFullTree(a, patterns, tree, TRUE)
RawDirsOp(patterns, q, r, a, tree) == IF a.ok THEN SlurpFullTree(a, patterns, tree, FALSE) ELSE a
TreesGood(patterns, q, r, a) == Tidy(a)
AssetDirs == INSTANCE FoldFacts WITH Op <- AssetsOp, Good <- TreesGood
RawDirs == INSTANCE FoldFacts WITH Op <- RawDirsOp, Good <- TreesGood

LEMMA SlurpBaseTidy ==
  ASSUME NEW args, SourcesOk(args), NEW patterns
  PROVE  Tidy(SlurpBase(args, patterns))
<1> DEFINE read == FoldLeft(LAMBDA a, tree : SlurpFullTree(a, patterns, tree, TRUE), NewAssets, args.assets)
           first == IF args.res = << >> THEN read
                    ELSE SlurpResourceTree(read, patterns, args.res[1], args.maxResVersion)
           all == FoldLeft(LAMBDA a, tree : IF a.ok THEN SlurpFullTree(a, patterns, tree, FALSE) ELSE a,
                           first, args.raw)
<1>1. Tidy(read)
  <2> DEFINE n == Len(args.assets)
  <2>1. n \in Nat /\ DOMAIN args.assets = 1..n /\ \A i \in 1..n : IsList(args.assets[i])
    BY DEF SourcesOk, AreTrees, IsList
  <2>2. read = AssetDirs!Left(patterns, 0, 0, NewAssets, args.assets)
    BY DEF FoldLeft, MapThenFoldSet, AssetsOp, AssetDirs!Left, Max
  <2>3. \A acc : \A i \in 1..n : TreesGood(patterns, 0, 0, acc) =>
                                   TreesGood(patterns, 0, 0, AssetsOp(patterns, 0, 0, acc, args.assets[i]))
    BY <2>1, SlurpFullTidy DEF TreesGood, AssetsOp
  <2>4. TreesGood(patterns, 0, 0, NewAssets)
    BY NewIsTidy DEF TreesGood
  <2>5. TreesGood(patterns, 0, 0, AssetDirs!Left(patterns, 0, 0, NewAssets, args.assets))
    <3> HIDE DEF n
    <3> QED BY <2>1, <2>3, <2>4, AssetDirs!LeftKeeps, SmallestNumber
  <2> QED BY <2>2, <2>5 DEF TreesGood
<1> HIDE DEF read
<1>2. Tidy(first)
  <2>1. CASE args.res = << >>
    BY <1>1, <2>1
  <2>2. CASE args.res # << >>
    <3>1. Len(args.res) \in Nat /\ DOMAIN args.res = 1..Len(args.res)
      BY DEF SourcesOk, AreTrees, IsList
    <3>2. 1 \in DOMAIN args.res => TreeOk(args.res[1])
      BY DEF SourcesOk, AreTrees, TreeOk, DirOk
    <3>3. 1 \in DOMAIN args.res => Tidy(SlurpResourceTree(read, patterns, args.res[1], args.maxResVersion))
      BY <1>1, <3>2, SlurpTreeTidy
    <3>4. 1 \in DOMAIN args.res
      BY <2>2, <3>1
    <3> QED BY <2>2, <3>3, <3>4
  <2> QED BY <2>1, <2>2
<1> HIDE DEF first
<1>3. Tidy(all)
  <2> DEFINE n == Len(args.raw)
  <2>1. n \in Nat /\ DOMAIN args.raw = 1..n /\ \A i \in 1..n : IsList(args.raw[i])
    BY DEF SourcesOk, AreTrees, IsList
  <2>2. all = RawDirs!Left(patterns, 0, 0, first, args.raw)
    BY DEF FoldLeft, MapThenFoldSet, RawDirsOp, RawDirs!Left, Max
  <2>3. \A acc : \A i \in 1..n : TreesGood(patterns, 0, 0, acc) =>
                                   TreesGood(patterns, 0, 0, RawDirsOp(patterns, 0, 0, acc, args.raw[i]))
    BY <2>1, SlurpFullTidy DEF TreesGood, RawDirsOp
  <2>4. TreesGood(patterns, 0, 0, first)
    BY <1>2 DEF TreesGood
  <2>5. TreesGood(patterns, 0, 0, RawDirs!Left(patterns, 0, 0, first, args.raw))
    <3> HIDE DEF n
    <3> QED BY <2>1, <2>3, <2>4, RawDirs!LeftKeeps, SmallestNumber
  <2> QED BY <2>2, <2>5 DEF TreesGood
<1> QED BY <1>3 DEF SlurpBase, first, read

\* The package and its overlays, before the filter.
AllRead(args) ==
    <<SlurpBase(args, Patterns(args.ignore, args.env))>> \o SlurpOverlays(args, Patterns(args.ignore, args.env))

LEMMA AllReadTidy ==
  ASSUME NEW args, SourcesOk(args)
  PROVE  \A i \in DOMAIN AllRead(args) : Tidy(AllRead(args)[i])
<1> DEFINE patterns == Patterns(args.ignore, args.env)
           base == SlurpBase(args, patterns)
           m == IF Len(args.res) = 0 THEN 0 ELSE Len(args.res) - 1
           over == SlurpOverlays(args, patterns)
           Read(i) == SlurpResourceTree(NewAssets, patterns, args.res[i + 1], args.maxResVersion)
<1>1. Len(args.res) \in Nat /\ DOMAIN args.res = 1..Len(args.res)
  BY DEF SourcesOk, AreTrees, IsList
<1>2. over = [i \in 1..m |-> Read(i)] /\ m \in Nat
  <2> HIDE DEF Read
  <2>1. over = [i \in 1..(Len(args.res) - 1) |-> Read(i)]
    BY DEF SlurpOverlays, Read
  <2>2. 1..(Len(args.res) - 1) = 1..m /\ m \in Nat
    BY <1>1
  <2> QED BY <2>1, <2>2
<1>3. \A i \in 1..m : Tidy(Read(i))
  <2> TAKE i \in 1..m
  <2>1. i + 1 \in DOMAIN args.res
    BY <1>1
  <2>2. TreeOk(args.res[i + 1])
    BY <2>1 DEF SourcesOk, AreTrees, TreeOk, DirOk
  <2> QED BY <2>2, NewIsTidy, SlurpTreeTidy
<1>4. Tidy(base)
  BY SlurpBaseTidy
<1> DEFINE T == {a \in {base} \cup {Read(i) : i \in 1..m} : Tidy(a)}
<1>5. base \in T /\ \A i \in 1..m : Read(i) \in T
  BY <1>3, <1>4
<1>6. \A a \in T : Tidy(a)
  OBVIOUS
<1> HIDE DEF T, base, Read, m
<1>7. <<base>> \in Seq(T) /\ over \in Seq(T)
  BY <1>2, <1>5
<1> HIDE DEF over
<1>8. <<base>> \o over \in Seq(T)
  BY <1>7
<1>9. AllRead(args) = <<base>> \o over
  BY DEF AllRead, base, over
<1> QED BY <1>6, <1>8, <1>9

LEMMA ReadForArgs ==
  ASSUME NEW args
  PROVE  /\ DOMAIN SlurpFromArgs(args).assets = DOMAIN AllRead(args)
         /\ \A i \in DOMAIN AllRead(args) :
               SlurpFromArgs(args).assets[i] =
                   Filter(AllRead(args)[i], WeakParse(args.filter).entries, PreferredDensity(args))
<1> DEFINE all == AllRead(args)
<1>1. SlurpFromArgs(args).assets = Slurped(args, WeakParse(args.filter), all).assets
  BY DEF SlurpFromArgs, AllRead
<1> HIDE DEF all
<1>2. Slurped(args, WeakParse(args.filter), all).assets =
        [i \in DOMAIN all |-> Filter(all[i], WeakParse(args.filter).entries, PreferredDensity(args))]
  BY DEF Slurped
<1> QED BY <1>1, <1>2 DEF all

\* What was read does not depend on the density that is preferred.
LEMMA DensityOnlyFilters ==
  ASSUME NEW args, SourcesOk(args)
  PROVE  LET plain == [args EXCEPT !.density = << >>]
         IN  /\ AllRead(plain) = AllRead(args)
             /\ plain.filter = args.filter /\ PreferredDensity(plain) = 0
<1> DEFINE plain == [args EXCEPT !.density = << >>]
<1>1. /\ plain.assets = args.assets /\ plain.res = args.res /\ plain.raw = args.raw
      /\ plain.ignore = args.ignore /\ plain.env = args.env /\ plain.filter = args.filter
      /\ plain.maxResVersion = args.maxResVersion /\ plain.density = << >>
  BY DEF SourcesOk
<1> HIDE DEF plain
<1>2. AllRead(plain) = AllRead(args)
  BY <1>1 DEF AllRead, SlurpBase, SlurpOverlays
<1>3. PreferredDensity(plain) = 0
  BY <1>1 DEF PreferredDensity
<1> QED BY <1>1, <1>2, <1>3 DEF plain

LEMMA PreferredIsNumber ==
  ASSUME NEW args, SourcesOk(args), SlurpFromArgs(args).ok
  PROVE  PreferredDensity(args) \in Nat
<1> DEFINE d == args.density
<1>1. d = << >> \/ Density(d)
  <2>1. \E all : SlurpFromArgs(args).ok = Slurped(args, WeakParse(args.filter), all).ok
    BY DEF SlurpFromArgs
  <2>2. FilterOk(args, WeakParse(args.filter))
    BY <2>1 DEF Slurped
  <2> QED BY <2>2 DEF FilterOk
<1>2. CASE d = << >>
  BY <1>2 DEF PreferredDensity
<1>3. CASE d # << >>
  <2>1. Density(d) /\ d[2] \in Nat
    BY <1>1, <1>3 DEF SourcesOk
  <2> HIDE DEF d
  <2>2. DOMAIN DensityWords = {"anydpi", "nodpi", "ldpi", "mdpi", "tvdpi", "hdpi", "xhdpi", "xxhdpi", "xxxhdpi"}
    BY DEF DensityWords
  <2>3. \A w \in DOMAIN DensityWords : DensityWords[w] \in Nat
    BY DEF DensityWords, AnyDensity
  <2>4. CASE d[1] \in DOMAIN DensityWords
    <3>1. d[1] \notin {"any", "dpi"}
      BY <2>2, <2>4
    <3>2. ValueOf("density", d) = DensityWords[d[1]]
      BY <2>4, <3>1 DEF ValueOf
    <3> QED BY <1>3, <2>3, <2>4, <3>2 DEF PreferredDensity, d
  <2>5. CASE d[1] \notin DOMAIN DensityWords
    <3>1. d[1] = "dpi"
      BY <2>1, <2>5 DEF Density
    <3>2. ValueOf("density", d) = d[2]
      BY <2>5, <3>1 DEF ValueOf
    <3> QED BY <1>3, <2>1, <3>2 DEF PreferredDensity, d
  <2> QED BY <2>4, <2>5
<1> QED BY <1>2, <1>3

-----------------------------------------------------------------------------
(* The build: what it has read when it comes to the package. *)

AssetsRead ==
    /\ pc \in {"slurp", "package"} => prj \in UNION ToSet(Plan)
    /\ pc = "package" => assets = SlurpFromArgs(prj.args).assets /\ SlurpFromArgs(prj.args).ok

LEMMA AssetsReadInit == Init => AssetsRead
BY DEF Init, AssetsRead

LEMMA AssetsReadStep == AssetsRead /\ [Next]_vars => AssetsRead'
<1> SUFFICES ASSUME AssetsRead, [Next]_vars PROVE AssetsRead'
  OBVIOUS
<1>1. CASE UNCHANGED vars
  BY <1>1 DEF AssetsRead, vars
<1>2. ASSUME NEW p \in UNION ToSet(Plan), Start(p) PROVE AssetsRead'
  BY <1>2 DEF AssetsRead, Start
<1>3. CASE Slurp
  <2>1. PICK slurped \in {SlurpFromArgs(prj.args)}, parsed \in {ParsedSplits} :
          LET ok == slurped.ok /\ SplitsOk(parsed)
          IN  \/ ~ok /\ Abort
              \/ /\ ok
                 /\ pc' = "package" /\ assets' = slurped.assets
                 /\ UNCHANGED <<prj, resources, table, out, failed, todo, published, rfiles, built>>
    BY <1>3 DEF Slurp
  <2>2. pc = "slurp"
    BY <1>3 DEF Slurp
  <2>3. slurped = SlurpFromArgs(prj.args)
    OBVIOUS
  <2> QED BY <2>1, <2>2, <2>3 DEF AssetsRead, Abort
<1>4. CASE NewPackage
  BY <1>4 DEF AssetsRead, NewPackage, Abort
<1>5. CASE MakeFiles
  BY <1>5 DEF AssetsRead, MakeFiles
<1>6. CASE ToValues \/ ToLate
  BY <1>6 DEF AssetsRead, ToValues, ToLate
<1>7. CASE CompileValues
  BY <1>7 DEF AssetsRead, CompileValues
<1>8. CASE AssignIds
  BY <1>8 DEF AssetsRead, AssignIds, Abort
<1>9. CASE CompileXml \/ WorkItem
  BY <1>9 DEF AssetsRead, CompileXml, WorkItem
<1>10. CASE Manifest
  BY <1>10 DEF AssetsRead, Manifest, Abort
<1>11. CASE FlattenTables
  BY <1>11 DEF AssetsRead, FlattenTables, Abort
<1>12. CASE ValidateManifest
  BY <1>12 DEF AssetsRead, ValidateManifest, Abort
<1>13. CASE WriteSymbols
  BY <1>13 DEF AssetsRead, WriteSymbols, Abort
<1>14. CASE WriteApks \/ WriteApksFails
  BY <1>14 DEF AssetsRead, WriteApks, WriteApksFails, Abort
<1> QED BY <1>1, <1>2, <1>3, <1>4, <1>5, <1>6, <1>7, <1>8, <1>9, <1>10, <1>11, <1>12, <1>13, <1>14 DEF Next

\* When a build comes to the package, what it has read is what its command line asks for.
THEOREM BuildInvariance == Spec => []AssetsRead
BY AssetsReadInit, AssetsReadStep, PTL DEF Spec

\* With a preferred density, of the variants of a file that differ in their density only the one
\* is kept that a device of that density would have taken, whatever was read, from whichever
\* directories, and whatever the filter took away before: the passes of filter remove one variant
\* after the other from the group they search.
THEOREM BestDensities == Spec => []BestDensityKept
<1>1. ASSUME AssetsRead PROVE BestDensityKept
  <2> DEFINE args == prj.args
             All == SlurpFromArgs([args EXCEPT !.density = << >>]).assets
             preferred == PreferredDensity(args)
             Same(i, k, c) == {d \in DOMAIN All[i].groups[k] : Diff(c, d) \subseteq {"density"}}
  <2> SUFFICES ASSUME pc = "package", preferred # 0,
                      NEW i \in DOMAIN assets, NEW k \in DOMAIN assets[i].groups,
                      NEW c \in DOMAIN All[i].groups[k], c.density # 0
               PROVE  \E d \in DOMAIN assets[i].groups[k] :
                         d \in Same(i, k, c) /\ d.density = BestOf({x.density : x \in Same(i, k, c)}, preferred)
    BY DEF BestDensityKept, BestOf
  <2>1. SourcesOk(args)
    BY <1>1, SourcesAssumption DEF AssetsRead, ToSet, ProjectOk
  <2>2. assets = SlurpFromArgs(args).assets /\ SlurpFromArgs(args).ok
    BY <1>1 DEF AssetsRead
  <2> DEFINE a == AllRead(args)[i]
             entries == WeakParse(args.filter).entries
             plain == [args EXCEPT !.density = << >>]
  <2>3. i \in DOMAIN AllRead(args) /\ assets[i] = Filter(a, entries, preferred)
    BY <2>2, ReadForArgs
  <2>4. All[i] = Filter(a, entries, 0)
    <3>1. /\ AllRead(plain) = AllRead(args) /\ plain.filter = args.filter
          /\ PreferredDensity(plain) = 0
      BY <2>1, DensityOnlyFilters
    <3> HIDE DEF plain, args
    <3>2. SlurpFromArgs(plain).assets[i] = Filter(AllRead(plain)[i], WeakParse(plain.filter).entries, PreferredDensity(plain))
      BY <2>3, <3>1, ReadForArgs
    <3> QED BY <3>1, <3>2 DEF plain
  <2>5. Tidy(a)
    BY <2>1, <2>3, AllReadTidy
  <2>6. preferred \in Nat
    BY <2>1, <2>2, PreferredIsNumber
  <2> HIDE DEF args, a, entries, All, preferred
  <2> DEFINE group == a.groups[k]
  <2>7. /\ k \in DOMAIN a.groups
        /\ assets[i].groups[k] = IF k[1] \in {"values", "mipmap"} THEN group ELSE Pruned(entries, preferred, group)
        /\ All[i].groups[k] = IF k[1] \in {"values", "mipmap"} THEN group ELSE Pruned(entries, 0, group)
    BY <2>3, <2>4, <2>5 DEF Filter, Tidy, AssetFields
  <2>8. DOMAIN group \subseteq ToSet(ConfigOrder)
    BY <2>5, <2>7 DEF Tidy, ResOk, GroupOk
  <2> DEFINE G == DOMAIN All[i].groups[k]
  <2>9. G \subseteq ToSet(ConfigOrder) /\ Unbeaten(G, preferred) \subseteq DOMAIN assets[i].groups[k]
    <3>1. CASE k[1] \in {"values", "mipmap"}
      BY <2>7, <2>8, <3>1 DEF Unbeaten
    <3>2. CASE k[1] \notin {"values", "mipmap"}
      <4> DEFINE first == FirstPass(entries, group)
      <4>1. All[i].groups[k] = first /\ assets[i].groups[k] = SecondPass(preferred, first)
        BY <2>7, <3>2 DEF Pruned
      <4>2. DOMAIN first \subseteq ToSet(ConfigOrder)
        BY <2>8, FirstPassShrinks DEF Part
      <4> HIDE DEF first
      <4> QED BY <2>6, <4>1, <4>2, SecondPassKeeps
    <3> QED BY <3>1, <3>2
  <2>10. \E x \in Unbeaten(G, preferred) :
            x \in Same(i, k, c) /\ x.density = BestOf({d.density : d \in Same(i, k, c)}, preferred)
    BY <2>6, <2>9, BestIsUnbeaten
  <2> QED BY <2>9, <2>10
<1> QED BY <1>1, BuildInvariance, PTL

-----------------------------------------------------------------------------
(* What the operators of ResourceTable keep, early: TableOk; and late, after modifyForCompat,  *)
(* Clean besides.                                                                             *)

\* A table of the options opt; c is "early" or "late".
Tab(c, opt, t) == TableOk(t) /\ t.opt = opt /\ (c = "late" => Clean(t))

\* The fields that TableOk does not look at.
LEMMA SameTab ==
  ASSUME NEW c, NEW opt, NEW t, NEW u, Tab(c, opt, t), DOMAIN u = TableFields,
         u.types = t.types, u.order = t.order, u.pubType = t.pubType, u.entries = t.entries,
         u.cache = t.cache, u.work = t.work, u.opt = t.opt
  PROVE  Tab(c, opt, u)
BY DEF Tab, TableOk, Clean, IsMinSdkVersionLOrAbove

LEMMA FailTab == ASSUME NEW c, NEW opt, NEW t, Tab(c, opt, t) PROVE Tab(c, opt, Fail(t)) /\ Tab(c, opt, Good(t))
<1>1. DOMAIN t = TableFields
  BY DEF Tab, TableOk
<1>2. /\ DOMAIN Fail(t) = TableFields /\ Fail(t).types = t.types /\ Fail(t).order = t.order
      /\ Fail(t).pubType = t.pubType /\ Fail(t).entries = t.entries /\ Fail(t).cache = t.cache
      /\ Fail(t).work = t.work /\ Fail(t).opt = t.opt
  BY <1>1 DEF Fail, TableFields
<1>3. /\ DOMAIN Good(t) = TableFields /\ Good(t).types = t.types /\ Good(t).order = t.order
      /\ Good(t).pubType = t.pubType /\ Good(t).entries = t.entries /\ Good(t).cache = t.cache
      /\ Good(t).work = t.work /\ Good(t).opt = t.opt
  BY <1>1 DEF Good, TableFields
<1>4. Tab(c, opt, Fail(t))
  BY <1>2, SameTab
<1>5. Tab(c, opt, Good(t))
  BY <1>3, SameTab
<1> QED BY <1>4, <1>5

\* A type that is not there yet.
LEMMA GetTypeTab ==
  ASSUME NEW c, NEW opt, NEW t, Tab(c, opt, t), NEW type, NEW setIndex
  PROVE  /\ Tab(c, opt, GetType(t, type, setIndex)) /\ type \in DOMAIN GetType(t, type, setIndex).order
         /\ GetType(t, type, setIndex).entries = t.entries
<1> DEFINE u == GetType(t, type, setIndex)
<1>1. CASE type \in DOMAIN t.order
  BY <1>1 DEF GetType
<1>2. CASE type \notin DOMAIN t.order
  <2>1. DOMAIN t = TableFields /\ IsList(t.types) /\ \A x \in DOMAIN t.order : IsList(t.order[x])
    BY DEF Tab, TableOk
  <2>2. \E index : u = [t EXCEPT !.types = Append(t.types, type), !.order = SetNew(t.order, type, << >>), !.index = index]
    BY <1>2 DEF GetType
  <2>3. /\ DOMAIN u = TableFields /\ u.types = Append(t.types, type) /\ u.order = SetNew(t.order, type, << >>)
        /\ u.pubType = t.pubType /\ u.entries = t.entries /\ u.cache = t.cache
        /\ u.work = t.work /\ u.opt = t.opt
    BY <2>1, <2>2 DEF TableFields
  <2> HIDE DEF u
  <2>4. IsList(u.types)
    BY <2>1, <2>3, AppendIsList
  <2>5. IsList(<< >>)
    BY EmptyIsList
  <2>6. type \in DOMAIN u.order /\ \A x \in DOMAIN u.order : IsList(u.order[x])
    BY <2>1, <2>3, <2>5 DEF SetNew, Set
  <2>7. Tab(c, opt, u)
    BY <2>3, <2>4, <2>6 DEF Tab, TableOk, Clean, IsMinSdkVersionLOrAbove
  <2> QED BY <2>3, <2>6, <2>7 DEF u
<1> QED BY <1>1, <1>2

LEMMA BlankOk == \A inc : EntryOk(inc, BlankEntry)
<1>1. DOMAIN << >> = {}
  OBVIOUS
<1>2. IsFiniteSet({})
  BY FS_EmptySet
<1> QED BY <1>1, <1>2 DEF EntryOk, BlankEntry, IsRef, NoRef

\* Other entries.
LEMMA EntriesTab ==
  ASSUME NEW c, NEW opt, NEW t, NEW u, Tab(c, opt, t), DOMAIN u = TableFields,
         u.types = t.types, \A x \in DOMAIN u.order : IsList(u.order[x]), u.pubType = t.pubType,
         u.cache = t.cache, u.work = t.work, u.opt = t.opt,
         IsFiniteSet(DOMAIN u.entries),
         \A k \in DOMAIN u.entries : "sdk" \in DOMAIN k[3] /\ EntryOk(t.opt.included, u.entries[k]),
         c = "late" => \A k \in DOMAIN u.entries : \/ k \in DOMAIN t.entries /\ u.entries[k] = t.entries[k]
                                          \/ u.entries[k].kind # "bag"
  PROVE  Tab(c, opt, u)
<1>1. TableOk(u) /\ u.opt = opt
  BY DEF Tab, TableOk
<1>2. c = "late" => Clean(u)
  BY DEF Tab, Clean, IsMinSdkVersionLOrAbove, OldBagClean
<1> QED BY <1>1, <1>2 DEF Tab

LEMMA EntryInTab ==
  ASSUME NEW c, NEW opt, NEW t, Tab(c, opt, t), NEW type, type \in DOMAIN t.order, NEW name,
         NEW config, "sdk" \in DOMAIN config, NEW overlay, NEW setIndex
  PROVE  Tab(c, opt, EntryIn(t, type, name, config, overlay, setIndex))
<1> DEFINE u == EntryIn(t, type, name, config, overlay, setIndex)
           new == ~HasList(t, type, name)
           key == <<type, name, config>>
           order == IF new THEN [t.order EXCEPT ![type] = Append(t.order[type], name)] ELSE t.order
           entries == SetNew(t.entries, key, BlankEntry)
           index1 == IF new THEN SetNew(t.entryIndex, <<type, name>>, IF setIndex THEN Len(t.order[type]) ELSE -1)
                     ELSE t.entryIndex
<1>1. /\ DOMAIN t = TableFields /\ \A x \in DOMAIN t.order : IsList(t.order[x])
      /\ IsFiniteSet(DOMAIN t.entries)
      /\ \A k \in DOMAIN t.entries : "sdk" \in DOMAIN k[3] /\ EntryOk(t.opt.included, t.entries[k])
  BY DEF Tab, TableOk
<1>2. \/ u = Fail(t)
      \/ \E index : u = [t EXCEPT !.ok = TRUE, !.order = order, !.entryIndex = index, !.entries = entries]
  <2> DEFINE refused == new /\ overlay /\ ~t.opt.autoAddOverlay /\ <<type, name>> \notin t.canAdd
             added == [t EXCEPT !.ok = TRUE, !.order = order, !.entryIndex = index1, !.entries = entries]
  <2>1. u = IF refused THEN Fail(t) ELSE added
    BY DEF EntryIn
  <2> HIDE DEF refused, u, order, index1, entries
  <2>2. u = Fail(t) \/ u = added
    BY <2>1
  <2> QED BY <2>2
<1>3. CASE u = Fail(t)
  BY <1>3, FailTab
<1>4. ASSUME NEW index, u = [t EXCEPT !.ok = TRUE, !.order = order, !.entryIndex = index, !.entries = entries]
      PROVE  Tab(c, opt, u)
  <2>1. \A x \in DOMAIN order : IsList(order[x])
    BY <1>1, AppendIsList
  <2>2. IsFiniteSet(DOMAIN entries)
    BY <1>1, FS_AddElement DEF SetNew, Set
  <2>3. key[3] = config
    OBVIOUS
  <2> HIDE DEF key
  <2>4. \A k \in DOMAIN entries : /\ k = key \/ k \in DOMAIN t.entries
                                  /\ entries[k] = IF k \in DOMAIN t.entries THEN t.entries[k] ELSE BlankEntry
    BY DEF SetNew, Set
  <2>5. \A k \in DOMAIN entries : "sdk" \in DOMAIN k[3] /\ EntryOk(t.opt.included, entries[k])
    BY <1>1, <2>3, <2>4, BlankOk
  <2>6. BlankEntry.kind # "bag"
    BY DEF BlankEntry
  <2> HIDE DEF order, entries
  <2>7. /\ DOMAIN u = TableFields /\ u.types = t.types /\ u.order = order
        /\ u.pubType = t.pubType /\ u.entries = entries /\ u.cache = t.cache
        /\ u.work = t.work /\ u.opt = t.opt
    BY <1>1, <1>4 DEF TableFields
  <2> HIDE DEF u
  <2> QED BY <2>1, <2>2, <2>4, <2>5, <2>6, <2>7, EntriesTab
<1> QED BY <1>2, <1>3, <1>4

LEMMA GetEntryTab ==
  ASSUME NEW c, NEW opt, NEW t, Tab(c, opt, t), NEW type, NEW name,
         NEW config, "sdk" \in DOMAIN config, NEW overlay, NEW setIndex
  PROVE  Tab(c, opt, GetEntry(t, type, name, config, overlay, setIndex))
BY GetTypeTab, EntryInTab DEF GetEntry

\* An entry in the place of another.
LEMMA ReplaceTab ==
  ASSUME NEW c, NEW opt, NEW t, Tab(c, opt, t), NEW key, NEW e, NEW u,
         key \in DOMAIN t.entries => EntryOk(t.opt.included, e) /\ (c = "late" => e.kind # "bag"),
         DOMAIN u = TableFields, u.entries = [t.entries EXCEPT ![key] = e],
         u.types = t.types, u.order = t.order, u.pubType = t.pubType,
         u.cache = t.cache, u.work = t.work, u.opt = t.opt
  PROVE  Tab(c, opt, u)
<1>1. /\ \A x \in DOMAIN t.order : IsList(t.order[x])
      /\ IsFiniteSet(DOMAIN t.entries)
      /\ \A k \in DOMAIN t.entries : "sdk" \in DOMAIN k[3] /\ EntryOk(t.opt.included, t.entries[k])
  BY DEF Tab, TableOk
<1>2. DOMAIN u.entries = DOMAIN t.entries
  OBVIOUS
<1>3. \A k \in DOMAIN t.entries : u.entries[k] = IF k = key THEN e ELSE t.entries[k]
  OBVIOUS
<1> QED BY <1>1, <1>2, <1>3, EntriesTab

LEMMA SetItemTab ==
  ASSUME NEW c, NEW opt, NEW t, Tab(c, opt, t), NEW key, NEW value, NEW format, NEW overwrite
  PROVE  Tab(c, opt, SetItem(t, key, value, format, overwrite))
<1> DEFINE e == t.entries[key]
           f == [e EXCEPT !.kind = "item", !.item = value, !.format = format]
           u == [t EXCEPT !.ok = TRUE, !.entries = [t.entries EXCEPT ![key] = f]]
<1>1. SetItem(t, key, value, format, overwrite) \in {Fail(t), u}
  BY DEF SetItem
<1>2. DOMAIN t = TableFields /\ (key \in DOMAIN t.entries => EntryOk(t.opt.included, e))
  BY DEF Tab, TableOk
<1>3. key \in DOMAIN t.entries => EntryOk(t.opt.included, f) /\ f.kind = "item"
  BY <1>2 DEF EntryOk
<1>4. /\ DOMAIN u = TableFields /\ u.types = t.types /\ u.order = t.order
      /\ u.pubType = t.pubType /\ u.entries = [t.entries EXCEPT ![key] = f] /\ u.cache = t.cache
      /\ u.work = t.work /\ u.opt = t.opt
  BY <1>2 DEF TableFields
<1>5. Tab(c, opt, u)
  <2> HIDE DEF u, f
  <2> QED BY <1>3, <1>4, ReplaceTab
<1> QED BY <1>1, <1>5, FailTab
LEMMA AddEntryTab ==
  ASSUME NEW c, NEW opt, NEW t, Tab(c, opt, t), NEW type, NEW name, NEW value,
         NEW config, "sdk" \in DOMAIN config, NEW format, NEW overwrite, NEW setIndex
  PROVE  Tab(c, opt, AddEntry(t, type, name, value, config, format, overwrite, setIndex))
<1> DEFINE g == GetEntry(t, type, name, config, overwrite, setIndex)
           i == SetItem(g, <<type, name, config>>, value, format, overwrite)
<1>1. Tab(c, opt, g)
  BY GetEntryTab
<1>2. Tab(c, opt, i)
  <2> HIDE DEF g
  <2> QED BY <1>1, SetItemTab
<1>3. Tab(c, opt, Counted(i))
  <2> HIDE DEF i
  <2>1. DOMAIN i = TableFields
    BY <1>2 DEF Tab, TableOk
  <2>2. /\ DOMAIN Counted(i) = TableFields /\ Counted(i).types = i.types /\ Counted(i).order = i.order
        /\ Counted(i).pubType = i.pubType /\ Counted(i).entries = i.entries /\ Counted(i).cache = i.cache
        /\ Counted(i).work = i.work /\ Counted(i).opt = i.opt
    BY <2>1 DEF Counted, TableFields
  <2> QED BY <1>2, <2>2, SameTab
<1>4. AddEntry(t, type, name, value, config, format, overwrite, setIndex) \in {Fail(t), g, Counted(i)}
  BY DEF AddEntry, Then
<1> QED BY <1>1, <1>3, <1>4, FailTab

LEMMA MakeItABagTab ==
  ASSUME NEW opt, NEW t, Tab("early", opt, t), NEW key
  PROVE  Tab("early", opt, MakeItABag(t, key))
<1> DEFINE e == t.entries[key]
           f == [e EXCEPT !.kind = "bag"]
           u == [t EXCEPT !.ok = TRUE, !.entries = [t.entries EXCEPT ![key] = f]]
<1>1. MakeItABag(t, key) \in {Fail(t), u}
  BY DEF MakeItABag
<1>2. DOMAIN t = TableFields /\ (key \in DOMAIN t.entries => EntryOk(t.opt.included, e))
  BY DEF Tab, TableOk
<1>3. key \in DOMAIN t.entries => EntryOk(t.opt.included, f)
  BY <1>2 DEF EntryOk
<1>4. /\ DOMAIN u = TableFields /\ u.types = t.types /\ u.order = t.order
      /\ u.pubType = t.pubType /\ u.entries = [t.entries EXCEPT ![key] = f] /\ u.cache = t.cache
      /\ u.work = t.work /\ u.opt = t.opt
  BY <1>2 DEF TableFields
<1>5. Tab("early", opt, u)
  <2> HIDE DEF u, f
  <2> QED BY <1>3, <1>4, ReplaceTab
<1> QED BY <1>1, <1>5, FailTab

LEMMA SetParentTab ==
  ASSUME NEW opt, NEW t, Tab("early", opt, t), NEW key, NEW parent, IsRef(parent)
  PROVE  Tab("early", opt, SetParent(t, key, parent))
<1> DEFINE e == t.entries[key]
           f == [e EXCEPT !.parent = parent]
           u == [t EXCEPT !.entries = [t.entries EXCEPT ![key] = f]]
<1>1. SetParent(t, key, parent) \in {t, u}
  BY DEF SetParent
<1>2. DOMAIN t = TableFields /\ (key \in DOMAIN t.entries => EntryOk(t.opt.included, e))
  BY DEF Tab, TableOk
<1>3. key \in DOMAIN t.entries => EntryOk(t.opt.included, f)
  BY <1>2 DEF EntryOk
<1>4. /\ DOMAIN u = TableFields /\ u.types = t.types /\ u.order = t.order
      /\ u.pubType = t.pubType /\ u.entries = [t.entries EXCEPT ![key] = f] /\ u.cache = t.cache
      /\ u.work = t.work /\ u.opt = t.opt
  BY <1>2 DEF TableFields
<1>5. Tab("early", opt, u)
  <2> HIDE DEF u, f
  <2> QED BY <1>3, <1>4, ReplaceTab
<1> QED BY <1>1, <1>5

LEMMA BagEntryTab ==
  ASSUME NEW opt, NEW t, Tab("early", opt, t), NEW type, NEW name, NEW config, "sdk" \in DOMAIN config,
         NEW parent, IsRef(parent), NEW overlay
  PROVE  Tab("early", opt, BagEntry(t, <<type, name, config>>, parent, overlay))
<1> DEFINE key == <<type, name, config>>
           g == GetEntry(t, key[1], key[2], key[3], overlay, FALSE)
<1>1. key[3] = config
  OBVIOUS
<1>2. Tab("early", opt, g)
  <2> HIDE DEF key
  <2> QED BY <1>1, GetEntryTab
<1> HIDE DEF key
<1>3. Tab("early", opt, MakeItABag(SetParent(g, key, parent), key))
  <2> HIDE DEF g
  <2> QED BY <1>2, SetParentTab, MakeItABagTab
<1>4. BagEntry(t, key, parent, overlay) \in {g, MakeItABag(SetParent(g, key, parent), key)}
  BY DEF BagEntry, Then
<1> QED BY <1>2, <1>3, <1>4 DEF key

\* Another bag of an entry.
LEMMA BagTab ==
  ASSUME NEW opt, NEW t, Tab("early", opt, t), NEW key, NEW bag,
         key \in DOMAIN t.entries => /\ IsFiniteSet(DOMAIN bag)
                                     /\ \A b \in DOMAIN bag : SlotOk(t.opt.included, b, bag[b]),
         NEW u, DOMAIN u = TableFields,
         u.entries = [t.entries EXCEPT ![key] = [t.entries[key] EXCEPT !.bag = bag]],
         u.types = t.types, u.order = t.order, u.pubType = t.pubType,
         u.cache = t.cache, u.work = t.work, u.opt = t.opt
  PROVE  Tab("early", opt, u)
<1> DEFINE e == t.entries[key]
           f == [e EXCEPT !.bag = bag]
<1>1. key \in DOMAIN t.entries => EntryOk(t.opt.included, e)
  BY DEF Tab, TableOk
<1>2. key \in DOMAIN t.entries => EntryOk(t.opt.included, f)
  BY <1>1 DEF EntryOk
<1> HIDE DEF f
<1>3. u.entries = [t.entries EXCEPT ![key] = f]
  BY DEF f
<1> QED BY <1>2, <1>3, ReplaceTab

LEMMA StartBagTab ==
  ASSUME NEW opt, NEW t, Tab("early", opt, t), NEW type, NEW name, NEW parent, IsRef(parent),
         NEW config, "sdk" \in DOMAIN config, NEW overlay, NEW replace
  PROVE  Tab("early", opt, StartBag(t, type, name, parent, config, overlay, replace))
<1> DEFINE key == <<type, name, config>>
           g == BagEntry(t, key, parent, overlay)
           h == [g EXCEPT !.entries = [g.entries EXCEPT ![key] = [g.entries[key] EXCEPT !.bag = << >>]]]
<1>1. Tab("early", opt, g)
  BY BagEntryTab
<1>2. StartBag(t, type, name, parent, config, overlay, replace) \in {Fail(t), g, h}
  BY DEF StartBag, Then
<1> HIDE DEF g, key
<1>3. DOMAIN g = TableFields
  BY <1>1 DEF Tab, TableOk
<1>4. /\ DOMAIN h = TableFields /\ h.types = g.types /\ h.order = g.order
      /\ h.entries = [g.entries EXCEPT ![key] = [g.entries[key] EXCEPT !.bag = << >>]]
      /\ h.pubType = g.pubType /\ h.cache = g.cache /\ h.work = g.work /\ h.opt = g.opt
  BY <1>3 DEF TableFields
<1>5. IsFiniteSet(DOMAIN << >>) /\ DOMAIN << >> = {}
  BY EmptyIsList, FS_EmptySet
<1>6. Tab("early", opt, h)
  <2> DEFINE empty == << >>
  <2>1. IsFiniteSet(DOMAIN empty) /\ \A b \in DOMAIN empty : SlotOk(g.opt.included, b, empty[b])
    BY <1>5
  <2>2. /\ DOMAIN h = TableFields /\ h.types = g.types /\ h.order = g.order
        /\ h.entries = [g.entries EXCEPT ![key] = [g.entries[key] EXCEPT !.bag = empty]]
        /\ h.pubType = g.pubType /\ h.cache = g.cache /\ h.work = g.work /\ h.opt = g.opt
    BY <1>4
  <2> HIDE DEF h, empty
  <2>3. key \in DOMAIN g.entries => IsFiniteSet(DOMAIN empty) /\ \A b \in DOMAIN empty : SlotOk(g.opt.included, b, empty[b])
    BY <2>1
  <2> QED BY <1>1, <2>2, <2>3, BagTab
<1> QED BY <1>1, <1>2, <1>6, FailTab

\* An attribute of L has an id that nothing is made with, and only attributes of included packages
\* have it.
LEMMA LIdsForeign ==
  ASSUME NEW inc, NEW own, IncludedOk(inc, own)
  PROVE  /\ NoId \notin LIds(inc)
         /\ \A id \in LIds(inc) : id[1] # own
         /\ \A id \in LIds(inc) : \A s \in DOMAIN inc : inc[s].id = id => s[2] = "attr"
BY DEF IncludedOk, LIds

LEMMA AddToBagTab ==
  ASSUME NEW opt, NEW t, Tab("early", opt, t), NEW key, NEW bagKey, Len(bagKey) = 2,
         NEW value, NEW isId, NEW format, NEW replace
  PROVE  Tab("early", opt, AddToBag(t, key, bagKey, [value |-> value, isId |-> isId, format |-> format, keyId |-> NoId], replace))
<1> DEFINE item == [value |-> value, isId |-> isId, format |-> format, keyId |-> NoId]
           bag == Set(t.entries[key].bag, bagKey, item)
           n == IF bagKey \in DOMAIN t.entries[key].bag THEN t.numLocal ELSE t.numLocal + 1
           u == [t EXCEPT !.entries = [t.entries EXCEPT ![key].bag = bag], !.numLocal = n]
<1>1. AddToBag(t, key, bagKey, item, replace) \in {Fail(t), u}
  BY DEF AddToBag
<1>2. /\ DOMAIN t = TableFields /\ (key \in DOMAIN t.entries => EntryOk(t.opt.included, t.entries[key]))
      /\ IncludedOk(t.opt.included, t.opt.packageId)
  BY DEF Tab, TableOk
<1>3. SlotOk(t.opt.included, bagKey, item)
  BY <1>2, LIdsForeign DEF SlotOk, KeyOk
<1> HIDE DEF item
<1>4. key \in DOMAIN t.entries => /\ IsFiniteSet(DOMAIN bag)
                                  /\ \A b \in DOMAIN bag : SlotOk(t.opt.included, b, bag[b])
  <2>1. key \in DOMAIN t.entries => IsFiniteSet(DOMAIN bag)
    BY <1>2, FS_AddElement DEF EntryOk, Set
  <2>2. key \in DOMAIN t.entries => \A b \in DOMAIN bag : SlotOk(t.opt.included, b, bag[b])
    BY <1>2, <1>3 DEF EntryOk, Set
  <2> QED BY <2>1, <2>2
<1> HIDE DEF bag
<1>5. /\ DOMAIN u = TableFields /\ u.types = t.types /\ u.order = t.order
      /\ u.entries = [t.entries EXCEPT ![key] = [t.entries[key] EXCEPT !.bag = bag]]
      /\ u.pubType = t.pubType /\ u.cache = t.cache /\ u.work = t.work /\ u.opt = t.opt
  BY <1>2 DEF TableFields
<1> HIDE DEF u
<1>6. Tab("early", opt, u)
  <2>1. key \in DOMAIN t.entries => IsFiniteSet(DOMAIN bag) /\ \A b \in DOMAIN bag : SlotOk(t.opt.included, b, bag[b])
    BY <1>4
  <2> HIDE DEF n
  <2> QED BY <1>5, <2>1, BagTab
<1> QED BY <1>1, <1>6, FailTab DEF item

LEMMA AddBagTab ==
  ASSUME NEW opt, NEW t, Tab("early", opt, t), NEW type, NEW name, NEW parent, IsRef(parent),
         NEW bagKey, Len(bagKey) = 2, NEW value, NEW config, "sdk" \in DOMAIN config,
         NEW replace, NEW isId, NEW format
  PROVE  Tab("early", opt, AddBag(t, type, name, parent, bagKey, value, config, replace, isId, format))
<1> DEFINE key == <<type, name, config>>
           item == [value |-> value, isId |-> isId, format |-> format, keyId |-> NoId]
           g == BagEntry(t, key, parent, replace)
<1>1. Tab("early", opt, g)
  BY BagEntryTab
<1>2. Tab("early", opt, AddToBag(g, key, bagKey, item, replace))
  <2> HIDE DEF g, key
  <2> QED BY <1>1, AddToBagTab
<1>3. AddBag(t, type, name, parent, bagKey, value, config, replace, isId, format)
        \in {Good(t), g, AddToBag(g, key, bagKey, item, replace)}
  BY DEF AddBag, Then
<1> QED BY <1>1, <1>2, <1>3, FailTab

LEMMA CanAddTab ==
  ASSUME NEW c, NEW opt, NEW t, Tab(c, opt, t), NEW type, NEW name
  PROVE  Tab(c, opt, CanAddEntry(t, type, name))
<1> DEFINE g == GetType(t, type, FALSE)
           u == CanAddEntry(t, type, name)
<1>1. Tab(c, opt, g)
  BY GetTypeTab
<1>2. u = [g EXCEPT !.canAdd = g.canAdd \cup {<<type, name>>}]
  BY DEF CanAddEntry
<1> HIDE DEF g, u
<1>3. DOMAIN g = TableFields
  BY <1>1 DEF Tab, TableOk
<1>4. /\ DOMAIN u = TableFields /\ u.types = g.types /\ u.order = g.order
      /\ u.entries = g.entries /\ u.pubType = g.pubType /\ u.cache = g.cache /\ u.work = g.work /\ u.opt = g.opt
  BY <1>2, <1>3 DEF TableFields
<1> QED BY <1>1, <1>4, SameTab DEF u

LEMMA AddPublicTab ==
  ASSUME NEW c, NEW opt, NEW t, Tab(c, opt, t), NEW type, NEW name, NEW ident, ident[2] \in Nat
  PROVE  Tab(c, opt, AddPublic(t, type, name, ident))
<1> DEFINE g == GetType(t, type, FALSE)
           pub == SetNew(g.pub, <<type, name>>, ident)
           at == SetNew(g.pubType, type, ident[2])
           u == [g EXCEPT !.ok = TRUE, !.pub = pub, !.pubType = at]
<1>1. Tab(c, opt, g)
  BY GetTypeTab
<1>2. AddPublic(t, type, name, ident) \in {Fail(g), u}
  BY DEF AddPublic
<1> HIDE DEF g
<1>3. /\ DOMAIN g = TableFields /\ IsFiniteSet(DOMAIN g.pubType) /\ \A x \in DOMAIN g.pubType : g.pubType[x] \in Nat
  BY <1>1 DEF Tab, TableOk
<1>4. IsFiniteSet(DOMAIN at) /\ \A x \in DOMAIN at : at[x] \in Nat
  <2>1. IsFiniteSet(DOMAIN at)
    BY <1>3, FS_AddElement DEF SetNew, Set
  <2>2. \A x \in DOMAIN at : at[x] \in Nat
    BY <1>3 DEF SetNew, Set
  <2> QED BY <2>1, <2>2
<1> HIDE DEF at, pub
<1>5. /\ DOMAIN u = TableFields /\ u.types = g.types /\ u.order = g.order
      /\ u.entries = g.entries /\ u.pubType = at /\ u.cache = g.cache /\ u.work = g.work /\ u.opt = g.opt
  BY <1>3 DEF TableFields
<1> HIDE DEF u
<1>6. Tab(c, opt, u)
  BY <1>1, <1>4, <1>5 DEF Tab, TableOk, Clean, IsMinSdkVersionLOrAbove
<1> QED BY <1>1, <1>2, <1>6, FailTab

\* What an id of an attribute of L is an id of.
Names1(inc, ref, onlyPublic, id) ==
    id \in LIds(inc) => ref \in DOMAIN inc /\ inc[ref].id = id /\ (onlyPublic => inc[ref].public)

LEMMA ResolveNames ==
  ASSUME NEW c, NEW opt, NEW t, Tab(c, opt, t), NEW ref, NEW onlyPublic
  PROVE  Names1(opt.included, ref, onlyPublic, Resolve(t, ref, onlyPublic))
<1>1. IncludedOk(opt.included, opt.packageId) /\ t.opt = opt
  BY DEF Tab, TableOk
<1> DEFINE id == Resolve(t, ref, onlyPublic)
           own == <<opt.packageId, t.index[ref[2]], t.entryIndex[<<ref[2], ref[3]>>]>>
<1>2. CASE ref \in DOMAIN opt.included
  <2>1. id = IF onlyPublic /\ ~opt.included[ref].public THEN NoId ELSE opt.included[ref].id
    BY <1>1, <1>2 DEF Resolve
  <2> QED BY <1>1, <1>2, <2>1, LIdsForeign DEF Names1
<1>3. CASE ref \notin DOMAIN opt.included
  <2>1. id \in {own, NoId}
    BY <1>1, <1>3 DEF Resolve
  <2>2. own[1] = opt.packageId
    OBVIOUS
  <2> HIDE DEF own, id
  <2>3. id \notin LIds(opt.included)
    BY <1>1, <2>1, <2>2, LIdsForeign
  <2> QED BY <2>3 DEF Names1, id
<1> QED BY <1>2, <1>3

LEMMA CacheTab ==
  ASSUME NEW c, NEW opt, NEW t, Tab(c, opt, t), NEW u, DOMAIN u = TableFields,
         u.types = t.types, u.order = t.order, u.pubType = t.pubType, u.entries = t.entries,
         \A s \in DOMAIN u.cache : CachedOk(t.opt.included, u.cache[s]), u.work = t.work, u.opt = t.opt
  PROVE  Tab(c, opt, u)
BY DEF Tab, TableOk, Clean, IsMinSdkVersionLOrAbove

LEMMA GetResIdTab ==
  ASSUME NEW c, NEW opt, NEW t, Tab(c, opt, t), NEW ref, IsRef(ref), NEW onlyPublic
  PROVE  /\ Tab(c, opt, GetResId(t, ref, onlyPublic).t)
         /\ Names1(opt.included, ref, onlyPublic, GetResId(t, ref, onlyPublic).id)
<1> DEFINE inc == opt.included
           key == ref \o <<onlyPublic>>
           cached == Lookup(t.cache, key)
           slot == HashOf(key)
           id == IF cached.id # NoId THEN cached.id ELSE Resolve(t, ref, onlyPublic)
           cache == IF cached.id # NoId \/ id = NoId THEN cached.cache ELSE Store(cached.cache, key, id)
           u == [t EXCEPT !.cache = cache]
<1>1. /\ DOMAIN t = TableFields /\ t.opt = opt /\ IncludedOk(inc, opt.packageId)
      /\ \A s \in DOMAIN t.cache : CachedOk(inc, t.cache[s])
  BY DEF Tab, TableOk
<1>2. /\ key[4] = onlyPublic /\ <<key[1], key[2], key[3]>> = ref
  <2> DEFINE a == <<ref[1], ref[2], ref[3]>>
             T == {ref[1], ref[2], ref[3], onlyPublic}
  <2>1. ref = a
    BY DEF IsRef
  <2> DEFINE b == <<onlyPublic>>
  <2>2. a \in Seq(T) /\ Len(a) = 3 /\ b \in Seq(T) /\ Len(b) = 1 /\ b[1] = onlyPublic
    OBVIOUS
  <2>5. key = ref \o b
    OBVIOUS
  <2>6. a[1] = ref[1] /\ a[2] = ref[2] /\ a[3] = ref[3]
    OBVIOUS
  <2> HIDE DEF a, T, b, key
  <2>4. \A i \in 1..4 : (a \o b)[i] = IF i <= 3 THEN a[i] ELSE b[i - 3]
    <3>1. \A i \in 1..(Len(a) + Len(b)) : (a \o b)[i] = IF i <= Len(a) THEN a[i] ELSE b[i - Len(a)]
      BY <2>2, ConcatProperties
    <3>2. Len(a) + Len(b) = 4 /\ Len(a) = 3
      BY <2>2
    <3> HIDE <2>2
    <3> QED BY <3>1, <3>2
  <2>3. key[1] = ref[1] /\ key[2] = ref[2] /\ key[3] = ref[3] /\ key[4] = onlyPublic
    <3>1. \A i \in 1..4 : key[i] = IF i <= 3 THEN a[i] ELSE b[i - 3]
      BY <2>1, <2>4, <2>5
    <3>2. key[1] = a[1] /\ key[2] = a[2] /\ key[3] = a[3]
      BY <3>1
    <3>3. key[4] = b[1]
      BY <3>1
    <3> QED BY <2>2, <2>6, <3>2, <3>3
  <2> HIDE DEF key
  <2> QED BY <2>3 DEF IsRef
<1>3. \A s \in DOMAIN cached.cache : CachedOk(inc, cached.cache[s])
  BY <1>1 DEF Lookup
<1>4. Names1(inc, ref, onlyPublic, cached.id)
  <2>1. cached.id = NoId \/ (slot \in DOMAIN t.cache /\ t.cache[slot].key = key /\ cached.id = t.cache[slot].id)
    BY DEF Lookup
  <2> HIDE DEF key, slot, cached, inc
  <2> QED BY <1>1, <1>2, <2>1, LIdsForeign DEF Names1, CachedOk
<1>5. Names1(inc, ref, onlyPublic, id)
  <2> HIDE DEF cached
  <2> QED BY <1>4, ResolveNames
<1> HIDE DEF cached, key, inc, id
<1>6. \A s \in DOMAIN cache : CachedOk(inc, cache[s])
  <2> DEFINE new == [key |-> key, id |-> id]
  <2>1. CachedOk(inc, new)
    BY <1>2, <1>5 DEF Names1, CachedOk
  <2> HIDE DEF new
  <2>2. cache = cached.cache \/ cache = Set(cached.cache, HashOf(key), new)
    BY DEF Store, new
  <2> HIDE DEF cache
  <2> QED BY <1>3, <2>1, <2>2 DEF Set
<1>7. GetResId(t, ref, onlyPublic) = [id |-> id, t |-> u]
  BY DEF GetResId, LookedUp, Resolved, cached, key, id
<1> HIDE DEF cache
<1>8. /\ DOMAIN u = TableFields /\ u.types = t.types /\ u.order = t.order
      /\ u.entries = t.entries /\ u.pubType = t.pubType /\ u.cache = cache /\ u.work = t.work /\ u.opt = t.opt
  BY <1>1 DEF TableFields
<1> HIDE DEF u
<1>9. Tab(c, opt, u)
  BY <1>1, <1>6, <1>8, CacheTab DEF inc
<1> QED BY <1>5, <1>7, <1>9 DEF inc

LEMMA DefaultHasSdk == "sdk" \in DOMAIN DefaultConfig
<1>1. AxisOrder[20] = "sdk" /\ 20 \in DOMAIN AxisOrder
  BY DEF AxisOrder
<1>2. "sdk" \in Axes
  BY <1>1 DEF Axes, ToSet
<1>3. DOMAIN DefaultConfig = Axes
  BY DEF DefaultConfig
<1> QED BY <1>2, <1>3

LEMMA WithCreationTab ==
  ASSUME NEW c, NEW opt, NEW t, Tab(c, opt, t), NEW ref, IsRef(ref), NEW create
  PROVE  Tab(c, opt, WithCreation(t, ref, create).t)
<1> DEFINE own == IF ref[1] = Own THEN Resolve(t, ref, FALSE) ELSE NoId
           g == AddEntry(t, ref[2], ref[3], FalseValue, DefaultConfig, {"any"}, FALSE, TRUE)
<1>1. Tab(c, opt, g)
  BY DefaultHasSdk, AddEntryTab
<1>2. WithCreation(t, ref, create).t \in {t, Fail(t), Created(g, ref).t}
  BY DEF WithCreation, CreatedUnless
<1>3. Tab(c, opt, Created(g, ref).t)
  <2> HIDE DEF g
  <2> QED BY <1>1, GetResIdTab DEF Created
<1> QED BY <1>2, <1>3, FailTab

-----------------------------------------------------------------------------
(* An attribute that is being declared. *)

PendingFields == {"t", "ident", "type", "added", "bad"}
PendingOk(opt, a) == DOMAIN a = PendingFields /\ Tab("early", opt, a.t)

LEMMA KeyHasTwo == \A name : Len(Key(name)) = 2
BY DEF Key

LEMMA NoRefIsRef == IsRef(NoRef)
BY DEF IsRef, NoRef

LEMMA AttrErrorOk ==
  ASSUME NEW opt, NEW a, PendingOk(opt, a) PROVE PendingOk(opt, AttrError(a))
BY FailTab DEF PendingOk, PendingFields, AttrError

LEMMA AttrItemOk ==
  ASSUME NEW opt, NEW a, PendingOk(opt, a), NEW key, Len(key) = 2, NEW value, NEW replace, NEW isId
  PROVE  PendingOk(opt, AttrItem(a, key, value, replace, isId))
<1> DEFINE t == AddBag(a.t, "attr", a.ident, NoRef, key, value, DefaultConfig, replace, isId, {"any"})
<1>1. Tab("early", opt, t)
  BY NoRefIsRef, DefaultHasSdk, AddBagTab DEF PendingOk
<1>2. AttrItem(a, key, value, replace, isId) = [a EXCEPT !.t = t, !.bad = a.bad \/ ~t.ok]
  BY DEF AttrItem, WithItem
<1> HIDE DEF t
<1> QED BY <1>1, <1>2 DEF PendingOk, PendingFields

LEMMA FormatItemOk ==
  ASSUME NEW opt, NEW a, PendingOk(opt, a), NEW replace PROVE PendingOk(opt, FormatItem(a, replace))
BY KeyHasTwo, AttrItemOk DEF FormatItem

LEMMA CreateOk ==
  ASSUME NEW opt, NEW a, PendingOk(opt, a) PROVE PendingOk(opt, CreateIfNeeded(a))
<1> DEFINE b == [a EXCEPT !.added = TRUE]
<1>1. PendingOk(opt, b)
  BY DEF PendingOk, PendingFields
<1>2. CreateIfNeeded(a) \in {a, AttrError(b), FormatItem(b, FALSE)}
  BY DEF CreateIfNeeded
<1> HIDE DEF b
<1> QED BY <1>1, <1>2, AttrErrorOk, FormatItemOk

LEMMA StartAttributeOk ==
  ASSUME NEW opt, NEW t, Tab("early", opt, t), NEW e, NEW inStyleable
  PROVE  PendingOk(opt, StartAttribute(t, e, inStyleable))
<1> DEFINE a == [t |-> t, ident |-> IF Has(e, "name") THEN e.name ELSE "",
                 type |-> IF Has(e, "format") THEN ParseFlags(e.format) ELSE AnyType,
                 added |-> FALSE, bad |-> FALSE]
           said == IF ~Has(e, "name") \/ a.type = {} THEN AttrError(a) ELSE a
<1>1. PendingOk(opt, a)
  BY DEF PendingOk, PendingFields
<1>2. StartAttribute(t, e, inStyleable) \in {CreateIfNeeded(said), said}
  BY DEF StartAttribute
<1> HIDE DEF a
<1>3. PendingOk(opt, said)
  BY <1>1, AttrErrorOk
<1> HIDE DEF said
<1> QED BY <1>2, <1>3, CreateOk

LEMMA AttributeLimitOk ==
  ASSUME NEW opt, NEW a, PendingOk(opt, a), NEW e, NEW name
  PROVE  PendingOk(opt, AttributeLimit(a, e, name))
<1> DEFINE n == IF Has(e[name], "n") THEN a ELSE AttrError(a)
           b == CreateIfNeeded(n)
           i == AttrItem(b, Key(name), e[name], FALSE, FALSE)
           l == [i EXCEPT !.bad = i.bad \/ name = "max"]
<1>1. PendingOk(opt, b)
  BY AttrErrorOk, CreateOk
<1>2. AttributeLimit(a, e, name) \in {a, b, l}
  BY DEF AttributeLimit, Pending
<1> HIDE DEF b
<1>3. PendingOk(opt, i)
  BY <1>1, KeyHasTwo, AttrItemOk
<1> HIDE DEF i
<1>4. PendingOk(opt, l)
  BY <1>3 DEF PendingOk, PendingFields
<1> QED BY <1>1, <1>2, <1>4

LEMMA AttributeLimitsOk ==
  ASSUME NEW opt, NEW a, PendingOk(opt, a), NEW e
  PROVE  PendingOk(opt, AttributeLimits(a, e))
<1> DEFINE b == AttributeLimit(AttributeLimit(a, e, "min"), e, "max")
           c == RequireInteger(b, e, a.type)
<1>1. PendingOk(opt, b)
  BY AttributeLimitOk
<1> HIDE DEF b
<1>2. PendingOk(opt, c)
  BY <1>1, AttrErrorOk DEF RequireInteger
<1> HIDE DEF c
<1>3. PendingOk(opt, AttributeLimit(c, e, "localization"))
  BY <1>2, AttributeLimitOk
<1> QED BY <1>3 DEF AttributeLimits, b, c

LEMMA EnumOrFlagOk ==
  ASSUME NEW opt, NEW acc, PendingOk(opt, acc), NEW c
  PROVE  PendingOk(opt, EnumOrFlag(acc, c))
<1> DEFINE kind == IF c.tag = "enum" THEN "enum" ELSE "flags"
           b == CreateIfNeeded(acc)
           k == OfKind(b, kind)
<1>1. PendingOk(opt, b)
  BY CreateOk
<1> HIDE DEF b, kind
<1>2. PendingOk(opt, k)
  <2> DEFINE plain == IF b.type = AnyType THEN {} ELSE b.type
             n == [b EXCEPT !.type = plain \cup {kind}]
  <2>1. PendingOk(opt, n)
    BY <1>1 DEF PendingOk, PendingFields
  <2>2. OfKind(b, kind) \in {n, FormatItem(n, TRUE), AttrError(b), b}
    BY DEF OfKind, Pending
  <2> HIDE DEF n
  <2> QED BY <1>1, <2>1, <2>2, FormatItemOk, AttrErrorOk
<1> HIDE DEF k
<1> DEFINE key == <<Own, c.name>>
<1>3. Len(key) = 2
  OBVIOUS
<1>4. EnumOrFlag(acc, c) \in {k, AttrItem(k, key, c.value, FALSE, TRUE), AttrError(k)}
  BY DEF EnumOrFlag, Pending, b, k, kind
<1> HIDE DEF key
<1> QED BY <1>2, <1>3, <1>4, AttrItemOk, AttrErrorOk

ConstantOp(p, q, r, a, c) == IF c.tag \in {"enum", "flag"} THEN EnumOrFlag(a, c) ELSE a
ConstantGood(opt, q, r, a) == PendingOk(opt, a)
Constant == INSTANCE FoldFacts WITH Op <- ConstantOp, Good <- ConstantGood

LEMMA CompileAttributeTab ==
  ASSUME NEW opt, NEW t, Tab("early", opt, t), NEW e, "children" \in DOMAIN e => IsList(e.children),
         NEW inStyleable
  PROVE  Tab("early", opt, CompileAttribute(t, e, inStyleable).t)
<1> DEFINE children == Of(e, "children", << >>)
           start == AttributeLimits(StartAttribute(t, e, inStyleable), e)
           n == Len(children)
<1>1. n \in Nat /\ DOMAIN children = 1..n
  <2>1. IsList(children)
    BY EmptyIsList DEF Of, Has
  <2> QED BY <2>1 DEF IsList
<1>2. PendingOk(opt, start)
  BY StartAttributeOk, AttributeLimitsOk
<1>3. CompileAttribute(t, e, inStyleable).t = Constant!Left(opt, 0, 0, start, children).t
  BY DEF CompileAttribute, FoldLeft, MapThenFoldSet, ConstantOp, Constant!Left, Max
<1> HIDE DEF children, start, n
<1>4. \A acc : \A i \in 1..n : ConstantGood(opt, 0, 0, acc) =>
                                 ConstantGood(opt, 0, 0, ConstantOp(opt, 0, 0, acc, children[i]))
  BY EnumOrFlagOk DEF ConstantGood, ConstantOp
<1>5. ConstantGood(opt, 0, 0, start)
  BY <1>2 DEF ConstantGood
<1>6. ConstantGood(opt, 0, 0, Constant!Left(opt, 0, 0, start, children))
  BY <1>1, <1>4, <1>5, Constant!LeftKeeps, SmallestNumber
<1> QED BY <1>3, <1>6 DEF ConstantGood, PendingOk

-----------------------------------------------------------------------------
(* A file of values that is being read. *)

ValuesFields == {"t", "sym", "loc", "next", "skipped", "errors", "stop", "config", "translatable", "overwrite"}
IdOk(id) == DOMAIN id = 1..3 /\ id[2] \in Nat /\ id[3] \in Nat
ReadingOk(opt, v) ==
    /\ DOMAIN v = ValuesFields /\ Tab("early", opt, v.t) /\ "sdk" \in DOMAIN v.config
    /\ \A x \in DOMAIN v.next : IdOk(v.next[x])

LEMMA OtherFieldsOk ==
  ASSUME NEW opt, NEW v, ReadingOk(opt, v), NEW u, DOMAIN u = ValuesFields,
         Tab("early", opt, u.t), u.config = v.config, u.next = v.next
  PROVE  ReadingOk(opt, u)
BY DEF ReadingOk

LEMMA StatusOk ==
  ASSUME NEW opt, NEW v, ReadingOk(opt, v)
  PROVE  /\ ReadingOk(opt, Bad(v)) /\ ReadingOk(opt, Stop(v))
         /\ ReadingOk(opt, [v EXCEPT !.t = Fail(@)])
         /\ ReadingOk(opt, Bad([v EXCEPT !.t = Fail(@)]))
         /\ ReadingOk(opt, Stop([v EXCEPT !.t = Fail(@)]))
         /\ \A x : ReadingOk(opt, [v EXCEPT !.errors = x])
         /\ \A x : ReadingOk(opt, [v EXCEPT !.sym = x])
         /\ \A x : ReadingOk(opt, [v EXCEPT !.skipped = x])
         /\ \A x : ReadingOk(opt, [v EXCEPT !.loc = x])
<1>1. Tab("early", opt, Fail(v.t))
  BY FailTab DEF ReadingOk
<1> HIDE DEF Fail
<1>2. ReadingOk(opt, Bad(v)) /\ ReadingOk(opt, Stop(v))
  BY OtherFieldsOk DEF ReadingOk, ValuesFields, Bad, Stop
<1>3. ReadingOk(opt, [v EXCEPT !.t = Fail(@)])
  BY <1>1, OtherFieldsOk DEF ReadingOk, ValuesFields
<1>4. \A u : ReadingOk(opt, u) => ReadingOk(opt, Bad(u)) /\ ReadingOk(opt, Stop(u))
  BY DEF ReadingOk, ValuesFields, Bad, Stop
<1>5. \A x : ReadingOk(opt, [v EXCEPT !.errors = x])
  BY DEF ReadingOk, ValuesFields
<1>6. \A x : ReadingOk(opt, [v EXCEPT !.sym = x])
  BY DEF ReadingOk, ValuesFields
<1>7. \A x : ReadingOk(opt, [v EXCEPT !.skipped = x])
  BY DEF ReadingOk, ValuesFields
<1>8. \A x : ReadingOk(opt, [v EXCEPT !.loc = x])
  BY DEF ReadingOk, ValuesFields
<1> QED BY <1>2, <1>3, <1>4, <1>5, <1>6, <1>7, <1>8

LEMMA SymOk ==
  ASSUME NEW opt, NEW v, ReadingOk(opt, v), NEW sym
  PROVE  ReadingOk(opt, [v EXCEPT !.sym = sym])
BY DEF ReadingOk, ValuesFields

LEMMA WithOk ==
  ASSUME NEW opt, NEW v, ReadingOk(opt, v), NEW t, Tab("early", opt, t)
  PROVE  ReadingOk(opt, With(v, t))
BY DEF ReadingOk, ValuesFields, With

LEMMA DeclaredOk ==
  ASSUME NEW opt, NEW v, ReadingOk(opt, v), NEW e, "children" \in DOMAIN e => IsList(e.children), NEW inStyleable
  PROVE  ReadingOk(opt, WithAttribute(v, CompileAttribute(v.t, e, inStyleable)))
<1> DEFINE a == CompileAttribute(v.t, e, inStyleable)
<1>1. Tab("early", opt, a.t)
  BY CompileAttributeTab DEF ReadingOk
<1> HIDE DEF a
<1>2. ReadingOk(opt, WithAttribute(v, a))
  BY <1>1 DEF ReadingOk, ValuesFields, WithAttribute
<1> QED BY <1>2 DEF a

ChildOp(e, opt, r, u, c) ==
    IF u.stop \/ c.tag \in {"skip", "eat-comment"} THEN u
    ELSE IF c.tag # "attr" THEN Stop([u EXCEPT !.t = Fail(@)])
    ELSE LET w == WithAttribute(u, CompileAttribute(u.t, c, TRUE))
         IN  IF Has(e, "name") /\ Has(c, "name")
             THEN [w EXCEPT !.sym.styleables = [w.sym.styleables EXCEPT ![e.name] = Append(@, c.name)]] ELSE w
ReadingGood(e, opt, r, u) == ReadingOk(opt, u)
Styleable == INSTANCE FoldFacts WITH Op <- ChildOp, Good <- ReadingGood

LEMMA DeclareStyleableOk ==
  ASSUME NEW opt, NEW v, ReadingOk(opt, v), NEW e, TagOk(e), "children" \in DOMAIN e
  PROVE  ReadingOk(opt, DeclareStyleable(v, e))
<1> DEFINE start == IF Has(e, "name")
                    THEN [v EXCEPT !.sym.styleables = SetNew(@, e.name, << >>)]
                    ELSE Bad([v EXCEPT !.t = Fail(@)])
           n == Len(e.children)
<1>1. n \in Nat /\ DOMAIN e.children = 1..n
  BY DEF TagOk, IsList
<1>2. ReadingOk(opt, start)
  <2>1. ReadingOk(opt, [v EXCEPT !.sym.styleables = SetNew(@, e.name, << >>)])
    <3> DEFINE sym == [v.sym EXCEPT !.styleables = SetNew(@, e.name, << >>)]
    <3>1. [v EXCEPT !.sym.styleables = SetNew(@, e.name, << >>)] = [v EXCEPT !.sym = sym]
      OBVIOUS
    <3> HIDE DEF sym
    <3> QED BY <3>1, StatusOk
  <2> QED BY <2>1, StatusOk
<1>3. DeclareStyleable(v, e) = Styleable!Left(e, opt, 0, start, e.children)
  BY DEF DeclareStyleable, FoldLeft, MapThenFoldSet, ChildOp, Styleable!Left, Max
<1> HIDE DEF start
<1>4. ASSUME NEW u, ReadingOk(opt, u), NEW i \in 1..n
      PROVE  ReadingOk(opt, ChildOp(e, opt, 0, u, e.children[i]))
  <2> DEFINE c == e.children[i]
             w == WithAttribute(u, CompileAttribute(u.t, c, TRUE))
             sym == [w.sym EXCEPT !.styleables = [w.sym.styleables EXCEPT ![e.name] = Append(@, c.name)]]
  <2>1. "children" \in DOMAIN c => IsList(c.children)
    BY <1>1 DEF TagOk
  <2>2. ReadingOk(opt, w)
    BY <1>4, <2>1, DeclaredOk
  <2>3. ChildOp(e, opt, 0, u, c) \in {u, Stop([u EXCEPT !.t = Fail(@)]), [w EXCEPT !.sym = sym], w}
    BY DEF ChildOp
  <2>4. ReadingOk(opt, Stop([u EXCEPT !.t = Fail(@)]))
    BY <1>4, StatusOk
  <2> HIDE DEF w, sym
  <2>5. ReadingOk(opt, [w EXCEPT !.sym = sym])
    BY <2>2, SymOk
  <2> QED BY <1>4, <2>2, <2>3, <2>4, <2>5
<1>5. \A acc : \A i \in 1..n : ReadingGood(e, opt, 0, acc) =>
                                 ReadingGood(e, opt, 0, ChildOp(e, opt, 0, acc, e.children[i]))
  BY <1>4 DEF ReadingGood
<1>6. ReadingGood(e, opt, 0, start)
  BY <1>2 DEF ReadingGood
<1>7. ReadingGood(e, opt, 0, Styleable!Left(e, opt, 0, start, e.children))
  <2> HIDE DEF n
  <2> QED BY <1>1, <1>5, <1>6, Styleable!LeftKeeps, SmallestNumber
<1> QED BY <1>3, <1>7 DEF ReadingGood

LEMMA PublicOkOk ==
  ASSUME NEW opt, NEW v, ReadingOk(opt, v), NEW type, NEW name
  PROVE  ReadingOk(opt, PublicUnlessFailed(v, type, name))
<1> DEFINE public == v.sym.public \cup {<<type, name>>}
           sym == [v.sym EXCEPT !.public = public]
<1>0. [v EXCEPT !.sym.public = public] = [v EXCEPT !.sym = sym]
  OBVIOUS
<1>1. PublicUnlessFailed(v, type, name) \in {v, [v EXCEPT !.sym.public = public]}
  BY DEF PublicUnlessFailed, MakePublic
<1> HIDE DEF public
<1>2. PublicUnlessFailed(v, type, name) \in {v, [v EXCEPT !.sym = sym]}
  BY <1>0, <1>1
<1> HIDE DEF sym
<1>3. ReadingOk(opt, [v EXCEPT !.sym = sym])
  BY SymOk
<1> QED BY <1>2, <1>3

LEMMA IdIsOk == \A id \in Ids : IdOk(id) /\ IdOk(NextId(id))
<1>1. \A id \in Ids : IdOk(id)
  BY DEF IdOk, Ids
<1>2. \A id : IdOk(id) => IdOk(NextId(id))
  BY DEF IdOk, NextId
<1> QED BY <1>1, <1>2

LEMMA NextOk ==
  ASSUME NEW opt, NEW v, ReadingOk(opt, v), NEW type, NEW id, IdOk(id)
  PROVE  ReadingOk(opt, [v EXCEPT !.next = Set(@, type, NextId(id))])
<1>1. IdOk(NextId(id))
  BY DEF IdOk, NextId
<1> DEFINE next == Set(v.next, type, NextId(id))
<1>2. \A x \in DOMAIN next : IdOk(next[x])
  BY <1>1 DEF Set, ReadingOk
<1> HIDE DEF next
<1>3. ReadingOk(opt, [v EXCEPT !.next = next])
  BY <1>2 DEF ReadingOk, ValuesFields
<1> QED BY <1>3 DEF next

LEMMA PublicTagOk ==
  ASSUME NEW opt, NEW v, ReadingOk(opt, v), NEW e, TagOk(e)
  PROVE  ReadingOk(opt, Public(v, e))
<1> DEFINE known == Has(e, "type") /\ e.type \in DOMAIN v.next
           id == IF Has(e, "id") THEN e.id ELSE v.next[e.type]
           w == [v EXCEPT !.next = Set(@, e.type, NextId(id))]
           u == With(w, AddPublic(v.t, e.type, e.name, id))
           wrong == ~Has(e, "type") \/ ~Has(e, "name") \/ ~(Has(e, "id") \/ known)
<1>1. Public(v, e) = IF wrong THEN Bad([v EXCEPT !.t = Fail(@)]) ELSE PublicUnlessFailed(u, e.type, e.name)
  BY DEF Public
<1>2. CASE wrong
  BY <1>1, <1>2, StatusOk
<1>3. CASE ~wrong
  <2>1. IdOk(id)
    BY <1>3, IdIsOk DEF TagOk, ReadingOk, Has
  <2> HIDE DEF id, wrong
  <2>2. ReadingOk(opt, w)
    BY <2>1, NextOk
  <2>3. Tab("early", opt, AddPublic(v.t, e.type, e.name, id))
    BY <2>1, AddPublicTab DEF ReadingOk, IdOk
  <2> HIDE DEF w
  <2>4. ReadingOk(opt, u)
    BY <2>2, <2>3, WithOk
  <2> HIDE DEF u
  <2> QED BY <1>1, <1>3, <2>4, PublicOkOk
<1> QED BY <1>2, <1>3

-----------------------------------------------------------------------------
(* What is read from one tag: padding, symbols, values. *)

LEMMA PadIdOk ==
  ASSUME NEW opt, NEW v, ReadingOk(opt, v), NEW type, NEW name, NEW id, IdOk(id)
  PROVE  ReadingOk(opt, PadId(v, type, name, id))
<1> DEFINE u == With(v, AddPublic(v.t, type, name, id))
<1>1. Tab("early", opt, AddPublic(v.t, type, name, id))
  BY AddPublicTab DEF ReadingOk, IdOk
<1>2. ReadingOk(opt, u)
  <2> DEFINE t == AddPublic(v.t, type, name, id)
  <2> HIDE DEF t
  <2>1. ReadingOk(opt, With(v, t))
    BY <1>1, WithOk DEF t
  <2> QED BY <2>1 DEF t
<1>3. PadId(v, type, name, id) \in {v, PublicUnlessFailed(u, type, name)}
  BY DEF PadId
<1> HIDE DEF u
<1> QED BY <1>2, <1>3, PublicOkOk

LEMMA EntryWithOk ==
  ASSUME NEW opt, NEW v, ReadingOk(opt, v), NEW type, NEW name, NEW value, NEW config, "sdk" \in DOMAIN config,
         NEW format, NEW overwrite, NEW setIndex
  PROVE  ReadingOk(opt, With(v, AddEntry(v.t, type, name, value, config, format, overwrite, setIndex)))
<1> DEFINE t == AddEntry(v.t, type, name, value, config, format, overwrite, setIndex)
<1>1. Tab("early", opt, t)
  BY AddEntryTab DEF ReadingOk
<1> HIDE DEF t
<1>2. ReadingOk(opt, With(v, t))
  BY <1>1, WithOk
<1> QED BY <1>2 DEF t

LEMMA PadOk ==
  ASSUME NEW opt, NEW v, ReadingOk(opt, v), NEW type, NEW name, NEW id, IdOk(id)
  PROVE  ReadingOk(opt, Pad(v, type, name, id))
<1> DEFINE u == With(v, AddEntry(v.t, type, name, [k |-> "string", v |-> "padding"], v.config, {"string"},
                                 v.overwrite, FALSE))
<1>1. ReadingOk(opt, u)
  BY EntryWithOk DEF ReadingOk
<1>2. Pad(v, type, name, id) \in {v, PadId(u, type, name, id)}
  BY DEF Pad
<1> HIDE DEF u
<1> QED BY <1>1, <1>2, PadIdOk

PaddingOp(e, start, opt, u, n) ==
    Pad(u, e.type, e.name \o ToString(e.end[3] - n + 1), [start EXCEPT ![3] = n])
PaddingGood(e, start, opt, u) == ReadingOk(opt, u)
Padding == INSTANCE FoldFacts WITH Op <- PaddingOp, Good <- PaddingGood

LEMMA PublicPaddingOk ==
  ASSUME NEW opt, NEW v, ReadingOk(opt, v), NEW e, TagOk(e)
  PROVE  ReadingOk(opt, PublicPadding(v, e))
<1> DEFINE known == Has(e, "type") /\ e.type \in DOMAIN v.next
           start == IF Has(e, "start") THEN e.start ELSE v.next[e.type]
           n == e.end[3] - start[3] + 1
           ids == [i \in 1..n |-> start[3] + i - 1]
           wrong == \/ ~Has(e, "type") \/ ~Has(e, "name") \/ ~Has(e, "end") \/ ~(Has(e, "start") \/ known)
                    \/ e.end[3] < start[3]
           base == [v EXCEPT !.errors = FALSE]
           fold == Padding!Left(e, start, opt, base, ids)
<1>1. PublicPadding(v, e) = IF wrong THEN Bad([v EXCEPT !.t = Fail(@)])
                            ELSE [fold EXCEPT !.next = Set(@, e.type, NextId(e.end)), !.errors = @ \/ v.errors]
  BY DEF PublicPadding, FoldLeft, MapThenFoldSet, PaddingOp, Padding!Left, Max
<1>2. CASE wrong
  BY <1>1, <1>2, StatusOk
<1>3. CASE ~wrong
  <2>1. IdOk(start) /\ e.end \in Ids
    BY <1>3, IdIsOk DEF TagOk, ReadingOk, Has
  <2>2. start[3] \in Nat /\ e.end[3] \in Nat /\ IdOk(e.end)
    BY <2>1, IdIsOk DEF Ids, IdOk
  <2>3. n \in Nat
    BY <1>3, <2>2
  <2>4. ReadingOk(opt, base)
    BY StatusOk
  <2>5. ASSUME NEW u, ReadingOk(opt, u), NEW m \in Nat
        PROVE  ReadingOk(opt, PaddingOp(e, start, opt, u, m))
    <3> DEFINE id == [start EXCEPT ![3] = m]
               name == e.name \o ToString(e.end[3] - m + 1)
    <3>1. IdOk(id)
      BY <2>1, <2>5 DEF IdOk
    <3> HIDE DEF id, name
    <3>2. ReadingOk(opt, Pad(u, e.type, name, id))
      BY <3>1, <2>5, PadOk
    <3> QED BY <3>2 DEF PaddingOp, id, name
  <2>6. \A acc : \A i \in 1..n : PaddingGood(e, start, opt, acc) =>
                                   PaddingGood(e, start, opt, PaddingOp(e, start, opt, acc, ids[i]))
    <3>1. \A i \in 1..n : ids[i] \in Nat
      BY <2>2, <2>3
    <3> HIDE DEF ids, n
    <3> QED BY <3>1, <2>5 DEF PaddingGood
  <2>7. DOMAIN ids = 1..n
    OBVIOUS
  <2>8. PaddingGood(e, start, opt, base)
    BY <2>4 DEF PaddingGood
  <2>9. ReadingOk(opt, fold)
    <3> HIDE DEF ids, n, base, start
    <3>1. PaddingGood(e, start, opt, Padding!Left(e, start, opt, base, ids))
      BY <2>3, <2>6, <2>7, <2>8, Padding!LeftKeeps, SmallestNumber
    <3> QED BY <3>1 DEF PaddingGood
  <2> HIDE DEF fold, wrong
  <2>10. ReadingOk(opt, [fold EXCEPT !.next = Set(@, e.type, NextId(e.end))])
    BY <2>9, <2>2, NextOk
  <2> DEFINE w == [fold EXCEPT !.next = Set(@, e.type, NextId(e.end))]
             x == fold.errors \/ v.errors
             u == [fold EXCEPT !.next = Set(@, e.type, NextId(e.end)), !.errors = @ \/ v.errors]
  <2>11. DOMAIN u = ValuesFields /\ u.t = w.t /\ u.config = w.config /\ u.next = w.next
    BY <2>9 DEF ReadingOk, ValuesFields
  <2>12. PublicPadding(v, e) = u
    BY <1>1, <1>3
  <2> HIDE DEF u, w
  <2>13. ReadingOk(opt, w)
    BY <2>10 DEF w
  <2> QED BY <2>11, <2>12, <2>13 DEF ReadingOk
<1> QED BY <1>2, <1>3

LEMMA SymbolsOk ==
  ASSUME NEW opt, NEW v, ReadingOk(opt, v), NEW e
  PROVE  ReadingOk(opt, PrivateSymbols(v, e)) /\ ReadingOk(opt, JavaSymbol(v, e))
<1>1. ReadingOk(opt, Bad([v EXCEPT !.t = Fail(@)]))
  BY StatusOk
<1>2. ReadingOk(opt, [v EXCEPT !.sym.privatePackage = e.package])
  <2> DEFINE sym == [v.sym EXCEPT !.privatePackage = e.package]
  <2>1. [v EXCEPT !.sym.privatePackage = e.package] = [v EXCEPT !.sym = sym]
    OBVIOUS
  <2> HIDE DEF sym
  <2> QED BY <2>1, SymOk
<1>3. ReadingOk(opt, [v EXCEPT !.sym.java = @ \cup {<<e.type, e.name>>}])
  <2> DEFINE sym == [v.sym EXCEPT !.java = @ \cup {<<e.type, e.name>>}]
  <2>1. [v EXCEPT !.sym.java = @ \cup {<<e.type, e.name>>}] = [v EXCEPT !.sym = sym]
    OBVIOUS
  <2> HIDE DEF sym
  <2> QED BY <2>1, SymOk
<1> QED BY <1>1, <1>2, <1>3 DEF PrivateSymbols, JavaSymbol

LEMMA AddResourceOk ==
  ASSUME NEW opt, NEW v, ReadingOk(opt, v), NEW e
  PROVE  ReadingOk(opt, AddResource(v, e))
<1> DEFINE t == CanAddEntry(v.t, e.type, e.name)
<1>1. ReadingOk(opt, Bad([v EXCEPT !.t = Fail(@)]))
  BY StatusOk
<1>2. Tab("early", opt, t)
  BY CanAddTab DEF ReadingOk
<1>3. AddResource(v, e) \in {[v EXCEPT !.t = t], Bad([v EXCEPT !.t = Fail(@)])}
  BY DEF AddResource
<1> HIDE DEF t
<1>4. ReadingOk(opt, [v EXCEPT !.t = t])
  BY <1>2 DEF ReadingOk, ValuesFields
<1> QED BY <1>1, <1>3, <1>4

LEMMA AddLocalizationOk ==
  ASSUME NEW opt, NEW v, ReadingOk(opt, v), NEW e
  PROVE  ReadingOk(opt, AddLocalization(v, e))
<1> DEFINE loc == Set(v.loc, e.name, Of(v.loc, e.name, {}) \cup {v.config.locale})
<1>1. AddLocalization(v, e) \in {v, [v EXCEPT !.loc = loc]}
  BY DEF AddLocalization
<1> HIDE DEF loc
<1>2. ReadingOk(opt, [v EXCEPT !.loc = loc])
  BY DEF ReadingOk, ValuesFields
<1> QED BY <1>1, <1>2

LEMMA ConfigOfSdk ==
  ASSUME NEW v, "sdk" \in DOMAIN v.config, NEW method
  PROVE  "sdk" \in DOMAIN ConfigOf(v, method)
BY DEF ConfigOf

LEMMA ParseAndAddEntryOk ==
  ASSUME NEW opt, NEW v, ReadingOk(opt, v), NEW e, NEW c, NEW method
  PROVE  ReadingOk(opt, ParseAndAddEntry(v, e, c, method))
<1> DEFINE config == ConfigOf(v, method)
           value == Text(e.value, method)
           skipped == v.skipped \cup {<<c.type, e.name>>}
           u == With(v, AddEntry(v.t, c.type, e.name, value, config, c.format, v.overwrite, FALSE))
<1>1. "sdk" \in DOMAIN config
  BY ConfigOfSdk DEF ReadingOk
<1>2. ParseAndAddEntry(v, e, c, method) \in {Bad([v EXCEPT !.t = Fail(@)]), [v EXCEPT !.skipped = skipped], v, u}
  BY DEF ParseAndAddEntry
<1> HIDE DEF config, value, skipped
<1>3. ReadingOk(opt, u)
  BY <1>1, EntryWithOk
<1>4. ReadingOk(opt, [v EXCEPT !.skipped = skipped])
  BY DEF ReadingOk, ValuesFields
<1>5. ReadingOk(opt, Bad([v EXCEPT !.t = Fail(@)]))
  BY StatusOk
<1> HIDE DEF u
<1> QED BY <1>2, <1>3, <1>4, <1>5

LEMMA VariantsIsList == ASSUME NEW v, NEW pseudo PROVE IsList(Variants(v, pseudo))
<1>1. \A m : IsList(Asked(v, m))
  <2>1. \A m : IsList(<<m>>)
    BY DEF IsList
  <2> QED BY <2>1, EmptyIsList DEF Asked
<1>2. IsList(Asked(v, "accented") \o Asked(v, "bidi"))
  <2> DEFINE a == Asked(v, "accented")
             b == Asked(v, "bidi")
  <2>1. IsList(a) /\ IsList(b)
    BY <1>1
  <2> HIDE DEF a, b
  <2>2. IsList(a \o b)
    BY <2>1, ConcatIsList
  <2> QED BY <2>2 DEF a, b
<1> QED BY <1>2, EmptyIsList DEF Variants

VariantOp(x, c, errors, u, m) == ParseAndAddEntry([u EXCEPT !.errors = errors], x.e, c, m)
VariantGood(x, c, errors, u) == ReadingOk(x.opt, u)
Variant == INSTANCE FoldFacts WITH Op <- VariantOp, Good <- VariantGood

LEMMA EntryTagOk ==
  ASSUME NEW opt, NEW v, ReadingOk(opt, v), NEW e, NEW c
  PROVE  ReadingOk(opt, Entry(v, e, c))
<1> DEFINE plain == ParseAndAddEntry(v, e, c, "no")
           list == Variants(v, c.pseudo)
           n == Len(list)
           x == [e |-> e, opt |-> opt]
           fold == Variant!Left(x, c, v.errors, plain, list)
<1>1. ReadingOk(opt, plain)
  BY ParseAndAddEntryOk
<1>2. AddVariants(v, e, c, plain) \in {plain, fold}
  BY DEF AddVariants, FoldLeft, MapThenFoldSet, VariantOp, Variant!Left, Max
<1>3. Entry(v, e, c) \in {Bad([v EXCEPT !.t = Fail(@)]), AddVariants(v, e, c, plain)}
  BY DEF Entry
<1>4. n \in Nat /\ DOMAIN list = 1..n
  BY VariantsIsList DEF IsList
<1> HIDE DEF plain, list, n
<1>5. ASSUME NEW u, ReadingOk(opt, u), NEW m
      PROVE  ReadingOk(opt, VariantOp(x, c, v.errors, u, m))
  <2> DEFINE w == [u EXCEPT !.errors = v.errors]
  <2>1. ReadingOk(opt, w)
    BY <1>5, StatusOk
  <2> HIDE DEF w
  <2>2. ReadingOk(opt, ParseAndAddEntry(w, e, c, m))
    BY <2>1, ParseAndAddEntryOk
  <2> QED BY <2>2 DEF VariantOp, w
<1>6. VariantGood(x, c, v.errors, plain)
  BY <1>1 DEF VariantGood
<1>7. \A acc : \A i \in 1..n : VariantGood(x, c, v.errors, acc) =>
                                 VariantGood(x, c, v.errors, VariantOp(x, c, v.errors, acc, list[i]))
  BY <1>5 DEF VariantGood
<1>8. ReadingOk(opt, fold)
  <2> HIDE DEF x
  <2>1. VariantGood(x, c, v.errors, Variant!Left(x, c, v.errors, plain, list))
    BY <1>4, <1>6, <1>7, Variant!LeftKeeps, SmallestNumber
  <2> QED BY <2>1 DEF VariantGood, x
<1>9. ReadingOk(opt, Bad([v EXCEPT !.t = Fail(@)]))
  BY StatusOk
<1> HIDE DEF fold
<1> QED BY <1>1, <1>2, <1>3, <1>8, <1>9

-----------------------------------------------------------------------------
(* Bags that are read, and a whole file. *)

LEMMA ParentIsRef == ASSUME NEW e, TagOk(e) PROVE IsRef(ParentOf(e))
<1>1. \A x : IsRef(<<Own, "style", x>>)
  BY DEF IsRef
<1> QED BY <1>1, NoRefIsRef DEF ParentOf, TagOk, Has

LEMMA ParseAndAddBagOk ==
  ASSUME NEW opt, NEW v, ReadingOk(opt, v), NEW e, TagOk(e), NEW c, NEW key, Len(key) = 2, NEW item, NEW method
  PROVE  ReadingOk(opt, ParseAndAddBag(v, e, c, key, item, method))
<1> DEFINE config == ConfigOf(v, method)
           value == Text(item.value, method)
           parent == ParentOf(e)
           t == AddBag(v.t, c.type, e.name, parent, key, value, config, v.overwrite, FALSE, c.format)
<1>1. "sdk" \in DOMAIN config /\ IsRef(parent)
  BY ConfigOfSdk, ParentIsRef DEF ReadingOk
<1>2. ParseAndAddBag(v, e, c, key, item, method) \in {Bad([v EXCEPT !.t = Fail(@)]), With(v, t)}
  BY DEF ParseAndAddBag
<1> HIDE DEF config, value, parent
<1>3. Tab("early", opt, t)
  BY <1>1, AddBagTab DEF ReadingOk
<1> HIDE DEF t
<1>4. ReadingOk(opt, With(v, t))
  BY <1>3, WithOk
<1>5. ReadingOk(opt, Bad([v EXCEPT !.t = Fail(@)]))
  BY StatusOk
<1> QED BY <1>2, <1>4, <1>5

ItemOp(x, y, errors, u, m) == ParseAndAddBag([u EXCEPT !.errors = errors], x.e, x.c, y.key, y.item, m)
ItemGood(x, y, errors, u) == ReadingOk(x.opt, u)
ItemFold == INSTANCE FoldFacts WITH Op <- ItemOp, Good <- ItemGood

LEMMA AddItemOk ==
  ASSUME NEW opt, NEW v, ReadingOk(opt, v), NEW e, TagOk(e), NEW c, NEW key, NEW item,
         item.tag = "item" => Len(key) = 2
  PROVE  ReadingOk(opt, AddItem(v, e, c, key, item))
<1>1. CASE item.tag # "item" \/ v.stop \/ key = Key("")
  <2>1. AddItem(v, e, c, key, item) \in {v, Stop([v EXCEPT !.t = Fail(@)]), Bad([v EXCEPT !.t = Fail(@)])}
    BY <1>1 DEF AddItem
  <2>2. ReadingOk(opt, Stop([v EXCEPT !.t = Fail(@)])) /\ ReadingOk(opt, Bad([v EXCEPT !.t = Fail(@)]))
    BY StatusOk
  <2> QED BY <2>1, <2>2
<1>2. CASE item.tag = "item" /\ ~v.stop /\ key # Key("")
  <2> DEFINE plain == ParseAndAddBag(v, e, c, key, item, "no")
             list == Variants(v, c.pseudo)
             n == Len(list)
             x == [e |-> e, opt |-> opt, c |-> c]
             y == [key |-> key, item |-> item]
             fold == ItemFold!Left(x, y, v.errors, plain, list)
  <2>1. ReadingOk(opt, plain)
    BY <1>2, ParseAndAddBagOk
  <2>2. AddItemVariants(v, e, c, key, item, plain) \in {plain, fold}
    BY DEF AddItemVariants, FoldLeft, MapThenFoldSet, ItemOp, ItemFold!Left, Max
  <2>3. AddItem(v, e, c, key, item) = AddItemVariants(v, e, c, key, item, plain)
    BY <1>2 DEF AddItem
  <2>4. n \in Nat /\ DOMAIN list = 1..n
    BY VariantsIsList DEF IsList
  <2> HIDE DEF plain, list, n
  <2>5. ASSUME NEW u, ReadingOk(opt, u), NEW m
        PROVE  ReadingOk(opt, ItemOp(x, y, v.errors, u, m))
    <3> DEFINE w == [u EXCEPT !.errors = v.errors]
    <3>1. ReadingOk(opt, w)
      BY <2>5, StatusOk
    <3> HIDE DEF w
    <3>2. ReadingOk(opt, ParseAndAddBag(w, e, c, key, item, m))
      BY <1>2, <3>1, ParseAndAddBagOk
    <3> QED BY <3>2 DEF ItemOp, w
  <2>6. ItemGood(x, y, v.errors, plain)
    BY <2>1 DEF ItemGood
  <2>7. \A acc : \A i \in 1..n : ItemGood(x, y, v.errors, acc) =>
                                   ItemGood(x, y, v.errors, ItemOp(x, y, v.errors, acc, list[i]))
    BY <2>5 DEF ItemGood
  <2>8. ReadingOk(opt, fold)
    <3> HIDE DEF x, y
    <3>1. ItemGood(x, y, v.errors, ItemFold!Left(x, y, v.errors, plain, list))
      BY <2>4, <2>6, <2>7, ItemFold!LeftKeeps, SmallestNumber
    <3> QED BY <3>1 DEF ItemGood, x
  <2> HIDE DEF fold
  <2> QED BY <2>1, <2>2, <2>3, <2>8
<1> QED BY <1>1, <1>2

BagOp(e, c, opt, u, i) == AddItem(u, e, c, BagKey(c, e.children[i], i), e.children[i])
BagGood(e, c, opt, u) == ReadingOk(opt, u)
BagFold == INSTANCE FoldFacts WITH Op <- BagOp, Good <- BagGood

LEMMA BagTagOk ==
  ASSUME NEW opt, NEW v, ReadingOk(opt, v), NEW e, TagOk(e), "children" \in DOMAIN e, NEW c
  PROVE  ReadingOk(opt, Bag(v, e, c))
<1> DEFINE parent == ParentOf(e)
           replace == Of(c, "replace", FALSE)
           t == StartBag(v.t, c.type, e.name, parent, v.config, v.overwrite, replace)
           n == Len(e.children)
           list == [i \in DOMAIN e.children |-> i]
           start == With(v, t)
           fold == BagFold!Left(e, c, opt, start, list)
<1>1. n \in Nat /\ DOMAIN e.children = 1..n
  BY DEF TagOk, IsList
<1>2. ReadingOk(opt, start)
  <2>1. IsRef(parent)
    BY ParentIsRef
  <2> HIDE DEF parent, replace
  <2>2. Tab("early", opt, t)
    BY <2>1, StartBagTab DEF ReadingOk
  <2> HIDE DEF t
  <2> QED BY <2>2, WithOk
<1>3. Bag(v, e, c) \in {Bad([v EXCEPT !.t = Fail(@)]), fold}
  BY DEF Bag, FoldLeft, MapThenFoldSet, BagOp, BagFold!Left, Max
<1>4. ReadingOk(opt, Bad([v EXCEPT !.t = Fail(@)]))
  BY StatusOk
<1>5. DOMAIN list = 1..n /\ \A i \in 1..n : list[i] = i
  BY <1>1
<1>6. ASSUME NEW u, ReadingOk(opt, u), NEW i \in 1..n
      PROVE  ReadingOk(opt, BagOp(e, c, opt, u, i))
  <2> DEFINE item == e.children[i]
             key == BagKey(c, item, i)
  <2>1. item.tag = "item" => Len(key) = 2
    <3>1. item.tag = "item" /\ "name" \in DOMAIN item => Len(item.name) = 2
      BY <1>1 DEF TagOk
    <3>2. \A x : Len(Key(x)) = 2
      BY DEF Key
    <3> HIDE DEF item
    <3> QED BY <3>1, <3>2 DEF BagKey, Of, Has
  <2> HIDE DEF item, key
  <2>2. ReadingOk(opt, AddItem(u, e, c, key, item))
    BY <1>6, <2>1, AddItemOk
  <2> QED BY <2>2 DEF BagOp, item, key
<1> HIDE DEF start, list, n
<1>7. BagGood(e, c, opt, start)
  BY <1>2 DEF BagGood
<1>8. \A acc : \A i \in 1..n : BagGood(e, c, opt, acc) => BagGood(e, c, opt, BagOp(e, c, opt, acc, list[i]))
  BY <1>5, <1>6 DEF BagGood
<1>9. ReadingOk(opt, fold)
  <2>1. BagGood(e, c, opt, BagFold!Left(e, c, opt, start, list))
    BY <1>1, <1>5, <1>7, <1>8, BagFold!LeftKeeps, SmallestNumber
  <2> QED BY <2>1 DEF BagGood
<1> HIDE DEF fold
<1> QED BY <1>3, <1>4, <1>9

LEMMA CompileTagOk ==
  ASSUME NEW opt, NEW v, ReadingOk(opt, v), NEW e, TagOk(e)
  PROVE  ReadingOk(opt, CompileTag(v, e))
<1> DEFINE a == WithAttribute(v, CompileAttribute(v.t, e, FALSE))
           l == AddLocalization(v, e)
           i1 == Item(e)
           s1 == StringTag(v, e)
           p1 == Plain(e)
           b1 == BagTag(v, e)
<1>1. \/ CompileTag(v, e) = v \/ CompileTag(v, e) = Public(v, e) \/ CompileTag(v, e) = PublicPadding(v, e)
      \/ CompileTag(v, e) = PrivateSymbols(v, e) \/ CompileTag(v, e) = JavaSymbol(v, e)
      \/ CompileTag(v, e) = AddResource(v, e) \/ CompileTag(v, e) = a
      \/ CompileTag(v, e) = Entry(v, e, i1) \/ CompileTag(v, e) = Entry(l, e, s1) \/ CompileTag(v, e) = Entry(v, e, p1)
      \/ CompileTag(v, e) = Stop([v EXCEPT !.t = Fail(@)])
      \/ e.tag = "declare-styleable" /\ CompileTag(v, e) = DeclareStyleable(v, e)
      \/ e.tag \in WithChildren /\ CompileTag(v, e) = Bag(v, e, b1)
  <2> DEFINE wrong == Stop([v EXCEPT !.t = Fail(@)])
             plain == DOMAIN PlainFormat
             pu == Public(v, e)
             pp == PublicPadding(v, e)
             ps == PrivateSymbols(v, e)
             js == JavaSymbol(v, e)
             ar == AddResource(v, e)
             ds == DeclareStyleable(v, e)
             ei == Entry(v, e, i1)
             es == Entry(l, e, s1)
             ep == Entry(v, e, p1)
             bg == Bag(v, e, b1)
             tag == e.tag
             stop == v.stop
  <2>1. CompileTag(v, e) =
          CASE stop \/ tag \in {"skip", "eat-comment"} -> v
            [] tag = "public" -> pu
            [] tag = "public-padding" -> pp
            [] tag = "private-symbols" -> ps
            [] tag = "java-symbol" -> js
            [] tag = "add-resource" -> ar
            [] tag = "declare-styleable" -> ds
            [] tag = "attr" -> a
            [] tag = "item" -> ei
            [] tag = "string" -> es
            [] tag \in plain -> ep
            [] tag \in {"bag", "style", "plurals", "array", "string-array", "integer-array"} -> bg
            [] OTHER -> wrong
    BY DEF CompileTag
  <2> HIDE DEF wrong, plain, pu, pp, ps, js, ar, ds, ei, es, ep, bg, a, tag, stop
  <2>2. \/ CompileTag(v, e) \in {v, pu, pp, ps, js, ar, a, ei, es, ep, wrong}
        \/ tag = "declare-styleable" /\ CompileTag(v, e) = ds
        \/ tag \in WithChildren /\ CompileTag(v, e) = bg
    BY <2>1 DEF WithChildren
  <2> QED BY <2>2 DEF wrong, pu, pp, ps, js, ar, ds, ei, es, ep, bg, tag
<1>2. ReadingOk(opt, a)
  <2>1. "children" \in DOMAIN e => IsList(e.children)
    BY DEF TagOk
  <2> QED BY <2>1, DeclaredOk
<1>3. ReadingOk(opt, l)
  BY AddLocalizationOk
<1> HIDE DEF a, l, i1, s1, p1, b1
<1>4. ReadingOk(opt, Public(v, e)) /\ ReadingOk(opt, PublicPadding(v, e))
  BY PublicTagOk, PublicPaddingOk
<1>5. ReadingOk(opt, PrivateSymbols(v, e)) /\ ReadingOk(opt, JavaSymbol(v, e)) /\ ReadingOk(opt, AddResource(v, e))
  BY SymbolsOk, AddResourceOk
<1>6. ReadingOk(opt, Entry(v, e, i1)) /\ ReadingOk(opt, Entry(l, e, s1)) /\ ReadingOk(opt, Entry(v, e, p1))
  BY <1>3, EntryTagOk
<1>7. ReadingOk(opt, Stop([v EXCEPT !.t = Fail(@)]))
  BY StatusOk
<1>8. e.tag = "declare-styleable" => ReadingOk(opt, DeclareStyleable(v, e))
  BY DeclareStyleableOk DEF TagOk, WithChildren
<1>9. e.tag \in WithChildren => ReadingOk(opt, Bag(v, e, b1))
  BY BagTagOk DEF TagOk
<1> QED BY <1>1, <1>2, <1>4, <1>5, <1>6, <1>7, <1>8, <1>9

TagOp(p, q, r, v, e) == CompileTag([v EXCEPT !.t = Good(@)], e)
TagGood(opt, q, r, v) == ReadingOk(opt, v)
TagFold == INSTANCE FoldFacts WITH Op <- TagOp, Good <- TagGood

\* A values file leaves the table as it should be.
LEMMA CompileResourceFileTab ==
  ASSUME NEW opt, NEW t, Tab("early", opt, t), NEW sym, NEW loc, NEW file, ReadOk(file), NEW overwrite
  PROVE  Tab("early", opt, CompileResourceFile(t, sym, loc, file, overwrite).t)
<1> DEFINE start == [t |-> Good(t), sym |-> sym, loc |-> loc, next |-> << >>, skipped |-> {},
                     errors |-> FALSE, stop |-> ~file.wellFormed,
                     config |-> file.config, translatable |-> file.translatable,
                     overwrite |-> overwrite]
           n == Len(file.tags)
           fold == TagFold!Left(opt, 0, 0, start, file.tags)
<1>1. n \in Nat /\ DOMAIN file.tags = 1..n /\ \A i \in 1..n : TagOk(file.tags[i])
  BY DEF ReadOk, FileOk, IsList
<1>2. ReadingOk(opt, start)
  <2>1. Tab("early", opt, Good(t))
    BY FailTab
  <2> HIDE DEF Good
  <2> QED BY <2>1 DEF ReadingOk, ValuesFields, ReadOk
<1>3. CompileResourceFile(t, sym, loc, file, overwrite) \in {start, EndOfFile(fold)}
  BY DEF CompileResourceFile, FoldLeft, MapThenFoldSet, TagOp, TagFold!Left, Max
<1>4. ASSUME NEW u, ReadingOk(opt, u), NEW i \in 1..n
      PROVE  ReadingOk(opt, TagOp(opt, 0, 0, u, file.tags[i]))
  <2> DEFINE w == [u EXCEPT !.t = Good(@)]
  <2>1. Tab("early", opt, Good(u.t))
    BY <1>4, FailTab DEF ReadingOk
  <2>2. ReadingOk(opt, w)
    <3> HIDE DEF Good
    <3> QED BY <1>4, <2>1 DEF ReadingOk, ValuesFields
  <2> HIDE DEF w
  <2>3. ReadingOk(opt, CompileTag(w, file.tags[i]))
    BY <1>1, <2>2, CompileTagOk
  <2> QED BY <2>3 DEF TagOp, w
<1> HIDE DEF start, n
<1>5. TagGood(opt, 0, 0, start)
  BY <1>2 DEF TagGood
<1>6. \A acc : \A i \in 1..n : TagGood(opt, 0, 0, acc) => TagGood(opt, 0, 0, TagOp(opt, 0, 0, acc, file.tags[i]))
  BY <1>4 DEF TagGood
<1>7. ReadingOk(opt, fold)
  <2>1. TagGood(opt, 0, 0, TagFold!Left(opt, 0, 0, start, file.tags))
    BY <1>1, <1>5, <1>6, TagFold!LeftKeeps, SmallestNumber
  <2> QED BY <2>1 DEF TagGood
<1> HIDE DEF fold
<1>8. EndOfFile(fold).t = fold.t
  BY <1>7 DEF EndOfFile, ReadingOk, ValuesFields
<1> QED BY <1>2, <1>3, <1>7, <1>8 DEF ReadingOk

-----------------------------------------------------------------------------
(* assignResourceIds *)

LEMMA FiniteImage ==
  ASSUME NEW S, IsFiniteSet(S), NEW f
  PROVE  IsFiniteSet({f[x] : x \in S})
<1> DEFINE T == {f[x] : x \in S}
           g == [x \in S |-> f[x]]
<1>1. g \in Surjection(S, T)
  BY DEF Surjection
<1> HIDE DEF T, g
<1>2. IsFiniteSet(T)
  BY <1>1, FS_Surjection
<1> QED BY <1>2 DEF T

LEMMA FiniteMax ==
  ASSUME NEW S \in SUBSET Nat, IsFiniteSet(S), S # {}
  PROVE  \E n \in S : \A m \in S : m <= n
<1> DEFINE HasTop(T) == \E n \in T : \A m \in T : m <= n
           Wrong == {k \in Nat : \E T \in SUBSET S : T # {} /\ Cardinality(T) = k /\ ~HasTop(T)}
<1>1. \A T \in SUBSET S : IsFiniteSet(T) /\ Cardinality(T) \in Nat
  BY FS_Subset, FS_CardinalityType
<1>2. Wrong = {}
  <2> SUFFICES ASSUME Wrong # {} PROVE FALSE
    OBVIOUS
  <2>1. PICK k \in Wrong : \A j \in Wrong : k <= j
    <3>1. Wrong \in SUBSET Nat
      OBVIOUS
    <3> HIDE DEF Wrong
    <3> QED BY <3>1, SmallestNumber
  <2>2. PICK T \in SUBSET S : T # {} /\ Cardinality(T) = k /\ ~HasTop(T)
    BY <2>1
  <2>3. PICK x \in T : TRUE
    BY <2>2
  <2> DEFINE U == T \ {x}
  <2>4. IsFiniteSet(T) /\ Cardinality(T) \in Nat /\ Cardinality(U) = Cardinality(T) - 1 /\ Cardinality(U) \in Nat
        /\ U \in SUBSET S
    <3>1. Cardinality(U) = Cardinality(T) - 1
      BY <1>1, <2>3, FS_RemoveElement
    <3> QED BY <1>1, <2>2, <3>1
  <2>5. CASE U = {}
    <3>1. T = {x} /\ x \in Nat
      BY <2>2, <2>3, <2>5
    <3>2. HasTop(T)
      BY <3>1
    <3> QED BY <2>2, <3>2
  <2>6. CASE U # {}
    <3>1. Cardinality(U) \notin Wrong
      <4>1. k \in Nat /\ Cardinality(U) = k - 1
        BY <2>1, <2>2, <2>4
      <4> HIDE DEF Wrong, U
      <4> QED BY <2>1, <4>1
    <3>2. HasTop(U)
      BY <2>4, <2>6, <3>1
    <3>3. PICK n \in U : \A m \in U : m <= n
      BY <3>2
    <3>4. x \in Nat /\ n \in Nat /\ \A m \in T : m \in Nat
      BY <2>2, <2>3
    <3>5. HasTop(T)
      <4>1. CASE x <= n
        BY <3>3, <4>1
      <4>2. CASE n <= x
        <5>1. \A m \in T : m <= x
          BY <3>3, <3>4, <4>2
        <5> QED BY <5>1
      <4> QED BY <3>4, <4>1, <4>2
    <3> QED BY <2>2, <3>5
  <2> QED BY <2>5, <2>6
<1>3. Cardinality(S) \notin Wrong /\ Cardinality(S) \in Nat
  BY <1>1, <1>2
<1>4. HasTop(S)
  BY <1>3
<1> QED BY <1>4

LEMMA PlaceIsList ==
  ASSUME NEW at, NEW others, NEW size \in Nat
  PROVE  IsList(Place(at, others, size))
<1> DEFINE s == Place(at, others, size)
<1>1. s = [i \in 1..size |-> s[i]]
  BY DEF Place
<1> HIDE DEF s
<1>2. IsList(s)
  BY <1>1, FunctionIsList
<1> QED BY <1>2 DEF s

LEMMA ApplyTypeOrderTab ==
  ASSUME NEW opt, NEW t, Tab("early", opt, t)
  PROVE  Tab("early", opt, ApplyPublicTypeOrder(t))
<1> DEFINE at == t.pubType
           sizes == {Len(t.types)} \cup {at[x] : x \in DOMAIN at}
           size == CHOOSE n \in sizes : \A m \in sizes : m <= n
           types == Place(at, SelectSeq(t.types, LAMBDA x : x \notin DOMAIN at), size)
           u == [t EXCEPT !.ok = TRUE, !.types = types]
<1>1. DOMAIN t = TableFields /\ IsFiniteSet(DOMAIN at) /\ (\A x \in DOMAIN at : at[x] \in Nat) /\ Len(t.types) \in Nat
  BY DEF Tab, TableOk, IsList
<1>2. ApplyPublicTypeOrder(t) \in {Fail(t), u}
  BY DEF ApplyPublicTypeOrder
<1>3. size \in Nat
  <2> DEFINE S == {at[x] : x \in DOMAIN at}
  <2>1. IsFiniteSet(S)
    <3> HIDE DEF at
    <3> QED BY <1>1, FiniteImage
  <2>2. sizes = S \cup {Len(t.types)}
    OBVIOUS
  <2>3. IsFiniteSet(sizes)
    <3> HIDE DEF S, sizes
    <3> QED BY <2>1, <2>2, FS_AddElement
  <2>4. sizes \in SUBSET Nat /\ sizes # {}
    BY <1>1
  <2>5. \E n \in sizes : \A m \in sizes : m <= n
    <3> HIDE DEF sizes
    <3> QED BY <2>3, <2>4, FiniteMax
  <2>6. size \in sizes
    <3> HIDE DEF sizes
    <3> QED BY <2>5
  <2> QED BY <2>4, <2>6
<1>4. IsList(types)
  <2> DEFINE others == SelectSeq(t.types, LAMBDA x : x \notin DOMAIN at)
  <2> HIDE DEF others, size, at
  <2>1. IsList(Place(at, others, size))
    BY <1>3, PlaceIsList
  <2> QED BY <2>1 DEF others
<1> HIDE DEF types
<1>5. /\ DOMAIN u = TableFields /\ u.types = types /\ u.order = t.order
      /\ u.pubType = t.pubType /\ u.entries = t.entries /\ u.cache = t.cache /\ u.work = t.work /\ u.opt = t.opt
  BY <1>1 DEF TableFields
<1> HIDE DEF u
<1>6. Tab("early", opt, u)
  BY <1>4, <1>5 DEF Tab, TableOk
<1> QED BY <1>2, <1>6, FailTab

LEMMA OrderTab ==
  ASSUME NEW c, NEW opt, NEW t, Tab(c, opt, t), NEW u, DOMAIN u = TableFields,
         u.types = t.types, \A x \in DOMAIN u.order : IsList(u.order[x]), u.pubType = t.pubType, u.entries = t.entries,
         u.cache = t.cache, u.work = t.work, u.opt = t.opt
  PROVE  Tab(c, opt, u)
BY DEF Tab, TableOk, Clean, IsMinSdkVersionLOrAbove

LEMMA ApplyEntryOrderTab ==
  ASSUME NEW opt, NEW t, Tab("early", opt, t), NEW type
  PROVE  Tab("early", opt, ApplyPublicEntryOrder(t, type))
<1> DEFINE names == {k[2] : k \in {p \in DOMAIN t.pub : p[1] = type}}
           at == [n \in names |-> t.pub[<<type, n>>][3] + 1]
           list == t.order[type]
           placed == Place(at, SelectSeq(list, LAMBDA x : x \notin names), Len(list))
           order == [t.order EXCEPT ![type] = placed]
           public == t.isPublic \cup {<<type, n>> : n \in names}
           u == [t EXCEPT !.ok = TRUE, !.order = order, !.isPublic = public]
<1>1. ApplyPublicEntryOrder(t, type) \in {Fail(t), u}
  BY DEF ApplyPublicEntryOrder
<1>2. DOMAIN t = TableFields /\ \A x \in DOMAIN t.order : IsList(t.order[x])
  BY DEF Tab, TableOk
<1>3. type \in DOMAIN t.order => IsList(placed)
  <2> DEFINE others == SelectSeq(list, LAMBDA x : x \notin names)
  <2> SUFFICES ASSUME type \in DOMAIN t.order PROVE IsList(placed)
    OBVIOUS
  <2>1. Len(list) \in Nat
    BY <1>2 DEF IsList
  <2> HIDE DEF others, at, list
  <2>2. IsList(Place(at, others, Len(list)))
    BY <2>1, PlaceIsList
  <2> QED BY <2>2 DEF others
<1> HIDE DEF placed
<1>4. \A x \in DOMAIN order : IsList(order[x])
  BY <1>2, <1>3
<1> HIDE DEF order, public
<1>5. /\ DOMAIN u = TableFields /\ u.types = t.types /\ u.order = order
      /\ u.pubType = t.pubType /\ u.entries = t.entries /\ u.cache = t.cache /\ u.work = t.work /\ u.opt = t.opt
  BY <1>2 DEF TableFields
<1> HIDE DEF u
<1>6. Tab("early", opt, u)
  BY <1>4, <1>5, OrderTab
<1> QED BY <1>1, <1>6, FailTab

LEMMA OkTab == ASSUME NEW c, NEW opt, NEW t, Tab(c, opt, t), NEW ok PROVE Tab(c, opt, [t EXCEPT !.ok = ok])
<1> DEFINE u == [t EXCEPT !.ok = ok]
<1>1. DOMAIN t = TableFields
  BY DEF Tab, TableOk
<1>2. /\ DOMAIN u = TableFields /\ u.types = t.types /\ u.order = t.order
      /\ u.pubType = t.pubType /\ u.entries = t.entries /\ u.cache = t.cache /\ u.work = t.work /\ u.opt = t.opt
  BY <1>1 DEF TableFields
<1> HIDE DEF u
<1>3. Tab(c, opt, u)
  BY <1>2, SameTab
<1> QED BY <1>3 DEF u

OrderOp(p, q, r, u, x) == IF x = Hole THEN u ELSE [ApplyPublicEntryOrder(u, x) EXCEPT !.ok = u.ok /\ @]
OrderGood(opt, q, r, u) == Tab("early", opt, u)
OrderFold == INSTANCE FoldFacts WITH Op <- OrderOp, Good <- OrderGood

LEMMA OrderEntriesTab ==
  ASSUME NEW opt, NEW t, Tab("early", opt, t)
  PROVE  Tab("early", opt, OrderEntries(t))
<1> DEFINE n == Len(t.types)
<1>1. n \in Nat /\ DOMAIN t.types = 1..n
  BY DEF Tab, TableOk, IsList
<1>2. OrderEntries(t) = OrderFold!Left(opt, 0, 0, t, t.types)
  BY DEF OrderEntries, FoldLeft, MapThenFoldSet, OrderOp, OrderFold!Left, Max
<1>3. ASSUME NEW u, Tab("early", opt, u), NEW x
      PROVE  Tab("early", opt, OrderOp(opt, 0, 0, u, x))
  <2> DEFINE v == ApplyPublicEntryOrder(u, x)
             ok == u.ok /\ v.ok
  <2>1. Tab("early", opt, v)
    BY <1>3, ApplyEntryOrderTab
  <2>2. OrderOp(opt, 0, 0, u, x) \in {u, [v EXCEPT !.ok = ok]}
    BY DEF OrderOp
  <2> HIDE DEF v, ok
  <2>3. Tab("early", opt, [v EXCEPT !.ok = ok])
    BY <2>1, OkTab
  <2> QED BY <1>3, <2>2, <2>3
<1> HIDE DEF n
<1>4. OrderGood(opt, 0, 0, t)
  BY DEF OrderGood
<1>5. \A acc : \A i \in 1..n : OrderGood(opt, 0, 0, acc) => OrderGood(opt, 0, 0, OrderOp(opt, 0, 0, acc, t.types[i]))
  BY <1>3 DEF OrderGood
<1>6. OrderGood(opt, 0, 0, OrderFold!Left(opt, 0, 0, t, t.types))
  BY <1>1, <1>4, <1>5, OrderFold!LeftKeeps, SmallestNumber
<1> QED BY <1>2, <1>6 DEF OrderGood

-----------------------------------------------------------------------------
(* assignResourceIds: the ids of what a bag declares and of its slots. *)

GenerateOp(p, q, r, u, b) ==
    IF HasBagOrEntry(u, b[1], "id", b[2]) THEN u
    ELSE AddEntry(u, "id", b[2], FalseValue, DefaultConfig, {"any"}, FALSE, FALSE)
GenerateGood(opt, q, r, u) == Tab("early", opt, u)
GenerateFold == INSTANCE FoldFacts WITH Op <- GenerateOp, Good <- GenerateGood

LEMMA GenerateAttributesTab ==
  ASSUME NEW opt, NEW t, Tab("early", opt, t)
  PROVE  Tab("early", opt, GenerateAttributes(t))
<1> DEFINE bags == [k \in DOMAIN t.entries |-> DOMAIN t.entries[k].bag]
           all == UNION {DOMAIN t.entries[k].bag : k \in DOMAIN t.entries}
           pairs == {<<k, b>> : k \in DOMAIN t.entries, b \in all}
           new == {x[2] : x \in {y \in pairs : /\ y[2] \in DOMAIN t.entries[y[1]].bag
                                               /\ t.entries[y[1]].bag[y[2]].isId}}
<1>1. IsFiniteSet(DOMAIN t.entries) /\ \A k \in DOMAIN t.entries : IsFiniteSet(DOMAIN t.entries[k].bag)
  BY DEF Tab, TableOk, EntryOk
<1>2. IsFiniteSet(all)
  <2> DEFINE S == {bags[k] : k \in DOMAIN t.entries}
  <2>1. all = UNION S /\ \A k \in DOMAIN t.entries : IsFiniteSet(bags[k])
    BY <1>1
  <2> HIDE DEF bags, all
  <2>2. IsFiniteSet(S)
    BY <1>1, FiniteImage
  <2>3. \A T \in S : IsFiniteSet(T)
    BY <2>1
  <2> HIDE DEF S
  <2> QED BY <2>1, <2>2, <2>3, FS_UNION
<1>3. new \subseteq all
  OBVIOUS
<1>4. IsFiniteSet(new)
  <2> HIDE DEF new, all
  <2> QED BY <1>2, <1>3, FS_Subset
<1>5. GenerateAttributes(t) = GenerateFold!OfSet(opt, 0, 0, t, new)
  BY DEF GenerateAttributes, FoldSet, MapThenFoldSet, GenerateOp, GenerateFold!OfSet
<1> HIDE DEF new
<1>6. ASSUME NEW u, Tab("early", opt, u), NEW b
      PROVE  Tab("early", opt, GenerateOp(opt, 0, 0, u, b))
  <2> DEFINE any == {"any"}
             w == AddEntry(u, "id", b[2], FalseValue, DefaultConfig, any, FALSE, FALSE)
  <2>1. Tab("early", opt, w)
    BY <1>6, AddEntryTab, DefaultHasSdk
  <2>2. GenerateOp(opt, 0, 0, u, b) \in {u, w}
    BY DEF GenerateOp
  <2> HIDE DEF w
  <2> QED BY <1>6, <2>1, <2>2
<1>7. GenerateGood(opt, 0, 0, t)
  BY DEF GenerateGood
<1>8. \A acc : \A b \in new : GenerateGood(opt, 0, 0, acc) => GenerateGood(opt, 0, 0, GenerateOp(opt, 0, 0, acc, b))
  BY <1>6 DEF GenerateGood
<1>9. GenerateGood(opt, 0, 0, GenerateFold!OfSet(opt, 0, 0, t, new))
  <2>1. GenerateFold!Tame(new)
    BY <1>4, FiniteIsTame DEF Tame, GenerateFold!Tame
  <2> QED BY <2>1, <1>7, <1>8, GenerateFold!SetKeeps
<1> QED BY <1>5, <1>9 DEF GenerateGood

LEMMA AssignIndicesTab ==
  ASSUME NEW c, NEW opt, NEW t, Tab(c, opt, t)
  PROVE  Tab(c, opt, AssignIndices(t)) /\ AssignIndices(t).entries = t.entries
<1> DEFINE u == AssignIndices(t)
<1>1. DOMAIN t = TableFields
  BY DEF Tab, TableOk
<1>2. \A i, e : LET v == [t EXCEPT !.index = i, !.entryIndex = e]
                IN  /\ DOMAIN v = TableFields /\ v.types = t.types /\ v.order = t.order
                    /\ v.pubType = t.pubType /\ v.entries = t.entries /\ v.cache = t.cache /\ v.work = t.work
                    /\ v.opt = t.opt
  BY <1>1 DEF TableFields
<1>3. /\ DOMAIN u = TableFields /\ u.types = t.types /\ u.order = t.order
      /\ u.pubType = t.pubType /\ u.entries = t.entries /\ u.cache = t.cache /\ u.work = t.work /\ u.opt = t.opt
  BY <1>2 DEF AssignIndices
<1> HIDE DEF u
<1>4. Tab(c, opt, u)
  BY <1>3, SameTab
<1> QED BY <1>3, <1>4 DEF u

\* Tables with the same entries in the end.
SameKeys(opt, dom, t) == Tab("early", opt, t) /\ DOMAIN t.entries = dom

LEMMA KnownKeys ==
  ASSUME NEW opt, NEW dom, NEW r, SameKeys(opt, dom, r.t)
  PROVE  SameKeys(opt, dom, Known(r))
<1>1. Fail(r.t).entries = r.t.entries
  BY DEF Fail, SameKeys, Tab, TableOk, TableFields
<1>2. Tab("early", opt, Fail(r.t))
  BY FailTab DEF SameKeys
<1> HIDE DEF Fail
<1> QED BY <1>1, <1>2 DEF Known, SameKeys

LEMMA GetResIdEntries ==
  ASSUME NEW opt, NEW t, Tab("early", opt, t), NEW ref, NEW onlyPublic
  PROVE  GetResId(t, ref, onlyPublic).t.entries = t.entries
BY DEF GetResId, LookedUp, Resolved, Tab, TableOk, TableFields

LEMMA ParentIdKeys ==
  ASSUME NEW opt, NEW dom, NEW t, SameKeys(opt, dom, t), NEW key \in dom
  PROVE  SameKeys(opt, dom, AssignParentId(t, key, t.entries[key]))
<1> DEFINE e == t.entries[key]
           r == GetResId(t, e.parent, TRUE)
           k == Known(r)
           f == [k.entries[key] EXCEPT !.parentId = r.id]
           u == [k EXCEPT !.entries = [k.entries EXCEPT ![key] = f]]
<1>1. IsRef(e.parent)
  BY DEF SameKeys, Tab, TableOk, EntryOk
<1>2. AssignParentId(t, key, e) \in {t, u}
  BY DEF AssignParentId, WithParentId
<1> HIDE DEF e
<1>3. SameKeys(opt, dom, r.t)
  <2>1. Tab("early", opt, r.t)
    BY <1>1, GetResIdTab DEF SameKeys
  <2>2. r.t.entries = t.entries
    BY GetResIdEntries DEF SameKeys
  <2> HIDE DEF r
  <2> QED BY <2>1, <2>2 DEF SameKeys
<1> HIDE DEF r
<1>4. SameKeys(opt, dom, k)
  BY <1>3, KnownKeys
<1> HIDE DEF k
<1>5. DOMAIN k = TableFields /\ EntryOk(k.opt.included, k.entries[key])
  BY <1>4 DEF SameKeys, Tab, TableOk
<1>6. EntryOk(k.opt.included, f)
  BY <1>5 DEF EntryOk
<1> HIDE DEF f
<1>7. /\ DOMAIN u = TableFields /\ u.types = k.types /\ u.order = k.order
      /\ u.pubType = k.pubType /\ u.entries = [k.entries EXCEPT ![key] = f] /\ u.cache = k.cache
      /\ u.work = k.work /\ u.opt = k.opt
  BY <1>5 DEF TableFields
<1> HIDE DEF u
<1>8. Tab("early", opt, u)
  <2>1. Tab("early", opt, k)
    BY <1>4 DEF SameKeys
  <2> QED BY <1>6, <1>7, <2>1, ReplaceTab
<1>9. SameKeys(opt, dom, u)
  BY <1>4, <1>7, <1>8 DEF SameKeys
<1> QED BY <1>2, <1>9 DEF e

LEMMA WithKeyIdKeys ==
  ASSUME NEW opt, NEW dom, NEW r, SameKeys(opt, dom, r.t), NEW key \in dom, NEW b,
         Len(b) = 2 => KeyOk(opt.included, b, r.id)
  PROVE  SameKeys(opt, dom, WithKeyId(key, b, r))
<1> DEFINE k == Known(r)
           e == k.entries[key]
           bag == [e.bag EXCEPT ![b] = [e.bag[b] EXCEPT !.keyId = r.id]]
           u == [k EXCEPT !.entries = [k.entries EXCEPT ![key] = [k.entries[key] EXCEPT !.bag = bag]]]
<1>1. WithKeyId(key, b, r) = u
  BY DEF WithKeyId
<1>2. SameKeys(opt, dom, k)
  BY KnownKeys
<1> HIDE DEF k
<1>3. DOMAIN k = TableFields /\ EntryOk(opt.included, e) /\ k.opt = opt
  BY <1>2 DEF SameKeys, Tab, TableOk
<1>4. IsFiniteSet(DOMAIN bag) /\ \A a \in DOMAIN bag : SlotOk(opt.included, a, bag[a])
  <2>1. DOMAIN bag = DOMAIN e.bag
    OBVIOUS
  <2>2. ASSUME NEW a \in DOMAIN e.bag
        PROVE  SlotOk(opt.included, a, bag[a])
    <3>1. SlotOk(opt.included, a, e.bag[a])
      BY <1>3 DEF EntryOk
    <3>2. CASE a = b
      <4> DEFINE x == [e.bag[a] EXCEPT !.keyId = r.id]
      <4>1. bag[a] = x
        BY <3>2
      <4>2. x.keyId = r.id /\ DOMAIN x = DOMAIN e.bag[a]
        BY <3>1 DEF SlotOk
      <4> HIDE DEF x
      <4> QED BY <3>1, <3>2, <4>1, <4>2 DEF SlotOk
    <3>3. CASE a # b
      <4>1. bag[a] = e.bag[a]
        BY <3>3
      <4> HIDE DEF bag
      <4> QED BY <3>1, <4>1
    <3> QED BY <3>2, <3>3
  <2> HIDE DEF bag
  <2> QED BY <1>3, <2>1, <2>2 DEF EntryOk
<1> HIDE DEF bag
<1>5. /\ DOMAIN u = TableFields /\ u.types = k.types /\ u.order = k.order
      /\ u.pubType = k.pubType /\ u.entries = [k.entries EXCEPT ![key] = [k.entries[key] EXCEPT !.bag = bag]]
      /\ u.cache = k.cache /\ u.work = k.work /\ u.opt = k.opt
  BY <1>3 DEF TableFields
<1> HIDE DEF u
<1>6. Tab("early", opt, u)
  <2>1. Tab("early", opt, k)
    BY <1>2 DEF SameKeys
  <2> HIDE DEF e
  <2> QED BY <1>3, <1>4, <1>5, <2>1, BagTab
<1>7. SameKeys(opt, dom, u)
  BY <1>2, <1>5, <1>6 DEF SameKeys
<1> QED BY <1>1, <1>7

LEMMA KeyIdKeys ==
  ASSUME NEW opt, NEW dom, NEW t, SameKeys(opt, dom, t), NEW key \in dom, NEW e, NEW b
  PROVE  SameKeys(opt, dom, AssignKeyId(t, key, e, b))
<1>1. CASE b[1] = "^"
  <2> DEFINE r == [id |-> b, t |-> t]
  <2>1. AssignKeyId(t, key, e, b) = WithKeyId(key, b, r)
    BY <1>1 DEF AssignKeyId
  <2>2. SameKeys(opt, dom, r.t) /\ r.id = b
    OBVIOUS
  <2>3. Len(b) = 2 => KeyOk(opt.included, b, r.id)
    BY DEF KeyOk, Internal
  <2> HIDE DEF r
  <2>4. SameKeys(opt, dom, WithKeyId(key, b, r))
    BY <2>2, <2>3, WithKeyIdKeys
  <2> QED BY <2>1, <2>4
<1>2. CASE b[1] # "^"
  <2> DEFINE type == IF e.bag[b].isId THEN "id" ELSE "attr"
             ref == <<b[1], type, b[2]>>
             r == GetResId(t, ref, TRUE)
  <2>1. AssignKeyId(t, key, e, b) = WithKeyId(key, b, r)
    BY <1>2 DEF AssignKeyId
  <2>2. IsRef(ref)
    BY DEF IsRef
  <2>3. ref[2] = "attr" => ref = <<b[1], "attr", b[2]>>
    OBVIOUS
  <2> HIDE DEF ref
  <2>4. Tab("early", opt, r.t) /\ Names1(opt.included, ref, TRUE, r.id)
    BY <2>2, GetResIdTab DEF SameKeys
  <2>5. r.t.entries = t.entries
    BY GetResIdEntries DEF SameKeys
  <2> HIDE DEF r
  <2>6. SameKeys(opt, dom, r.t)
    BY <2>4, <2>5 DEF SameKeys
  <2>7. KeyOk(opt.included, b, r.id)
    <3>1. IncludedOk(opt.included, opt.packageId)
      BY DEF SameKeys, Tab, TableOk
    <3>2. \A id \in LIds(opt.included) : \A s \in DOMAIN opt.included : opt.included[s].id = id => s[2] = "attr"
      BY <3>1, LIdsForeign
    <3> QED BY <1>2, <2>3, <2>4, <3>2 DEF Names1, KeyOk, Means
  <2>8. SameKeys(opt, dom, WithKeyId(key, b, r))
    BY <2>6, <2>7, WithKeyIdKeys
  <2> QED BY <2>1, <2>8
<1> QED BY <1>1, <1>2

KeyIdOp(x, key, e, u, b) == AssignKeyId(u, key, e, b)
KeyIdGood(x, key, e, u) == SameKeys(x.opt, x.dom, u)
KeyIdFold == INSTANCE FoldFacts WITH Op <- KeyIdOp, Good <- KeyIdGood

LEMMA BagIdsKeys ==
  ASSUME NEW opt, NEW dom, NEW t, SameKeys(opt, dom, t), NEW key \in dom
  PROVE  SameKeys(opt, dom, AssignBagIds(key, t))
<1> DEFINE e == t.entries[key]
           start == AssignParentId(t, key, e)
           x == [opt |-> opt, dom |-> dom]
           fold == KeyIdFold!OfSet(x, key, e, start, DOMAIN e.bag)
<1>1. SameKeys(opt, dom, start)
  BY ParentIdKeys
<1>2. IsFiniteSet(DOMAIN e.bag)
  BY DEF SameKeys, Tab, TableOk, EntryOk
<1>3. AssignBagIds(key, t) \in {t, fold}
  BY DEF AssignBagIds, FoldSet, MapThenFoldSet, KeyIdOp, KeyIdFold!OfSet
<1>4. x.opt = opt /\ x.dom = dom
  OBVIOUS
<1> HIDE DEF start, e, x
<1>5. KeyIdGood(x, key, e, start)
  BY <1>1, <1>4 DEF KeyIdGood
<1>6. ASSUME NEW u, KeyIdGood(x, key, e, u), NEW b
      PROVE  KeyIdGood(x, key, e, KeyIdOp(x, key, e, u, b))
  BY <1>4, <1>6, KeyIdKeys DEF KeyIdGood, KeyIdOp
<1>7. KeyIdGood(x, key, e, fold)
  <2>1. KeyIdFold!Tame(DOMAIN e.bag)
    BY <1>2, FiniteIsTame DEF Tame, KeyIdFold!Tame
  <2> QED BY <2>1, <1>5, <1>6, KeyIdFold!SetKeeps
<1> HIDE DEF fold
<1> QED BY <1>3, <1>4, <1>7 DEF KeyIdGood

AllOp(opt, dom, r, u, key) == AssignBagIds(key, u)
AllGood(opt, dom, r, u) == SameKeys(opt, dom, u)
AllFold == INSTANCE FoldFacts WITH Op <- AllOp, Good <- AllGood

\* Ids are assigned, and the id of a key that is one of an attribute of L is that of the attribute
\* the key names.
LEMMA AssignResourceIdsTab ==
  ASSUME NEW opt, NEW t, Tab("early", opt, t)
  PROVE  Tab("early", opt, AssignResourceIds(t))
<1> DEFINE typed == ApplyPublicTypeOrder(t)
           made == GenerateAttributes(typed)
           ordered == OrderEntries(made)
           at == AssignIndices(ordered)
           dom == DOMAIN at.entries
<1>1. Tab("early", opt, typed)
  BY ApplyTypeOrderTab
<1> HIDE DEF typed
<1>2. Tab("early", opt, made)
  BY <1>1, GenerateAttributesTab
<1> HIDE DEF made
<1>3. Tab("early", opt, ordered)
  BY <1>2, OrderEntriesTab
<1>4. AssignResourceIds(t) \in {Fail(ordered), AssignAllBags(at)}
  BY DEF AssignResourceIds, AssignTyped, AssignOrdered, typed, made
<1> HIDE DEF ordered
<1>5. Tab("early", opt, at)
  BY <1>3, AssignIndicesTab
<1> HIDE DEF at
<1>6. AssignAllBags(at) = AllFold!OfSet(opt, dom, 0, at, dom)
  BY DEF AssignAllBags, FoldSet, MapThenFoldSet, AllOp, AllFold!OfSet
<1>7. AllGood(opt, dom, 0, at) /\ IsFiniteSet(dom)
  BY <1>5 DEF AllGood, SameKeys, Tab, TableOk
<1> HIDE DEF dom
<1>8. ASSUME NEW u, AllGood(opt, dom, 0, u), NEW key \in dom
      PROVE  AllGood(opt, dom, 0, AllOp(opt, dom, 0, u, key))
  BY <1>8, BagIdsKeys DEF AllGood, AllOp
<1>9. AllGood(opt, dom, 0, AllFold!OfSet(opt, dom, 0, at, dom))
  <2>1. AllFold!Tame(dom)
    BY <1>7, FiniteIsTame DEF Tame, AllFold!Tame
  <2> QED BY <2>1, <1>7, <1>8, AllFold!SetKeeps
<1>10. Tab("early", opt, AssignAllBags(at))
  BY <1>6, <1>9 DEF AllGood, SameKeys
<1> QED BY <1>3, <1>4, <1>10, FailTab

-----------------------------------------------------------------------------
(* The files of a package: lists of them, after the filter and after the overlays. *)

LEMMA PartIsOk == ASSUME NEW group, GroupOk(group), NEW g, Part(g, group) PROVE GroupOk(g)
BY DEF GroupOk, Part

LEMMA FilterResOk ==
  ASSUME NEW a, Tidy(a), NEW entries, NEW preferred \in Nat
  PROVE  ResOk(Filter(a, entries, preferred).groups)
<1> DEFINE Left1(k) == IF k[1] \in {"values", "mipmap"} THEN a.groups[k] ELSE Pruned(entries, preferred, a.groups[k])
           groups == [k \in DOMAIN a.groups |-> Left1(k)]
<1>1. DOMAIN a = AssetFields /\ ResOk(a.groups)
  BY DEF Tidy
<1>2. Filter(a, entries, preferred).groups = groups
  BY <1>1 DEF Filter, AssetFields
<1>3. ASSUME NEW k \in DOMAIN a.groups PROVE GroupOk(Left1(k))
  <2> DEFINE group == a.groups[k]
             first == FirstPass(entries, group)
  <2>1. GroupOk(group)
    BY <1>1 DEF ResOk
  <2> HIDE DEF group
  <2>2. Part(first, group)
    BY <2>1, FirstPassShrinks DEF GroupOk
  <2>3. GroupOk(first)
    BY <2>1, <2>2, PartIsOk
  <2> HIDE DEF first
  <2>4. Part(SecondPass(preferred, first), first)
    BY <2>3, SecondPassKeeps DEF GroupOk
  <2>5. GroupOk(SecondPass(preferred, first))
    BY <2>3, <2>4, PartIsOk
  <2> QED BY <2>1, <2>3, <2>5 DEF Pruned, first, group
<1> HIDE DEF Left1
<1> QED BY <1>1, <1>2, <1>3 DEF ResOk

LEMMA AllReadIsList ==
  ASSUME NEW args, SourcesOk(args)
  PROVE  IsList(AllRead(args)) /\ AllRead(args) # << >>
<1> DEFINE over == SlurpOverlays(args, Patterns(args.ignore, args.env))
           base == <<SlurpBase(args, Patterns(args.ignore, args.env))>>
           m == IF Len(args.res) = 0 THEN 0 ELSE Len(args.res) - 1
<1>1. Len(args.res) \in Nat
  BY DEF SourcesOk, AreTrees, IsList
<1>2. m \in Nat /\ 1..(Len(args.res) - 1) = 1..m
  BY <1>1
<1>3. over = [i \in 1..m |-> over[i]]
  <2>1. over = [i \in 1..(Len(args.res) - 1) |-> over[i]]
    BY DEF SlurpOverlays
  <2> HIDE DEF over
  <2> QED BY <1>2, <2>1
<1> HIDE DEF over, m
<1>4. IsList(over)
  BY <1>2, <1>3, FunctionIsList
<1> DEFINE x == SlurpBase(args, Patterns(args.ignore, args.env))
           T == {x} \cup {over[i] : i \in 1..Len(over)}
<1>5. over \in Seq(T) /\ x \in T
  BY <1>4 DEF IsList
<1>6. base = <<x>>
  OBVIOUS
<1> HIDE DEF T, x, base
<1>7. base \in Seq(T) /\ Len(base) = 1
  BY <1>5, <1>6
<1>8. base \o over \in Seq(T) /\ Len(base \o over) = 1 + Len(over) /\ Len(over) \in Nat
  <2>1. base \o over \in Seq(T) /\ Len(base \o over) = Len(base) + Len(over)
    BY <1>5, <1>7, ConcatProperties
  <2>2. Len(over) \in Nat
    BY <1>5
  <2> QED BY <1>7, <2>1, <2>2
<1>9. IsList(base \o over) /\ base \o over # << >>
  <2>1. IsList(base \o over)
    BY <1>8, ListIsSeq
  <2>2. Len(base \o over) # 0
    BY <1>8
  <2>3. Len(<< >>) = 0
    OBVIOUS
  <2> QED BY <2>1, <2>2, <2>3
<1> QED BY <1>9 DEF AllRead, over, base, x

LEMMA FilesAreRead ==
  ASSUME NEW args, SourcesOk(args), SlurpFromArgs(args).ok
  PROVE  LET all == SlurpFromArgs(args).assets
         IN  IsList(all) /\ all # << >> /\ \A i \in DOMAIN all : ResOk(all[i].groups)
<1> DEFINE all == SlurpFromArgs(args).assets
           entries == WeakParse(args.filter).entries
           preferred == PreferredDensity(args)
           read == AllRead(args)
<1>1. DOMAIN all = DOMAIN read /\ \A i \in DOMAIN read : all[i] = Filter(read[i], entries, preferred)
  BY ReadForArgs
<1>2. preferred \in Nat
  BY PreferredIsNumber
<1>3. IsList(read) /\ read # << >> /\ \A i \in DOMAIN read : Tidy(read[i])
  BY AllReadIsList, AllReadTidy
<1>4. all = [i \in DOMAIN read |-> all[i]]
  <2>1. all = Slurped(args, WeakParse(args.filter), read).assets
    BY DEF SlurpFromArgs, AllRead
  <2> HIDE DEF all, read
  <2>2. Slurped(args, WeakParse(args.filter), read).assets =
          [i \in DOMAIN read |-> Filter(read[i], WeakParse(args.filter).entries, PreferredDensity(args))]
    BY DEF Slurped
  <2> QED BY <2>1, <2>2
<1> HIDE DEF all, read, entries, preferred
<1>5. \A i \in DOMAIN all : ResOk(all[i].groups)
  BY <1>1, <1>2, <1>3, FilterResOk
<1>6. IsList(all) /\ all # << >>
  <2>1. Len(read) \in Nat /\ DOMAIN read = 1..Len(read)
    BY <1>3 DEF IsList
  <2>2. IsList(all)
    BY <1>4, <2>1, FunctionIsList
  <2>3. all = << >> => read = << >>
    <3>1. SUFFICES ASSUME all = << >> PROVE read = << >>
      OBVIOUS
    <3>2. DOMAIN read = {}
      BY <1>1, <3>1, EmptyIsList
    <3>3. read = [i \in DOMAIN read |-> read[i]]
      BY <1>3, <2>1 DEF IsList
    <3> QED BY <3>2, <3>3
  <2> QED BY <1>3, <2>2, <2>3
<1> QED BY <1>5, <1>6 DEF all

LEMMA CollectResOk == ASSUME NEW a, ResOk(a.groups) PROVE ResOk(CollectFiles(a))
<1> DEFINE m == CollectFiles(a)
<1>1. DOMAIN m \subseteq DOMAIN a.groups /\ \A k \in DOMAIN m : m[k] = a.groups[k]
  BY DEF CollectFiles
<1> HIDE DEF m
<1>2. IsFiniteSet(DOMAIN m)
  BY <1>1, FS_Subset DEF ResOk
<1> QED BY <1>1, <1>2 DEF ResOk, m

OverlayOp(p, q, r, base, over) ==
    LET files == [k \in {g \in DOMAIN over : g[1] # "values"} |-> over[k]]
    IN  [k \in DOMAIN base \cup DOMAIN files |->
           IF k \notin DOMAIN files THEN base[k]
           ELSE IF k \notin DOMAIN base THEN files[k] ELSE Over(files[k], base[k])]
OverlayGood(p, q, r, base) == ResOk(base)
Overlay == INSTANCE FoldFacts WITH Op <- OverlayOp, Good <- OverlayGood

LEMMA OverlayStep ==
  ASSUME NEW base, ResOk(base), NEW over, ResOk(over)
  PROVE  ResOk(OverlayOp(0, 0, 0, base, over))
<1> DEFINE files == [k \in {g \in DOMAIN over : g[1] # "values"} |-> over[k]]
           Both(k) == Over(files[k], base[k])
           new == OverlayOp(0, 0, 0, base, over)
<1>1. DOMAIN files \subseteq DOMAIN over /\ \A k \in DOMAIN files : files[k] = over[k]
  OBVIOUS
<1>2. new = [k \in DOMAIN base \cup DOMAIN files |->
               IF k \notin DOMAIN files THEN base[k] ELSE IF k \notin DOMAIN base THEN files[k] ELSE Both(k)]
  BY DEF OverlayOp
<1> HIDE DEF files
<1>3. ResOk(files)
  BY <1>1, FS_Subset DEF ResOk
<1>4. ASSUME NEW k \in DOMAIN files, k \in DOMAIN base PROVE GroupOk(Both(k))
  <2>1. GroupOk(files[k]) /\ GroupOk(base[k])
    BY <1>3, <1>4 DEF ResOk
  <2> QED BY <2>1 DEF GroupOk, Over
<1> HIDE DEF Both, new
<1>5. IsFiniteSet(DOMAIN new)
  BY <1>2, <1>3, FS_Union DEF ResOk
<1>6. \A k \in DOMAIN new : k = <<k[1], k[2]>> /\ k[2] \in ToSet(LeafOrder)
  BY <1>2, <1>3 DEF ResOk
<1>7. \A k \in DOMAIN new : GroupOk(new[k])
  BY <1>2, <1>3, <1>4 DEF ResOk
<1> QED BY <1>5, <1>6, <1>7 DEF ResOk, new

LEMMA OverlaysOk ==
  ASSUME NEW list, IsList(list), list # << >>, \A i \in DOMAIN list : ResOk(list[i])
  PROVE  ResOk(ApplyFileOverlay(list))
<1> DEFINE rest == Tail(list)
           n == Len(rest)
<1>1. IsList(rest) /\ ResOk(Head(list)) /\ \A i \in DOMAIN rest : ResOk(rest[i])
  BY TailIsList
<1> HIDE DEF rest
<1>2. n \in Nat /\ DOMAIN rest = 1..n
  BY <1>1 DEF IsList
<1>3. ApplyFileOverlay(list) = Overlay!Left(0, 0, 0, Head(list), rest)
  BY DEF ApplyFileOverlay, FoldLeft, MapThenFoldSet, OverlayOp, Overlay!Left, Max, rest
<1>4. OverlayGood(0, 0, 0, Head(list))
  BY <1>1 DEF OverlayGood
<1>5. \A acc : \A i \in 1..n : OverlayGood(0, 0, 0, acc) => OverlayGood(0, 0, 0, OverlayOp(0, 0, 0, acc, rest[i]))
  BY <1>1, <1>2, OverlayStep DEF OverlayGood
<1>6. OverlayGood(0, 0, 0, Overlay!Left(0, 0, 0, Head(list), rest))
  <2> HIDE DEF n
  <2> QED BY <1>2, <1>4, <1>5, Overlay!LeftKeeps, SmallestNumber
<1> QED BY <1>3, <1>6 DEF OverlayGood

\* A list of files.
FileList(list) == IsList(list) /\ \A i \in DOMAIN list : ReadOk(list[i])

LEMMA GroupIsList ==
  ASSUME NEW g, GroupOk(g)
  PROVE  FileList([i \in DOMAIN Files(g) |-> g[Files(g)[i]]])
<1> DEFINE n == Cardinality(DOMAIN g)
           list == [i \in DOMAIN Files(g) |-> g[Files(g)[i]]]
<1>1. n \in Nat /\ DOMAIN Files(g) = 1..n /\ \A i \in 1..n : Files(g)[i] \in DOMAIN g
  BY FilesOfGroup DEF GroupOk
<1>2. list = [i \in 1..n |-> list[i]] /\ \A i \in 1..n : ReadOk(list[i])
  BY <1>1 DEF GroupOk
<1> HIDE DEF list, n
<1> QED BY <1>1, <1>2, FunctionIsList DEF FileList, list

LEMMA ResourceDirOk ==
  ASSUME NEW m, ResOk(m), NEW type
  PROVE  FileList(ResourceDir(m, type))
<1> DEFINE S == {k[2] : k \in {g \in DOMAIN m : g[1] = type}}
           order == [i \in 1..Cardinality(S) |-> AtPlace(LeafOrder, S, i)]
           Of1(leaf) == LET g == m[<<type, leaf>>] IN [i \in DOMAIN Files(g) |-> g[Files(g)[i]]]
           ss == [i \in DOMAIN order |-> Of1(order[i])]
           n == Cardinality(S)
<1>1. S \in SUBSET ToSet(LeafOrder) /\ IsOrder(LeafOrder)
  BY SourcesAssumption DEF ResOk
<1>2. ResourceDir(m, type) = FlattenSeq(ss)
  BY DEF ResourceDir, Ordered, AtPlace
<1>3. \A leaf \in S : FileList(Of1(leaf))
  <2> TAKE leaf \in S
  <2>1. PICK k \in DOMAIN m : k[1] = type /\ k[2] = leaf
    OBVIOUS
  <2>2. k = <<type, leaf>> /\ GroupOk(m[k])
    BY <2>1 DEF ResOk
  <2> DEFINE g == m[<<type, leaf>>]
  <2>3. GroupOk(g)
    BY <2>2
  <2> HIDE DEF g
  <2>4. FileList([i \in DOMAIN Files(g) |-> g[Files(g)[i]]])
    BY <2>3, GroupIsList
  <2> QED BY <2>4 DEF g
<1> HIDE DEF S
<1>4. order = [i \in 1..Cardinality(S) |-> AtPlace(LeafOrder, S, i)]
  OBVIOUS
<1> HIDE DEF order, Of1
<1>5. n \in Nat /\ DOMAIN order = 1..n /\ \A i \in 1..n : order[i] \in S
  BY <1>1, <1>4, InOrder
<1>6. ss = [i \in 1..n |-> ss[i]] /\ \A i \in 1..n : ss[i] = Of1(order[i])
  BY <1>5
<1> HIDE DEF ss
<1>7. IsList(ss) /\ DOMAIN ss = 1..n
  BY <1>5, <1>6, FunctionIsList
<1>8. \A i \in DOMAIN ss : FileList(ss[i])
  BY <1>3, <1>5, <1>6, <1>7
<1>9. /\ IsList(FlattenSeq(ss))
      /\ \A j \in DOMAIN FlattenSeq(ss) : \E i \in DOMAIN ss : \E k \in DOMAIN ss[i] : FlattenSeq(ss)[j] = ss[i][k]
  BY <1>7, <1>8, FlattenIsList DEF FileList
<1> QED BY <1>2, <1>8, <1>9 DEF FileList

\* The lists that the build goes through.
LEMMA ValuesFilesOk ==
  ASSUME AssetsOk
  PROVE  IsList(ValuesFiles) /\ \A i \in DOMAIN ValuesFiles : ReadOk(ValuesFiles[i][2])
<1> DEFINE Dir(i) == ResourceDir(CollectFiles(assets[i]), "values")
           Of1(i) == [j \in DOMAIN Dir(i) |-> <<i, Dir(i)[j]>>]
           ss == [i \in DOMAIN assets |-> Of1(i)]
           n == Len(assets)
<1>1. n \in Nat /\ DOMAIN assets = 1..n /\ \A i \in 1..n : ResOk(assets[i].groups)
  BY DEF AssetsOk, IsList
<1>2. \A i \in 1..n : FileList(Dir(i))
  BY <1>1, CollectResOk, ResourceDirOk
<1>3. ValuesFiles = FlattenSeq(ss)
  BY DEF ValuesFiles
<1>4. ASSUME NEW i \in 1..n PROVE IsList(Of1(i)) /\ \A j \in DOMAIN Of1(i) : ReadOk(Of1(i)[j][2])
  <2> DEFINE d == Dir(i)
             m == Len(d)
             o == Of1(i)
  <2>1. m \in Nat /\ DOMAIN d = 1..m /\ \A j \in 1..m : ReadOk(d[j])
    BY <1>2 DEF FileList, IsList
  <2>2. o = [j \in DOMAIN d |-> <<i, d[j]>>]
    OBVIOUS
  <2>a. \A x : <<i, x>>[2] = x
    OBVIOUS
  <2> HIDE DEF o, d, m
  <2>3. o = [j \in 1..m |-> o[j]] /\ \A j \in 1..m : o[j] = <<i, d[j]>>
    BY <2>1, <2>2
  <2>4. IsList(o) /\ DOMAIN o = 1..m
    BY <2>1, <2>3, FunctionIsList
  <2>5. \A j \in 1..m : o[j][2] = d[j]
    BY <2>3, <2>a
  <2>6. IsList(o) /\ \A j \in DOMAIN o : ReadOk(o[j][2])
    BY <2>1, <2>4, <2>5
  <2> QED BY <2>6 DEF o
<1> HIDE DEF Of1
<1>5. ss = [i \in 1..n |-> ss[i]] /\ \A i \in 1..n : ss[i] = Of1(i)
  BY <1>1
<1> HIDE DEF ss
<1>6. IsList(ss) /\ DOMAIN ss = 1..n
  BY <1>1, <1>5, FunctionIsList
<1>7. \A i \in DOMAIN ss : IsList(ss[i]) /\ \A j \in DOMAIN ss[i] : ReadOk(ss[i][j][2])
  BY <1>4, <1>5, <1>6
<1>8. /\ IsList(FlattenSeq(ss))
      /\ \A j \in DOMAIN FlattenSeq(ss) : \E i \in DOMAIN ss : \E k \in DOMAIN ss[i] : FlattenSeq(ss)[j] = ss[i][k]
  BY <1>6, <1>7, FlattenIsList
<1> QED BY <1>3, <1>7, <1>8

XmlOp(type, q, r, list, f) == IF type # "drawable" \/ f.ext = "xml" THEN Append(list, f) ELSE list
XmlGood(type, q, r, list) == FileList(list)
XmlOf == INSTANCE FoldFacts WITH Op <- XmlOp, Good <- XmlGood

LEMMA AppendFile == ASSUME NEW list, FileList(list), NEW f, ReadOk(f) PROVE FileList(Append(list, f))
<1>1. IsList(list) /\ Len(list) \in Nat /\ DOMAIN list = 1..Len(list)
  BY DEF FileList, IsList
<1>2. /\ IsList(Append(list, f)) /\ DOMAIN Append(list, f) = 1..(Len(list) + 1)
      /\ \A i \in DOMAIN list : Append(list, f)[i] = list[i]
      /\ Append(list, f)[Len(list) + 1] = f
  BY <1>1, AppendIsList
<1> DEFINE u == Append(list, f)
<1> HIDE DEF u
<1>3. \A i \in 1..(Len(list) + 1) : i = Len(list) + 1 \/ i \in DOMAIN list
  BY <1>1
<1> QED BY <1>2, <1>3 DEF FileList

LEMMA XmlFilesOk ==
  ASSUME ResOk(resources)
  PROVE  FileList(XmlFiles)
<1> DEFINE OfType(type) == FoldLeft(LAMBDA list, f : IF type # "drawable" \/ f.ext = "xml" THEN Append(list, f) ELSE list,
                                 << >>, ResourceDir(resources, type))
           ss == [i \in DOMAIN XmlTypes |-> OfType(XmlTypes[i])]
<1>1. XmlFiles = FlattenSeq(ss)
  BY DEF XmlFiles
<1>2. ASSUME NEW type PROVE FileList(OfType(type))
  <2> DEFINE d == ResourceDir(resources, type)
             n == Len(d)
  <2>1. FileList(d)
    BY ResourceDirOk
  <2>a. OfType(type) = XmlOf!Left(type, 0, 0, << >>, d)
    BY DEF FoldLeft, MapThenFoldSet, XmlOp, XmlOf!Left, Max
  <2> HIDE DEF d
  <2>2. n \in Nat /\ DOMAIN d = 1..n /\ \A i \in 1..n : ReadOk(d[i])
    BY <2>1 DEF FileList, IsList
  <2>3. XmlGood(type, 0, 0, << >>)
    BY EmptyIsList DEF XmlGood, FileList
  <2>4. \A acc : \A i \in 1..n : XmlGood(type, 0, 0, acc) => XmlGood(type, 0, 0, XmlOp(type, 0, 0, acc, d[i]))
    BY <2>2, AppendFile DEF XmlGood, XmlOp
  <2>5. XmlGood(type, 0, 0, XmlOf!Left(type, 0, 0, << >>, d))
    <3> HIDE DEF n
    <3> QED BY <2>2, <2>3, <2>4, XmlOf!LeftKeeps, SmallestNumber
  <2> QED BY <2>5, <2>a DEF XmlGood
<1> HIDE DEF OfType
<1>3. DOMAIN XmlTypes = 1..9 /\ Len(XmlTypes) = 9
  BY DEF XmlTypes
<1> DEFINE n == Len(XmlTypes)
<1>4. n \in Nat /\ ss = [i \in 1..n |-> ss[i]] /\ \A i \in 1..n : ss[i] = OfType(XmlTypes[i])
  BY <1>3
<1> HIDE DEF ss, n
<1>5. IsList(ss) /\ DOMAIN ss = 1..n
  BY <1>4, FunctionIsList
<1>6. \A i \in DOMAIN ss : FileList(ss[i])
  BY <1>2, <1>4, <1>5
<1>7. /\ IsList(FlattenSeq(ss))
      /\ \A j \in DOMAIN FlattenSeq(ss) : \E i \in DOMAIN ss : \E k \in DOMAIN ss[i] : FlattenSeq(ss)[j] = ss[i][k]
  BY <1>5, <1>6, FlattenIsList DEF FileList
<1> QED BY <1>1, <1>6, <1>7 DEF FileList

\* makeFileResources
AddFileOp(type, q, r, t, f) ==
    AddEntry(t, type, f.base, [k |-> "string", v |-> ResPath(f)], f.config, {"any"}, FALSE, FALSE)
AddFileGood(type, c, opt, t) == Tab(c, opt, t)
AddFiles == INSTANCE FoldFacts WITH Op <- AddFileOp, Good <- AddFileGood

LEMMA MakeFileResourcesTab ==
  ASSUME NEW c, NEW opt, NEW t, Tab(c, opt, t), NEW type, NEW files, FileList(files)
  PROVE  Tab(c, opt, AddFiles!Left(type, c, opt, t, files))
<1> DEFINE n == Len(files)
<1>1. n \in Nat /\ DOMAIN files = 1..n /\ \A i \in 1..n : ReadOk(files[i])
  BY DEF FileList, IsList
<1>2. AddFileGood(type, c, opt, t)
  BY DEF AddFileGood
<1>3. ASSUME NEW acc, NEW i \in 1..n, AddFileGood(type, c, opt, acc)
      PROVE  AddFileGood(type, c, opt, AddFileOp(type, c, opt, acc, files[i]))
  <2> DEFINE f == files[i]
             value == [k |-> "string", v |-> ResPath(f)]
             format == {"any"}
             no == FALSE
  <2>1. "sdk" \in DOMAIN f.config /\ Tab(c, opt, acc)
    BY <1>1, <1>3 DEF ReadOk, AddFileGood
  <2> HIDE DEF f, value, format, no
  <2>2. Tab(c, opt, AddEntry(acc, type, f.base, value, f.config, format, no, no))
    BY <2>1, AddEntryTab
  <2> QED BY <2>2 DEF AddFileGood, AddFileOp, f, value, format, no
<1>4. \A acc : \A i \in 1..n : AddFileGood(type, c, opt, acc) => AddFileGood(type, c, opt, AddFileOp(type, c, opt, acc, files[i]))
  BY <1>3
<1>5. AddFileGood(type, c, opt, AddFiles!Left(type, c, opt, t, files))
  <2> HIDE DEF n
  <2> QED BY <1>1, <1>2, <1>4, AddFiles!LeftKeeps, SmallestNumber
<1> QED BY <1>5 DEF AddFileGood

-----------------------------------------------------------------------------
(* Documents. *)

NodeOk(n) == {"attrs", "kind", "ns", "name"} \subseteq DOMAIN n /\ IsList(n.attrs)
DocOk(doc) == IsList(doc) /\ \A i \in DOMAIN doc : NodeOk(doc[i])

LEMMA ListExcept ==
  ASSUME NEW s, IsList(s), NEW u, DOMAIN u = DOMAIN s, u = [i \in DOMAIN s |-> u[i]]
  PROVE  IsList(u) /\ Len(u) = Len(s)
<1>1. Len(s) \in Nat /\ DOMAIN s = 1..Len(s)
  BY DEF IsList
<1> QED BY <1>1, FunctionIsList

LEMMA ReplaceNode ==
  ASSUME NEW doc, DocOk(doc), NEW i, NEW n, i \in DOMAIN doc => NodeOk(n)
  PROVE  DocOk([doc EXCEPT ![i] = n])
<1> DEFINE u == [doc EXCEPT ![i] = n]
<1>1. DOMAIN u = DOMAIN doc /\ u = [j \in DOMAIN doc |-> u[j]] /\ \A j \in DOMAIN doc : u[j] = IF j = i THEN n ELSE doc[j]
  OBVIOUS
<1> HIDE DEF u
<1>2. IsList(u)
  BY <1>1, ListExcept DEF DocOk
<1>3. DocOk(u)
  BY <1>1, <1>2 DEF DocOk
<1> QED BY <1>3 DEF u

LEMMA AppendNode ==
  ASSUME NEW doc, DocOk(doc), NEW n, NodeOk(n)
  PROVE  DocOk(Append(doc, n))
<1> DEFINE u == Append(doc, n)
<1>1. Len(doc) \in Nat /\ DOMAIN doc = 1..Len(doc) /\ IsList(doc)
  BY DEF DocOk, IsList
<1>2. /\ IsList(u) /\ DOMAIN u = 1..(Len(doc) + 1)
      /\ \A i \in DOMAIN doc : u[i] = doc[i]
      /\ u[Len(doc) + 1] = n
  BY <1>1, AppendIsList
<1> HIDE DEF u
<1>3. \A i \in 1..(Len(doc) + 1) : i = Len(doc) + 1 \/ i \in DOMAIN doc
  BY <1>1
<1>4. DocOk(u)
  BY <1>2, <1>3 DEF DocOk
<1> QED BY <1>4 DEF u

NodeFields == {"kind", "parent", "ns", "name", "attrs", "chars", "comment"}
LEMMA NewNode ==
  ASSUME NEW kind, NEW parent, NEW ns, NEW name
  PROVE  NodeOk(Node(kind, parent, ns, name)) /\ DOMAIN Node(kind, parent, ns, name) = NodeFields
<1> DEFINE n == Node(kind, parent, ns, name)
<1>1. DOMAIN n = NodeFields /\ n.attrs = << >>
  BY DEF Node, NodeFields
<1>2. IsList(n.attrs)
  BY <1>1, EmptyIsList
<1> QED BY <1>1, <1>2 DEF NodeOk, NodeFields

LEMMA AddAttributeOk ==
  ASSUME NEW n, NodeOk(n), NEW ns, NEW name, NEW raw
  PROVE  NodeOk(AddAttribute(n, ns, name, raw)) /\ DOMAIN AddAttribute(n, ns, name, raw) = DOMAIN n
<1> DEFINE attr == [ns |-> ns, name |-> name, raw |-> raw, id |-> NoId, value |-> <<"null">>]
           list == Append(n.attrs, attr)
           u == [n EXCEPT !.attrs = list]
<1>1. AddAttribute(n, ns, name, raw) \in {n, u}
  BY DEF AddAttribute
<1> HIDE DEF attr
<1>2. IsList(list)
  BY AppendIsList DEF NodeOk
<1> HIDE DEF list
<1>3. DOMAIN u = DOMAIN n /\ u.attrs = list
  BY DEF NodeOk
<1> HIDE DEF u
<1> QED BY <1>1, <1>2, <1>3 DEF NodeOk

AttrOp(p, q, r, m, a) == AddAttribute(m, a.ns, a.name, a.raw)
AttrGood(p, q, r, m) == NodeOk(m)
Attrs == INSTANCE FoldFacts WITH Op <- AttrOp, Good <- AttrGood

LEMMA AllAttributesOk ==
  ASSUME NEW n, NodeOk(n), NEW attrs, IsList(attrs)
  PROVE  NodeOk(FoldLeft(LAMBDA m, a : AddAttribute(m, a.ns, a.name, a.raw), n, attrs))
<1> DEFINE k == Len(attrs)
<1>1. k \in Nat /\ DOMAIN attrs = 1..k
  BY DEF IsList
<1>2. FoldLeft(LAMBDA m, a : AddAttribute(m, a.ns, a.name, a.raw), n, attrs) = Attrs!Left(0, 0, 0, n, attrs)
  BY DEF FoldLeft, MapThenFoldSet, AttrOp, Attrs!Left, Max
<1>3. AttrGood(0, 0, 0, n)
  BY DEF AttrGood
<1>4. \A acc : \A i \in 1..k : AttrGood(0, 0, 0, acc) => AttrGood(0, 0, 0, AttrOp(0, 0, 0, acc, attrs[i]))
  BY AddAttributeOk DEF AttrGood, AttrOp
<1>5. AttrGood(0, 0, 0, Attrs!Left(0, 0, 0, n, attrs))
  <2> HIDE DEF k
  <2> QED BY <1>1, <1>3, <1>4, Attrs!LeftKeeps, SmallestNumber
<1> QED BY <1>2, <1>5 DEF AttrGood

-----------------------------------------------------------------------------
(* ParseXml *)

PFields == {"nodes", "stack", "comment"}
POk(p) == DOMAIN p = PFields /\ DocOk(p.nodes)

LEMMA PushOk ==
  ASSUME NEW p, POk(p), NEW n, NodeOk(n)
  PROVE  POk(Push(p, n))
<1> DEFINE nodes == Append(p.nodes, n)
           u == [p EXCEPT !.nodes = nodes, !.stack = Append(p.stack, Len(p.nodes) + 1)]
<1>1. DocOk(nodes)
  BY AppendNode DEF POk
<1>2. Push(p, n) = u
  BY DEF Push
<1> HIDE DEF nodes
<1>3. DOMAIN u = PFields /\ u.nodes = nodes
  BY DEF POk, PFields
<1> QED BY <1>1, <1>2, <1>3 DEF POk

LEMMA StartElementOk ==
  ASSUME NEW p, POk(p), NEW ev, IsList(ev.attrs)
  PROVE  POk(StartElement(p, ev))
<1> DEFINE n0 == Node("element", Top(p), ev.ns, ev.name)
           n1 == [n0 EXCEPT !.comment = p.comment]
           n2 == FoldLeft(LAMBDA m, a : AddAttribute(m, a.ns, a.name, a.raw), n1, ev.attrs)
           v == Push(p, n2)
           u == [v EXCEPT !.comment = << >>]
<1>0. StartElement(p, ev) = u
  BY DEF StartElement
<1>1. NodeOk(n0) /\ DOMAIN n0 = NodeFields
  BY NewNode
<1> HIDE DEF n0
<1>2. NodeOk(n1)
  <2>1. DOMAIN n1 = DOMAIN n0 /\ n1.attrs = n0.attrs
    BY <1>1 DEF NodeFields
  <2> HIDE DEF n1
  <2> QED BY <1>1, <2>1 DEF NodeOk
<1> HIDE DEF n1
<1>3. NodeOk(n2)
  BY <1>2, AllAttributesOk
<1> HIDE DEF n2
<1>4. POk(v)
  BY <1>3, PushOk
<1> HIDE DEF v
<1>5. DOMAIN u = PFields /\ u.nodes = v.nodes
  BY <1>4 DEF POk, PFields
<1> HIDE DEF u
<1>6. POk(u)
  BY <1>4, <1>5 DEF POk
<1> QED BY <1>0, <1>6

LEMMA CharacterDataOk ==
  ASSUME NEW p, POk(p), NEW ev
  PROVE  POk(CharacterData(p, ev))
<1> DEFINE last == CHOOSE i \in {j \in DOMAIN p.nodes : p.nodes[j].parent = Top(p)} :
                      \A j \in {k \in DOMAIN p.nodes : p.nodes[k].parent = Top(p)} : j <= i
           m == [p.nodes[last] EXCEPT !.chars = @ \o ev.chars]
           joined == [p EXCEPT !.nodes = [p.nodes EXCEPT ![last] = m]]
           n0 == Node("cdata", Top(p), NoNs, "")
           n == [n0 EXCEPT !.chars = ev.chars]
           added == [p EXCEPT !.nodes = Append(p.nodes, n)]
<1>1. CharacterData(p, ev) \in {p, joined, added}
  BY DEF CharacterData
<1>2. DOMAIN p = PFields /\ DocOk(p.nodes)
  BY DEF POk
<1> HIDE DEF last
<1>3. POk(joined)
  <2>1. last \in DOMAIN p.nodes => NodeOk(m)
    <3>1. SUFFICES ASSUME last \in DOMAIN p.nodes PROVE NodeOk(m)
      OBVIOUS
    <3>2. NodeOk(p.nodes[last])
      BY <1>2, <3>1 DEF DocOk
    <3> QED BY <3>2 DEF NodeOk
  <2> HIDE DEF m
  <2>2. DocOk([p.nodes EXCEPT ![last] = m])
    BY <1>2, <2>1, ReplaceNode
  <2>3. DOMAIN joined = PFields /\ joined.nodes = [p.nodes EXCEPT ![last] = m]
    BY <1>2 DEF PFields
  <2> QED BY <2>2, <2>3 DEF POk
<1>4. POk(added)
  <2>1. NodeOk(n0) /\ DOMAIN n0 = NodeFields
    BY NewNode
  <2> HIDE DEF n0
  <2>2. DOMAIN n = DOMAIN n0 /\ n.attrs = n0.attrs
    BY <2>1 DEF NodeFields
  <2> HIDE DEF n
  <2>3. NodeOk(n)
    BY <2>1, <2>2 DEF NodeOk
  <2>4. DocOk(Append(p.nodes, n))
    BY <1>2, <2>3, AppendNode
  <2>5. DOMAIN added = PFields /\ added.nodes = Append(p.nodes, n)
    BY <1>2 DEF PFields
  <2> QED BY <2>4, <2>5 DEF POk
<1> QED BY <1>1, <1>3, <1>4

LEMMA EndsOk ==
  ASSUME NEW p, POk(p), NEW ev
  PROVE  POk(CommentData(p, ev)) /\ POk(EndElement(p)) /\ POk(EndNamespace(p))
<1>1. DOMAIN p = PFields /\ DocOk(p.nodes)
  BY DEF POk
<1>2. POk(CommentData(p, ev))
  <2> DEFINE u == CommentData(p, ev)
  <2>1. \E x : u = [p EXCEPT !.comment = x]
    BY DEF CommentData
  <2> HIDE DEF u
  <2>2. DOMAIN u = PFields /\ u.nodes = p.nodes
    BY <1>1, <2>1 DEF PFields
  <2> QED BY <1>1, <2>2 DEF POk, u
<1>3. POk(EndNamespace(p))
  <2> DEFINE u == EndNamespace(p)
  <2>1. \E x : u = [p EXCEPT !.stack = x]
    BY DEF EndNamespace
  <2> HIDE DEF u
  <2>2. DOMAIN u = PFields /\ u.nodes = p.nodes
    BY <1>1, <2>1 DEF PFields
  <2> QED BY <1>1, <2>2 DEF POk, u
<1>4. POk(EndElement(p))
  <2> DEFINE last == Last(p.stack)
             old == p.nodes[last].comment
             c == IF p.comment = << >> THEN old ELSE IF old = << >> THEN p.comment ELSE old \o <<"\n">> \o p.comment
             m == [p.nodes[last] EXCEPT !.comment = c]
             nodes == [p.nodes EXCEPT ![last] = m]
             u == [p EXCEPT !.stack = Front(p.stack), !.comment = << >>, !.nodes = nodes]
  <2>1. EndElement(p) = u
    BY DEF EndElement
  <2> HIDE DEF c, last
  <2>2. last \in DOMAIN p.nodes => NodeOk(m)
    <3>1. SUFFICES ASSUME last \in DOMAIN p.nodes PROVE NodeOk(m)
      OBVIOUS
    <3>2. NodeOk(p.nodes[last])
      BY <1>1, <3>1 DEF DocOk
    <3> QED BY <3>2 DEF NodeOk
  <2> HIDE DEF m
  <2>3. DocOk(nodes)
    BY <1>1, <2>2, ReplaceNode
  <2> HIDE DEF nodes
  <2>4. DOMAIN u = PFields /\ u.nodes = nodes
    BY <1>1 DEF PFields
  <2> QED BY <2>1, <2>3, <2>4 DEF POk
<1> QED BY <1>2, <1>3, <1>4

ParseOp(x, q, r, p, ev) ==
    CASE ev.e = "startNamespace" -> StartNamespace(p, ev)
      [] ev.e = "startElement" -> StartElement(p, ev)
      [] ev.e = "characterData" -> CharacterData(p, ev)
      [] ev.e = "comment" -> CommentData(p, ev)
      [] ev.e = "endElement" -> EndElement(p)
      [] ev.e = "endNamespace" -> EndNamespace(p)
ParseGood(x, q, r, p) == POk(p)
Parsing == INSTANCE FoldFacts WITH Op <- ParseOp, Good <- ParseGood

LEMMA ParseXmlOk == ASSUME NEW events, EventsOk(events) PROVE DocOk(ParseXml(events))
<1> DEFINE n == Len(events)
           start == [nodes |-> << >>, stack |-> << >>, comment |-> << >>]
<1>a. IsList(events)
  BY DEF EventsOk
<1>1. n \in Nat /\ DOMAIN events = 1..n
  BY <1>a DEF IsList
<1>2. ParseXml(events) = Parsing!Left(0, 0, 0, start, events).nodes
  BY DEF ParseXml, FoldLeft, MapThenFoldSet, ParseOp, Parsing!Left, Max
<1>3. ParseGood(0, 0, 0, start)
  <2>1. DocOk(<< >>)
    BY EmptyIsList DEF DocOk
  <2>2. DOMAIN start = PFields /\ start.nodes = << >>
    BY DEF PFields
  <2> HIDE DEF start
  <2> QED BY <2>1, <2>2 DEF ParseGood, POk
<1>4. ASSUME NEW p, NEW i \in 1..n, POk(p) PROVE POk(ParseOp(0, 0, 0, p, events[i]))
  <2> DEFINE ev == events[i]
  <2>a. i \in DOMAIN events
    BY <1>1
  <2>1. ev.e \in EventKinds /\ (ev.e = "startElement" => IsList(ev.attrs))
    BY <2>a DEF EventsOk
  <2> HIDE DEF ev
  <2>2. POk(StartNamespace(p, ev))
    <3> DEFINE m == Node("namespace", Top(p), ev.ns, "")
    <3>1. NodeOk(m)
      BY NewNode
    <3> HIDE DEF m
    <3>2. POk(Push(p, m))
      BY <1>4, <3>1, PushOk
    <3> QED BY <3>2 DEF StartNamespace, m
  <2>3. ev.e = "startElement" => POk(StartElement(p, ev))
    BY <1>4, <2>1, StartElementOk
  <2>4. POk(CharacterData(p, ev))
    BY <1>4, CharacterDataOk
  <2>5. POk(CommentData(p, ev)) /\ POk(EndElement(p)) /\ POk(EndNamespace(p))
    BY <1>4, EndsOk
  <2>6. POk(ParseOp(0, 0, 0, p, ev))
    BY <2>1, <2>2, <2>3, <2>4, <2>5 DEF ParseOp, EventKinds
  <2> QED BY <2>6 DEF ev
<1>5. \A acc : \A i \in 1..n : ParseGood(0, 0, 0, acc) => ParseGood(0, 0, 0, ParseOp(0, 0, 0, acc, events[i]))
  BY <1>4 DEF ParseGood
<1>6. ParseGood(0, 0, 0, Parsing!Left(0, 0, 0, start, events))
  <2> HIDE DEF n, start
  <2> QED BY <1>1, <1>3, <1>5, Parsing!LeftKeeps, SmallestNumber
<1> QED BY <1>2, <1>6 DEF ParseGood, POk

-----------------------------------------------------------------------------
(* removeWhitespace *)

\* The place of a node among those that are kept.
NewPlace(kept, i) == Cardinality({j \in 1..i : j \in kept})

LEMMA EveryPlaceTaken ==
  ASSUME NEW n \in Nat, NEW kept \in SUBSET (1..n)
  PROVE  /\ NewPlace(kept, n) \in Nat
         /\ \A k \in 1..NewPlace(kept, n) : \E j \in kept : NewPlace(kept, j) = k
<1> DEFINE rank == [x \in kept |-> x]
           m == Cardinality(kept)
<1>1. IsFiniteSet(1..n) /\ IsFiniteSet(kept) /\ m \in Nat
  <2>1. IsFiniteSet(1..n)
    BY FS_Interval
  <2>2. IsFiniteSet(kept)
    BY <2>1, FS_Subset
  <2> QED BY <2>1, <2>2, FS_CardinalityType
<1>2. {j \in 1..n : j \in kept} = kept
  OBVIOUS
<1>3. NewPlace(kept, n) = m
  BY <1>2 DEF NewPlace
<1>4. rank \in [kept -> Int] /\ \A x, y \in kept : rank[x] = rank[y] => x = y
  OBVIOUS
<1>5. \A i \in 1..m : \E x \in kept : Cardinality({y \in kept : rank[y] < rank[x]}) = i - 1
  <2> HIDE DEF rank, m
  <2> QED BY <1>1, <1>4, RanksFill DEF m
<1>6. ASSUME NEW k \in 1..m PROVE \E j \in kept : NewPlace(kept, j) = k
  <2>1. PICK x \in kept : Cardinality({y \in kept : rank[y] < rank[x]}) = k - 1
    BY <1>5
  <2> DEFINE below == {y \in kept : rank[y] < rank[x]}
             all == {j \in 1..x : j \in kept}
  <2>a. \A y \in kept : rank[y] = y /\ y \in 1..n
    OBVIOUS
  <2>b. x \in 1..n /\ \A j \in 1..n : j \in 1..x <=> j < x \/ j = x
    OBVIOUS
  <2>c. 1..x \subseteq 1..n
    BY <2>b
  <2> HIDE DEF rank
  <2>d. \A y : y \in below <=> y \in kept /\ y < x
    BY <2>a
  <2>2. all = below \cup {x} /\ x \notin below /\ below \subseteq kept
    <3>1. x \notin below /\ below \subseteq kept
      BY <2>b, <2>d
    <3>2. \A y : y \in all <=> y \in 1..x /\ y \in kept
      OBVIOUS
    <3> HIDE DEF below, all
    <3>3. \A y : y \in all <=> y \in below \cup {x}
      BY <2>a, <2>b, <2>c, <2>d, <3>2
    <3> QED BY <3>1, <3>3
  <2> HIDE DEF below, all
  <2>3. IsFiniteSet(below)
    BY <1>1, <2>2, FS_Subset
  <2>4. Cardinality(all) = Cardinality(below) + 1
    BY <2>2, <2>3, FS_AddElement
  <2>5. Cardinality(below) = k - 1
    BY <2>1 DEF below
  <2>6. NewPlace(kept, x) = Cardinality(all)
    BY DEF NewPlace, all
  <2> QED BY <2>4, <2>5, <2>6
<1> QED BY <1>1, <1>3, <1>6

LEMMA KeepOk ==
  ASSUME NEW doc, DocOk(doc), NEW kept, kept \subseteq DOMAIN doc
  PROVE  DocOk(Keep(doc, kept))
<1> DEFINE n == Len(doc)
           m == NewPlace(kept, n)
           At(k) == CHOOSE j \in kept : NewPlace(kept, j) = k
           New1(i) == [doc[i] EXCEPT !.parent = NewPlace(kept, doc[i].parent)]
           u == [k \in 1..m |-> New1(At(k))]
<1>1. n \in Nat /\ DOMAIN doc = 1..n /\ kept \in SUBSET (1..n)
  BY DEF DocOk, IsList
<1>2. Keep(doc, kept) = u
  BY DEF Keep, NewPlace
<1>3. m \in Nat /\ \A k \in 1..m : \E j \in kept : NewPlace(kept, j) = k
  <2> HIDE DEF n
  <2> QED BY <1>1, EveryPlaceTaken
<1> HIDE DEF n, m
<1>4. \A k \in 1..m : At(k) \in kept
  BY <1>3
<1> HIDE DEF At
<1>5. ASSUME NEW i \in kept PROVE NodeOk(New1(i))
  <2>1. NodeOk(doc[i])
    BY DEF DocOk
  <2> QED BY <2>1 DEF NodeOk
<1> HIDE DEF New1
<1>6. u = [k \in 1..m |-> u[k]] /\ \A k \in 1..m : NodeOk(u[k])
  BY <1>4, <1>5
<1> HIDE DEF u
<1>7. IsList(u) /\ DOMAIN u = 1..m
  BY <1>3, <1>6, FunctionIsList
<1> QED BY <1>2, <1>6, <1>7 DEF DocOk

LEMMA RemoveWhitespaceOk ==
  ASSUME NEW doc, DocOk(doc), NEW stripAll
  PROVE  DocOk(RemoveWhitespace(doc, stripAll))
<1> DEFINE kept == {i \in DOMAIN doc : ~(stripAll /\ doc[i].kind = "cdata" /\ White(doc[i].chars))}
           d == Keep(doc, kept)
           u == CompactText(d)
<1>1. DocOk(d)
  <2>1. kept \subseteq DOMAIN doc
    OBVIOUS
  <2> HIDE DEF kept
  <2> QED BY <2>1, KeepOk
<1> HIDE DEF d
<1>2. /\ DOMAIN u = DOMAIN d /\ u = [i \in DOMAIN d |-> u[i]]
      /\ \A i \in DOMAIN d : u[i] = d[i] \/ u[i] = [d[i] EXCEPT !.chars = Compact(d[i].chars)]
  BY DEF CompactText
<1> HIDE DEF u
<1>3. IsList(u)
  BY <1>1, <1>2, ListExcept DEF DocOk
<1>4. \A i \in DOMAIN u : NodeOk(u[i])
  <2> TAKE i \in DOMAIN u
  <2>1. NodeOk(d[i])
    BY <1>1, <1>2 DEF DocOk
  <2>2. NodeOk([d[i] EXCEPT !.chars = Compact(d[i].chars)])
    BY <2>1 DEF NodeOk
  <2> QED BY <1>2, <2>1, <2>2
<1> QED BY <1>3, <1>4 DEF DocOk, RemoveWhitespace, u, d

LEMMA EachAttributeIsList ==
  ASSUME NEW doc, DocOk(doc)
  PROVE  IsList(EachAttribute(doc))
<1> DEFINE Of1(i) == [j \in DOMAIN doc[i].attrs |-> <<i, j>>]
           ss == [i \in DOMAIN doc |-> Of1(i)]
           n == Len(doc)
<1>1. n \in Nat /\ DOMAIN doc = 1..n /\ \A i \in 1..n : IsList(doc[i].attrs)
  BY DEF DocOk, NodeOk, IsList
<1>2. ASSUME NEW i \in 1..n PROVE IsList(Of1(i))
  <2> DEFINE list == doc[i].attrs
             o == Of1(i)
  <2>1. IsList(list) /\ DOMAIN o = DOMAIN list /\ o = [j \in DOMAIN list |-> o[j]]
    BY <1>1
  <2> HIDE DEF o, list
  <2> QED BY <2>1, ListExcept DEF o
<1> HIDE DEF Of1
<1>3. DOMAIN ss = DOMAIN doc /\ ss = [i \in DOMAIN doc |-> ss[i]] /\ \A i \in DOMAIN doc : ss[i] = Of1(i)
  OBVIOUS
<1>4. EachAttribute(doc) = FlattenSeq(ss)
  BY DEF EachAttribute, Of1
<1> HIDE DEF ss, n
<1>5. IsList(ss)
  BY <1>3, ListExcept DEF DocOk
<1>6. \A i \in DOMAIN ss : IsList(ss[i])
  BY <1>1, <1>2, <1>3
<1> QED BY <1>4, <1>5, <1>6, FlattenIsList

-----------------------------------------------------------------------------
(* Attributes and their values. *)

SFields == {"t", "doc", "ok"}
SOk(c, opt, s) == DOMAIN s = SFields /\ Tab(c, opt, s.t) /\ DocOk(s.doc)

\* An attribute of a document.
LEMMA ReplaceAttribute ==
  ASSUME NEW doc, DocOk(doc), NEW i, NEW j, NEW a
  PROVE  DocOk([doc EXCEPT ![i] = [doc[i] EXCEPT !.attrs = [doc[i].attrs EXCEPT ![j] = a]]])
<1> DEFINE list == [doc[i].attrs EXCEPT ![j] = a]
           n == [doc[i] EXCEPT !.attrs = list]
<1>1. i \in DOMAIN doc => NodeOk(n)
  <2>1. SUFFICES ASSUME i \in DOMAIN doc PROVE NodeOk(n)
    OBVIOUS
  <2>2. NodeOk(doc[i])
    BY <2>1 DEF DocOk
  <2> DEFINE old == doc[i].attrs
  <2>3. IsList(old) /\ DOMAIN list = DOMAIN old /\ list = [x \in DOMAIN old |-> list[x]]
    BY <2>2 DEF NodeOk
  <2> HIDE DEF list, old
  <2>4. IsList(list)
    BY <2>3, ListExcept
  <2>5. DOMAIN n = DOMAIN doc[i] /\ n.attrs = list
    BY <2>2 DEF NodeOk
  <2> HIDE DEF n
  <2> QED BY <2>2, <2>4, <2>5 DEF NodeOk
<1> HIDE DEF n
<1>2. DocOk([doc EXCEPT ![i] = n])
  BY <1>1, ReplaceNode
<1> QED BY <1>2 DEF n

LEMMA WithAttributeIdOk ==
  ASSUME NEW c, NEW opt, NEW s, SOk(c, opt, s), NEW x, NEW t, Tab(c, opt, t), NEW id
  PROVE  SOk(c, opt, WithAttributeId(s, x, t, id))
<1> DEFINE i == x[1]
           j == x[2]
           a == [s.doc[i].attrs[j] EXCEPT !.id = id]
           doc == [s.doc EXCEPT ![i] = [s.doc[i] EXCEPT !.attrs = [s.doc[i].attrs EXCEPT ![j] = a]]]
           v == IF id = NoId THEN Fail(t) ELSE t
           u == [s EXCEPT !.t = v, !.doc = doc, !.ok = s.ok /\ id # NoId]
<1>1. WithAttributeId(s, x, t, id) = u
  BY DEF WithAttributeId
<1>2. Tab(c, opt, v)
  BY FailTab
<1>3. DocOk(doc)
  <2>1. DocOk(s.doc)
    BY DEF SOk
  <2> HIDE DEF a, i, j
  <2> QED BY <2>1, ReplaceAttribute
<1> HIDE DEF v, doc
<1>4. DOMAIN u = SFields /\ u.t = v /\ u.doc = doc
  BY DEF SOk, SFields
<1> HIDE DEF u
<1> QED BY <1>1, <1>2, <1>3, <1>4 DEF SOk

IdOp(c, opt, r, u, x) ==
    LET a == u.doc[x[1]].attrs[x[2]]
    IN  AssignAttributeId(u, x, a, GetNamespaceResourcePackage(Own, a.ns))
IdGood(c, opt, r, u) == SOk(c, opt, u)
AttributeIds == INSTANCE FoldFacts WITH Op <- IdOp, Good <- IdGood

LEMMA AssignAttributeIdOk ==
  ASSUME NEW c, NEW opt, NEW s, SOk(c, opt, s), NEW x, NEW a, NEW p
  PROVE  SOk(c, opt, AssignAttributeId(s, x, a, p))
<1> DEFINE ref == <<p.package, "attr", a.name>>
           r == GetResId(s.t, ref, p.public)
           id == IF r.id # NoId THEN r.id ELSE InHost(s.t, a)
           w == WithAttributeId(s, x, r.t, id)
<1>1. AssignAttributeId(s, x, a, p) \in {s, w}
  BY DEF AssignAttributeId, OwnOrHost
<1>2. IsRef(ref)
  BY DEF IsRef
<1>3. Tab(c, opt, s.t)
  BY DEF SOk
<1>4. Tab(c, opt, r.t)
  <2> DEFINE public == p.public
  <2> HIDE DEF ref, public
  <2>1. Tab(c, opt, GetResId(s.t, ref, public).t)
    BY <1>2, <1>3, GetResIdTab
  <2> QED BY <2>1 DEF public
<1> HIDE DEF r, id
<1>5. SOk(c, opt, w)
  BY <1>4, WithAttributeIdOk
<1> QED BY <1>1, <1>5

LEMMA AssignResourceIdsOfOk ==
  ASSUME NEW c, NEW opt, NEW s, SOk(c, opt, s)
  PROVE  SOk(c, opt, AssignResourceIdsOf(s))
<1> DEFINE list == EachAttribute(s.doc)
           n == Len(list)
<1>1. IsList(list)
  BY EachAttributeIsList DEF SOk
<1>2. AssignResourceIdsOf(s) = AttributeIds!Left(c, opt, 0, s, list)
  BY DEF AssignResourceIdsOf, FoldLeft, MapThenFoldSet, IdOp, AttributeIds!Left, Max
<1> HIDE DEF list
<1>3. n \in Nat /\ DOMAIN list = 1..n
  BY <1>1 DEF IsList
<1>4. IdGood(c, opt, 0, s)
  BY DEF IdGood
<1>5. \A acc : \A i \in 1..n : IdGood(c, opt, 0, acc) => IdGood(c, opt, 0, IdOp(c, opt, 0, acc, list[i]))
  BY AssignAttributeIdOk DEF IdGood, IdOp
<1>6. IdGood(c, opt, 0, AttributeIds!Left(c, opt, 0, s, list))
  <2> HIDE DEF n
  <2> QED BY <1>3, <1>4, <1>5, AttributeIds!LeftKeeps, SmallestNumber
<1> QED BY <1>2, <1>6 DEF IdGood

LEMMA StringToValueTab ==
  ASSUME NEW c, NEW opt, NEW t, Tab(c, opt, t), NEW pool, NEW value, NEW attrId, NEW format,
         NEW typeName, NEW config
  PROVE  Tab(c, opt, StringToValue(t, pool, value, attrId, format, typeName, config).t)
<1> DEFINE ref == <<value.pkg, value.type, value.name>>
           target == Target(t, ref, value.create)
<1>1. Tab(c, opt, target.t)
  <2>1. IsRef(ref)
    BY DEF IsRef
  <2> DEFINE create == value.create
  <2> HIDE DEF ref, create
  <2>2. Tab(c, opt, WithCreation(t, ref, create).t)
    BY <2>1, WithCreationTab
  <2>3. Target(t, ref, create).t \in {t, WithCreation(t, ref, create).t}
    BY DEF Target
  <2> QED BY <2>2, <2>3 DEF create
<1>2. \A types, enums : ToValue(t, pool, value, attrId, types, enums, typeName, config).t
         \in {Good(t), Fail(t), Good(target.t), Fail(target.t)}
  <2> TAKE types, enums
  <2>1. \A p, v : Stored(t, p, v).t = Good(t)
    BY DEF Stored
  <2>2. \A p : NotStored(t, p).t = Fail(t)
    BY DEF NotStored
  <2>3. \A a : Pooled(t, a).t = Good(t)
    BY <2>1 DEF Pooled
  <2>4. Referenced(target, pool).t \in {Good(target.t), Fail(target.t)}
    BY DEF Referenced, Stored, NotStored
  <2> HIDE DEF target
  <2>5. ToValue(t, pool, value, attrId, types, enums, typeName, config).t \in
          {Good(t), Fail(t), Referenced(target, pool).t}
    BY <2>1, <2>2, <2>3 DEF ToValue, target
  <2> QED BY <2>4, <2>5
<1>3. Tab(c, opt, Good(t)) /\ Tab(c, opt, Fail(t)) /\ Tab(c, opt, Good(target.t)) /\ Tab(c, opt, Fail(target.t))
  <2> HIDE DEF target
  <2> QED BY <1>1, FailTab
<1> HIDE DEF target
<1> QED BY <1>2, <1>3 DEF StringToValue

-----------------------------------------------------------------------------
(* Values of attributes, and the whole of compileXmlFile. *)

LEMMA ParseValueOk ==
  ASSUME NEW c, NEW opt, NEW s, SOk(c, opt, s), NEW x, NEW a
  PROVE  SOk(c, opt, ParseValue(s, x, a))
<1> DEFINE r == StringToValue(s.t, EmptyPool, a.raw, a.id, {"any"}, NoType, DefaultConfig)
           i == x[1]
           j == x[2]
           value == IF r.value[1] = "string" THEN <<"string", a.raw.v>> ELSE r.value
           b == [s.doc[i].attrs[j] EXCEPT !.value = value]
           doc == [s.doc EXCEPT ![i] = [s.doc[i] EXCEPT !.attrs = [s.doc[i].attrs EXCEPT ![j] = b]]]
           u == [s EXCEPT !.t = r.t, !.ok = s.ok /\ r.t.ok, !.doc = doc]
<1>1. ParseValue(s, x, a) = u
  BY DEF ParseValue, WithValue
<1>2. Tab(c, opt, r.t)
  <2> DEFINE any == {"any"}
  <2>1. Tab(c, opt, s.t)
    BY DEF SOk
  <2> HIDE DEF any
  <2>2. Tab(c, opt, StringToValue(s.t, EmptyPool, a.raw, a.id, any, NoType, DefaultConfig).t)
    BY <2>1, StringToValueTab
  <2> QED BY <2>2 DEF any
<1> HIDE DEF r, value
<1>3. DocOk(doc)
  <2>1. DocOk(s.doc)
    BY DEF SOk
  <2> HIDE DEF b, i, j
  <2> QED BY <2>1, ReplaceAttribute
<1> HIDE DEF doc
<1>4. DOMAIN u = SFields /\ u.t = r.t /\ u.doc = doc
  BY DEF SOk, SFields
<1> HIDE DEF u
<1> QED BY <1>1, <1>2, <1>3, <1>4 DEF SOk

ValueOp(c, opt, r, u, x) == ParseValue(u, x, u.doc[x[1]].attrs[x[2]])
AttributeValues == INSTANCE FoldFacts WITH Op <- ValueOp, Good <- IdGood

LEMMA ParseValuesOk ==
  ASSUME NEW c, NEW opt, NEW s, SOk(c, opt, s)
  PROVE  SOk(c, opt, ParseValues(s))
<1> DEFINE list == EachAttribute(s.doc)
           n == Len(list)
<1>1. IsList(list)
  BY EachAttributeIsList DEF SOk
<1>2. ParseValues(s) = AttributeValues!Left(c, opt, 0, s, list)
  BY DEF ParseValues, FoldLeft, MapThenFoldSet, ValueOp, AttributeValues!Left, Max
<1> HIDE DEF list
<1>3. n \in Nat /\ DOMAIN list = 1..n
  BY <1>1 DEF IsList
<1>4. IdGood(c, opt, 0, s)
  BY DEF IdGood
<1>5. \A acc : \A i \in 1..n : IdGood(c, opt, 0, acc) => IdGood(c, opt, 0, ValueOp(c, opt, 0, acc, list[i]))
  BY ParseValueOk DEF IdGood, ValueOp
<1>6. IdGood(c, opt, 0, AttributeValues!Left(c, opt, 0, s, list))
  <2> HIDE DEF n
  <2> QED BY <1>3, <1>4, <1>5, AttributeValues!LeftKeeps, SmallestNumber
<1> QED BY <1>2, <1>6 DEF IdGood

-----------------------------------------------------------------------------
(* modifyForCompat of a file, and the file as a whole. *)

\* A file of resources; one without a type is the manifest.
MayBePutOff(file) == file.type = "" \/ WorkOk(file)

LEMMA WorkTab ==
  ASSUME NEW c, NEW opt, NEW t, Tab(c, opt, t), NEW u, DOMAIN u = TableFields,
         u.types = t.types, u.order = t.order, u.pubType = t.pubType, u.entries = t.entries,
         u.cache = t.cache, IsList(u.work), \A i \in DOMAIN u.work : WorkOk(u.work[i]), u.opt = t.opt
  PROVE  Tab(c, opt, u)
BY DEF Tab, TableOk, Clean, IsMinSdkVersionLOrAbove

LEMMA PutOffTab ==
  ASSUME NEW c, NEW opt, NEW t, Tab(c, opt, t), NEW file, WorkOk(file)
  PROVE  Tab(c, opt, PutOff(t, file))
<1> DEFINE value == [k |-> "string", v |-> PathOf(file)]
           any == {"any"}
           no == FALSE
           g == Good(AddEntry(t, file.type, file.name, value, file.config, any, no, no))
           work == Append(g.work, file)
           u == [g EXCEPT !.work = work]
<1>1. PutOff(t, file) \in {t, u}
  BY DEF PutOff
<1>2. Tab(c, opt, g)
  <2> HIDE DEF value, any, no
  <2> DEFINE a == AddEntry(t, file.type, file.name, value, file.config, any, no, no)
  <2>1. Tab(c, opt, a)
    BY AddEntryTab DEF WorkOk
  <2> HIDE DEF a
  <2>2. Tab(c, opt, Good(a))
    BY <2>1, FailTab
  <2> QED BY <2>2 DEF a
<1> HIDE DEF g
<1>3. DOMAIN g = TableFields /\ IsList(g.work) /\ \A i \in DOMAIN g.work : WorkOk(g.work[i])
  BY <1>2 DEF Tab, TableOk
<1>4. IsList(work) /\ \A i \in DOMAIN work : WorkOk(work[i])
  <2>1. Len(g.work) \in Nat /\ DOMAIN g.work = 1..Len(g.work)
    BY <1>3 DEF IsList
  <2>2. /\ IsList(work) /\ DOMAIN work = 1..(Len(g.work) + 1)
        /\ \A i \in DOMAIN g.work : work[i] = g.work[i]
        /\ work[Len(g.work) + 1] = file
    BY <1>3, AppendIsList
  <2> HIDE DEF work
  <2>3. \A i \in 1..(Len(g.work) + 1) : i = Len(g.work) + 1 \/ i \in DOMAIN g.work
    BY <2>1
  <2> QED BY <1>3, <2>2, <2>3
<1> HIDE DEF work
<1>5. /\ DOMAIN u = TableFields /\ u.types = g.types /\ u.order = g.order
      /\ u.entries = g.entries /\ u.pubType = g.pubType /\ u.cache = g.cache /\ u.work = work /\ u.opt = g.opt
  BY <1>3 DEF TableFields
<1> HIDE DEF u
<1>6. Tab(c, opt, u)
  BY <1>2, <1>4, <1>5, WorkTab
<1> QED BY <1>1, <1>6

LEMMA ModifyFileTab ==
  ASSUME NEW c, NEW opt, NEW s, SOk(c, opt, s), NEW file, MayBePutOff(file)
  PROVE  Tab(c, opt, ModifyFileForCompat(s, file).t)
<1> DEFINE f == [file EXCEPT !.config = AtL(file.config)]
           found == [i \in DOMAIN s.doc |-> FoundLAttributes(s.t, s.doc, i)]
           w == WithoutFound(s, file, found)
<1>1. Tab(c, opt, s.t) /\ DOMAIN s = SFields
  BY DEF SOk
<1>2. ModifyFileForCompat(s, file) \in {s, w} /\ (file.type = "" => ModifyFileForCompat(s, file) = s)
  BY DEF ModifyFileForCompat
<1>3. ASSUME WorkOk(file) PROVE Tab(c, opt, w.t)
  <2>1. WorkOk(f)
    <3>1. "sdk" \in DOMAIN AtL(file.config)
      BY <1>3 DEF WorkOk, AtL
    <3> DEFINE a == AtL(file.config)
               v == [file EXCEPT !.config = a]
    <3>3. f = v
      OBVIOUS
    <3> HIDE DEF a
    <3>4. {"events", "config"} \subseteq DOMAIN file
      BY <1>3 DEF WorkOk
    <3> HIDE DEF f
    <3>2. DOMAIN v = DOMAIN file /\ v.config = a /\ v.events = file.events
      BY <3>4
    <3> HIDE DEF v
    <3> QED BY <1>3, <3>1, <3>2, <3>3 DEF WorkOk, a
  <2>2. \E doc : w \in {s, [s EXCEPT !.t = PutOff(s.t, f), !.doc = doc]}
    BY DEF WithoutFound
  <2> HIDE DEF w, f
  <2>3. Tab(c, opt, PutOff(s.t, f))
    BY <1>1, <2>1, PutOffTab
  <2>4. w.t \in {s.t, PutOff(s.t, f)}
    BY <1>1, <2>2 DEF SFields
  <2> QED BY <1>1, <2>3, <2>4
<1> HIDE DEF w
<1> QED BY <1>1, <1>2, <1>3 DEF MayBePutOff

LEMMA CompileNodesTab ==
  ASSUME NEW c, NEW opt, NEW t, Tab(c, opt, t), NEW file, MayBePutOff(file), NEW doc, DocOk(doc)
  PROVE  Tab(c, opt, CompileNodes(t, file, doc).t)
<1> DEFINE yes == TRUE
           s0 == [t |-> Good(t), ok |-> yes, doc |-> RemoveWhitespace(doc, yes)]
           s1 == AssignResourceIdsOf(s0)
           s2 == ParseValues(s1)
           s3 == ModifyFileForCompat(s2, file)
<1>1. SOk(c, opt, s0)
  <2>1. Tab(c, opt, Good(t))
    BY FailTab
  <2> HIDE DEF yes
  <2>2. DocOk(RemoveWhitespace(doc, yes))
    BY RemoveWhitespaceOk
  <2>3. DOMAIN s0 = SFields /\ s0.t = Good(t) /\ s0.doc = RemoveWhitespace(doc, yes)
    BY DEF SFields
  <2> QED BY <2>1, <2>2, <2>3 DEF SOk
<1> HIDE DEF s0
<1>2. SOk(c, opt, s1)
  BY <1>1, AssignResourceIdsOfOk
<1> HIDE DEF s1
<1>3. SOk(c, opt, s2)
  BY <1>2, ParseValuesOk
<1> HIDE DEF s2
<1>4. Tab(c, opt, s3.t)
  BY <1>3, ModifyFileTab
<1> HIDE DEF s3
<1>5. CompileNodes(t, file, doc).t \in {s3.t, Fail(s2.t)}
  <2>1. CompileNodes(t, file, doc) = WriteParsed(s2, file)
    BY DEF CompileNodes, s0, s1, s2
  <2>2. WriteParsed(s2, file).t \in {s3.t, Fail(s2.t)}
    BY DEF WriteParsed, WriteNodes, NotWritten, s3
  <2> QED BY <2>1, <2>2
<1>6. Tab(c, opt, Fail(s2.t))
  BY <1>3, FailTab DEF SOk
<1> QED BY <1>4, <1>5, <1>6

LEMMA CompileXmlFileTab ==
  ASSUME NEW c, NEW opt, NEW t, Tab(c, opt, t), NEW file, WorkOk(file)
  PROVE  Tab(c, opt, CompileXmlFile(t, file).t)
<1> DEFINE doc == ParseXml(file.events)
<1>1. DocOk(doc)
  BY ParseXmlOk DEF WorkOk
<1> HIDE DEF doc
<1>2. Tab(c, opt, CompileNodes(t, file, doc).t)
  BY <1>1, CompileNodesTab DEF MayBePutOff
<1>3. CompileXmlFile(t, file).t \in {CompileNodes(t, file, doc).t, Fail(t)}
  BY DEF CompileXmlFile, NotWritten, doc
<1> QED BY <1>2, <1>3, FailTab

-----------------------------------------------------------------------------
(* The manifest. *)

RootOk(doc) == DocOk(doc) /\ SearchElement(doc, NoNs, "manifest") # {}

\* The same element with other attributes.
SameElement(m, n) == m.kind = n.kind /\ m.ns = n.ns /\ m.name = n.name

LEMMA RootIsPlace ==
  ASSUME NEW doc, RootOk(doc)
  PROVE  Root(doc) \in DOMAIN doc /\ Root(doc) \in 1..Len(doc) /\ Len(doc) \in Nat
<1> DEFINE S == SearchElement(doc, NoNs, "manifest")
<1>1. Len(doc) \in Nat /\ DOMAIN doc = 1..Len(doc)
  BY DEF RootOk, DocOk, IsList
<1>2. S \in SUBSET Nat /\ S # {} /\ S \subseteq DOMAIN doc
  BY <1>1 DEF RootOk, SearchElement
<1> HIDE DEF S
<1>3. \E n \in S : \A m \in S : n <= m
  BY <1>2, SmallestNumber
<1>4. Min(S) \in S
  BY <1>3 DEF Min
<1>5. Root(doc) = Min(S)
  BY DEF Root, S
<1> QED BY <1>1, <1>2, <1>4, <1>5

LEMMA ReplaceInRoot ==
  ASSUME NEW doc, RootOk(doc), NEW i, NEW n, i \in DOMAIN doc => NodeOk(n) /\ SameElement(n, doc[i])
  PROVE  RootOk([doc EXCEPT ![i] = n]) /\ DOMAIN [doc EXCEPT ![i] = n] = DOMAIN doc
<1> DEFINE u == [doc EXCEPT ![i] = n]
<1>1. DocOk(u)
  BY ReplaceNode DEF RootOk
<1>2. DOMAIN u = DOMAIN doc /\ \A j \in DOMAIN doc : u[j] = IF j = i THEN n ELSE doc[j]
  OBVIOUS
<1> HIDE DEF u
<1>3. \A j \in DOMAIN doc : SameElement(u[j], doc[j])
  BY <1>2 DEF SameElement
<1>4. RootOk(u)
  BY <1>1, <1>2, <1>3 DEF RootOk, SearchElement, SameElement
<1> QED BY <1>2, <1>4 DEF u

\* addAttribute to a node, and another text for an attribute.
LEMMA AddInRoot ==
  ASSUME NEW doc, RootOk(doc), NEW i, NEW ns, NEW name, NEW raw
  PROVE  RootOk([doc EXCEPT ![i] = AddAttribute(doc[i], ns, name, raw)])
<1> DEFINE n == AddAttribute(doc[i], ns, name, raw)
<1>1. ASSUME i \in DOMAIN doc PROVE NodeOk(n) /\ SameElement(n, doc[i])
  <2> DEFINE m == doc[i]
  <2>1. NodeOk(m)
    BY <1>1 DEF RootOk, DocOk
  <2> HIDE DEF m
  <2>2. NodeOk(AddAttribute(m, ns, name, raw))
    BY <2>1, AddAttributeOk
  <2>3. SameElement(AddAttribute(m, ns, name, raw), m)
    BY <2>1 DEF AddAttribute, SameElement, NodeOk
  <2> QED BY <2>2, <2>3 DEF m
<1> HIDE DEF n
<1>2. RootOk([doc EXCEPT ![i] = n])
  BY <1>1, ReplaceInRoot
<1> QED BY <1>2 DEF n

LEMMA RawInRoot ==
  ASSUME NEW doc, RootOk(doc), NEW i, NEW j, NEW raw
  PROVE  /\ RootOk([doc EXCEPT ![i].attrs[j].raw = raw])
         /\ DOMAIN [doc EXCEPT ![i].attrs[j].raw = raw] = DOMAIN doc
<1> DEFINE a == [doc[i].attrs[j] EXCEPT !.raw = raw]
           list == [doc[i].attrs EXCEPT ![j] = a]
           n == [doc[i] EXCEPT !.attrs = list]
<1>1. ASSUME i \in DOMAIN doc PROVE NodeOk(n) /\ SameElement(n, doc[i])
  <2> DEFINE m == doc[i]
             old == m.attrs
  <2>1. NodeOk(m)
    BY <1>1 DEF RootOk, DocOk
  <2>2. IsList(old) /\ DOMAIN list = DOMAIN old /\ list = [x \in DOMAIN old |-> list[x]]
    BY <2>1 DEF NodeOk
  <2> HIDE DEF list, old
  <2>3. IsList(list)
    BY <2>2, ListExcept
  <2> HIDE DEF m
  <2> DEFINE v == [m EXCEPT !.attrs = list]
  <2>4. DOMAIN v = DOMAIN m /\ v.attrs = list /\ v.kind = m.kind /\ v.ns = m.ns /\ v.name = m.name
    BY <2>1 DEF NodeOk
  <2> HIDE DEF v
  <2>5. NodeOk(v) /\ SameElement(v, m)
    BY <2>1, <2>3, <2>4 DEF NodeOk, SameElement
  <2> QED BY <2>5 DEF v, m
<1>2. [doc EXCEPT ![i].attrs[j].raw = raw] = [doc EXCEPT ![i] = n]
  OBVIOUS
<1> HIDE DEF n
<1>3. RootOk([doc EXCEPT ![i] = n]) /\ DOMAIN [doc EXCEPT ![i] = n] = DOMAIN doc
  BY <1>1, ReplaceInRoot
<1> QED BY <1>2, <1>3

\* Rewrite, and the classes of a package that is renamed.
RewriteOp(i, raw, dom, d, j) == [d EXCEPT ![i].attrs[j].raw = raw]
RootGood(i, raw, dom, d) == RootOk(d) /\ DOMAIN d = dom
Rewriting == INSTANCE FoldFacts WITH Op <- RewriteOp, Good <- RootGood

LEMMA RewriteOk ==
  ASSUME NEW doc, RootOk(doc), NEW i \in DOMAIN doc, NEW ns, NEW name, NEW raw
  PROVE  RootOk(Rewrite(doc, i, ns, name, raw)) /\ DOMAIN Rewrite(doc, i, ns, name, raw) = DOMAIN doc
<1> DEFINE at == Attribute(doc[i], ns, name)
           dom == DOMAIN doc
           n == Len(doc[i].attrs)
<1>1. IsFiniteSet(at)
  <2>1. IsList(doc[i].attrs)
    BY DEF RootOk, DocOk, NodeOk
  <2>2. n \in Nat /\ at \subseteq 1..n
    BY <2>1 DEF IsList, Attribute
  <2> HIDE DEF at, n
  <2>3. IsFiniteSet(1..n)
    BY <2>2, FS_Interval
  <2> QED BY <2>2, <2>3, FS_Subset
<1>2. Rewrite(doc, i, ns, name, raw) = Rewriting!OfSet(i, raw, dom, doc, at)
  BY DEF Rewrite, FoldSet, MapThenFoldSet, RewriteOp, Rewriting!OfSet
<1> HIDE DEF at
<1>3. RootGood(i, raw, dom, doc)
  BY DEF RootGood
<1>4. ASSUME NEW acc, NEW j \in at, RootGood(i, raw, dom, acc)
      PROVE  RootGood(i, raw, dom, RewriteOp(i, raw, dom, acc, j))
  BY <1>4, RawInRoot DEF RootGood, RewriteOp
<1> HIDE DEF dom
<1>5. RootGood(i, raw, dom, Rewriting!OfSet(i, raw, dom, doc, at))
  <2>1. Rewriting!Tame(at)
    BY <1>1, FiniteIsTame DEF Tame, Rewriting!Tame
  <2> QED BY <2>1, <1>3, <1>4, Rewriting!SetKeeps
<1> QED BY <1>2, <1>5 DEF RootGood, dom

ClassOp(i, package, dom, e, name) == Qualify(e, i, name, package)
Classes == INSTANCE FoldFacts WITH Op <- ClassOp, Good <- RootGood
ElementOp(app, package, dom, d, i) ==
    FoldSet(LAMBDA name, e : Qualify(e, i, name, package), d, ClassAttributes(d, i, app))
BelowIt == INSTANCE FoldFacts WITH Op <- ElementOp, Good <- RootGood

LEMMA ClassesAreFinite == \A doc, i, app : IsFiniteSet(ClassAttributes(doc, i, app))
<1>1. IsFiniteSet({"name", "backupAgent"}) /\ IsFiniteSet({"name"}) /\ IsFiniteSet({"name", "targetActivity"}) /\ IsFiniteSet({})
  <2>1. IsFiniteSet({}) /\ IsFiniteSet({"name"})
    BY FS_EmptySet, FS_Singleton
  <2>2. IsFiniteSet({"name"} \cup {"backupAgent"}) /\ IsFiniteSet({"name"} \cup {"targetActivity"})
    BY <2>1, FS_AddElement
  <2>3. {"name"} \cup {"backupAgent"} = {"name", "backupAgent"} /\ {"name"} \cup {"targetActivity"} = {"name", "targetActivity"}
    OBVIOUS
  <2> QED BY <2>1, <2>2, <2>3
<1>2. \A doc, i, app : ClassAttributes(doc, i, app) \in {{"name", "backupAgent"}, {"name"}, {"name", "targetActivity"}, {}}
  BY DEF ClassAttributes
<1> QED BY <1>1, <1>2

LEMMA ClassesOk ==
  ASSUME NEW doc, RootOk(doc), NEW i \in DOMAIN doc, NEW app, NEW package, NEW dom, dom = DOMAIN doc
  PROVE  RootGood(app, package, dom, ElementOp(app, package, dom, doc, i))
<1> DEFINE names == ClassAttributes(doc, i, app)
<1>1. IsFiniteSet(names)
  BY ClassesAreFinite
<1>2. ElementOp(app, package, dom, doc, i) = Classes!OfSet(i, package, dom, doc, names)
  BY DEF ElementOp, FoldSet, MapThenFoldSet, ClassOp, Classes!OfSet
<1> HIDE DEF names
<1>3. RootGood(i, package, dom, doc)
  BY DEF RootGood
<1>4. ASSUME NEW acc, NEW name \in names, RootGood(i, package, dom, acc)
      PROVE  RootGood(i, package, dom, ClassOp(i, package, dom, acc, name))
  <2> DEFINE raw == Str(QualifiedName(package, TextOf(acc[i], Android, name)))
  <2>1. RootOk(acc) /\ DOMAIN acc = dom /\ i \in DOMAIN acc
    BY <1>4 DEF RootGood
  <2>2. ClassOp(i, package, dom, acc, name) = Rewrite(acc, i, Android, name, raw)
    BY DEF ClassOp, Qualify
  <2> HIDE DEF raw
  <2>3. RootOk(Rewrite(acc, i, Android, name, raw)) /\ DOMAIN Rewrite(acc, i, Android, name, raw) = dom
    BY <2>1, RewriteOk
  <2> QED BY <2>2, <2>3 DEF RootGood
<1>5. RootGood(i, package, dom, Classes!OfSet(i, package, dom, doc, names))
  <2>1. Classes!Tame(names)
    BY <1>1, FiniteIsTame DEF Tame, Classes!Tame
  <2> QED BY <2>1, <1>3, <1>4, Classes!SetKeeps
<1> QED BY <1>2, <1>5 DEF RootGood

LEMMA QualifyBelowOk ==
  ASSUME NEW doc, RootOk(doc), NEW app, NEW package
  PROVE  RootOk(QualifyBelow(doc, app, package)) /\ DOMAIN QualifyBelow(doc, app, package) = DOMAIN doc
<1> DEFINE dom == DOMAIN doc
           places == [i \in DOMAIN doc |-> i]
           n == Len(doc)
<1>1. n \in Nat /\ DOMAIN places = 1..n /\ \A i \in 1..n : places[i] = i /\ i \in dom
  BY DEF RootOk, DocOk, IsList
<1>2. QualifyBelow(doc, app, package) = BelowIt!Left(app, package, dom, doc, places)
  BY DEF QualifyBelow, FoldLeft, MapThenFoldSet, ElementOp, BelowIt!Left, Max
<1> HIDE DEF n, places
<1>3. RootGood(app, package, dom, doc)
  BY DEF RootGood
<1>4. ASSUME NEW acc, NEW i \in 1..n, RootGood(app, package, dom, acc)
      PROVE  RootGood(app, package, dom, ElementOp(app, package, dom, acc, places[i]))
  <2>1. RootOk(acc) /\ dom = DOMAIN acc /\ places[i] \in DOMAIN acc
    BY <1>1, <1>4 DEF RootGood
  <2> DEFINE x == places[i]
  <2> HIDE DEF dom, x
  <2>2. RootGood(app, package, dom, ElementOp(app, package, dom, acc, x))
    BY <2>1, ClassesOk DEF x
  <2> QED BY <2>2 DEF x
<1> HIDE DEF dom
<1>5. RootGood(app, package, dom, BelowIt!Left(app, package, dom, doc, places))
  BY <1>1, <1>3, <1>4, BelowIt!LeftKeeps, SmallestNumber
<1> QED BY <1>2, <1>5 DEF RootGood, dom

-----------------------------------------------------------------------------
(* massageManifest, step by step. *)

LEMMA RenameOk == ASSUME NEW doc, RootOk(doc) PROVE RootOk(RenamePackage(doc))
<1> DEFINE raw == Str(prj.massage.rename)
           r == Rewrite(doc, Root(doc), NoNs, "package", raw)
           app == Child(r, "application")
<1>1. RootOk(r)
  <2> DEFINE i == Root(doc)
             name == "package"
  <2>1. i \in DOMAIN doc
    BY RootIsPlace
  <2> HIDE DEF raw, i, name
  <2>2. RootOk(Rewrite(doc, i, NoNs, name, raw))
    BY <2>1, RewriteOk
  <2> QED BY <2>2 DEF i, name
<1> HIDE DEF r
<1>2. RootOk(QualifyBelow(r, app, Own))
  <2> HIDE DEF app
  <2> QED BY <1>1, QualifyBelowOk
<1>3. RenamePackage(doc) \in {doc, QualifyBelow(r, app, Own)}
  BY DEF RenamePackage, QualifyClasses, r
<1> QED BY <1>2, <1>3

TargetOp(raw, q, dom, d, i) == Rewrite(d, i, Android, "targetPackage", raw)
Targets == INSTANCE FoldFacts WITH Op <- TargetOp, Good <- RootGood

LEMMA RetargetOk == ASSUME NEW doc, RootOk(doc) PROVE RootOk(Retarget(doc))
<1> DEFINE S == {i \in DOMAIN doc : doc[i].name = "instrumentation" /\ doc[i].parent = Root(doc)}
           dom == DOMAIN doc
           raw == Str(prj.massage.renameTarget)
           n == Len(doc)
<1>1. IsFiniteSet(S) /\ S \subseteq dom
  <2>1. n \in Nat /\ S \subseteq 1..n /\ S \subseteq dom
    BY DEF RootOk, DocOk, IsList
  <2> HIDE DEF S, n, dom
  <2>2. IsFiniteSet(1..n)
    BY <2>1, FS_Interval
  <2> QED BY <2>1, <2>2, FS_Subset
<1>2. Retarget(doc) \in {doc, Targets!OfSet(raw, 0, dom, doc, S)}
  BY DEF Retarget, FoldSet, MapThenFoldSet, TargetOp, Targets!OfSet
<1> HIDE DEF S, raw
<1>3. RootGood(raw, 0, dom, doc)
  BY DEF RootGood
<1>4. ASSUME NEW acc, NEW i \in S, RootGood(raw, 0, dom, acc)
      PROVE  RootGood(raw, 0, dom, TargetOp(raw, 0, dom, acc, i))
  <2> DEFINE name == "targetPackage"
  <2>1. RootOk(acc) /\ DOMAIN acc = dom /\ i \in DOMAIN acc
    BY <1>1, <1>4 DEF RootGood
  <2> HIDE DEF name
  <2>2. RootOk(Rewrite(acc, i, Android, name, raw)) /\ DOMAIN Rewrite(acc, i, Android, name, raw) = DOMAIN acc
    BY <2>1, RewriteOk
  <2> QED BY <2>1, <2>2 DEF RootGood, TargetOp, name
<1> HIDE DEF dom
<1>5. RootGood(raw, 0, dom, Targets!OfSet(raw, 0, dom, doc, S))
  <2>1. Targets!Tame(S)
    BY <1>1, FiniteIsTame DEF Tame, Targets!Tame
  <2> QED BY <2>1, <1>3, <1>4, Targets!SetKeeps
<1> QED BY <1>2, <1>5 DEF RootGood

-----------------------------------------------------------------------------
(* What massageManifest has at hand. *)

MassageOk(s) == DOMAIN s = {"ok", "doc"} /\ RootOk(s.doc)

LEMMA WithDocOk ==
  ASSUME NEW s, MassageOk(s), NEW doc, RootOk(doc)
  PROVE  MassageOk([s EXCEPT !.doc = doc])
<1> DEFINE u == [s EXCEPT !.doc = doc]
<1>1. DOMAIN u = {"ok", "doc"} /\ u.doc = doc
  BY DEF MassageOk
<1> HIDE DEF u
<1>2. MassageOk(u)
  BY <1>1 DEF MassageOk
<1> QED BY <1>2 DEF u

LEMMA AddTagAttributeOk ==
  ASSUME NEW s, MassageOk(s), NEW i, NEW ns, NEW name, NEW value, NEW replace
  PROVE  MassageOk(AddTagAttribute(s, i, ns, name, value, replace))
<1> DEFINE at == Attribute(s.doc[i], ns, name)
           fresh == [s.doc EXCEPT ![i] = AddAttribute(s.doc[i], ns, name, value)]
           j == CHOOSE k \in at : TRUE
           replaced == [s.doc EXCEPT ![i].attrs[j].raw = value]
           wrong == ~prj.massage.errorOnFailedInsert
           u == [s EXCEPT !.ok = wrong]
<1>1. RootOk(s.doc)
  BY DEF MassageOk
<1>2. RootOk(fresh)
  BY <1>1, AddInRoot
<1>3. AddTagAttribute(s, i, ns, name, value, replace) \in
        {s, [s EXCEPT !.doc = fresh], [s EXCEPT !.doc = replaced], u}
  BY DEF AddTagAttribute
<1>4. RootOk(replaced)
  <2> HIDE DEF j
  <2> QED BY <1>1, RawInRoot
<1>5. MassageOk(u)
  <2> HIDE DEF wrong
  <2>1. DOMAIN u = {"ok", "doc"} /\ u.doc = s.doc
    BY DEF MassageOk
  <2> HIDE DEF u
  <2> QED BY <1>1, <2>1 DEF MassageOk
<1> HIDE DEF fresh, replaced, u
<1>6. MassageOk([s EXCEPT !.doc = fresh]) /\ MassageOk([s EXCEPT !.doc = replaced])
  BY <1>2, <1>4, WithDocOk
<1> QED BY <1>3, <1>5, <1>6

LEMMA InsertFirstOk ==
  ASSUME NEW doc, RootOk(doc), NEW name
  PROVE  RootOk(InsertFirst(doc, Root(doc), name))
<1> DEFINE root == Root(doc)
           n == Len(doc)
           From(i) == IF i > root + 1 THEN i - 1 ELSE i
           New1(i) == Node("element", root, NoNs, name)
           Moved(i) == [doc[From(i)] EXCEPT !.parent = IF @ > root THEN @ + 1 ELSE @]
           u == [i \in 1..(n + 1) |-> IF i = root + 1 THEN New1(i) ELSE Moved(i)]
<1>1. root \in 1..n /\ n \in Nat /\ DOMAIN doc = 1..n
  BY RootIsPlace DEF RootOk, DocOk, IsList
<1>2. InsertFirst(doc, root, name) = u
  BY DEF InsertFirst
<1> HIDE DEF root, n
<1>3. \A i : NodeOk(New1(i))
  BY NewNode
<1>4. \A i \in 1..(n + 1) : i # root + 1 => From(i) \in DOMAIN doc
  BY <1>1
<1>5. ASSUME NEW i \in 1..(n + 1), i # root + 1 PROVE NodeOk(Moved(i)) /\ SameElement(Moved(i), doc[From(i)])
  <2> DEFINE m == doc[From(i)]
             parent == IF m.parent > root THEN m.parent + 1 ELSE m.parent
             v == [m EXCEPT !.parent = parent]
  <2>1. NodeOk(m)
    BY <1>4, <1>5 DEF RootOk, DocOk
  <2>2. Moved(i) = v
    OBVIOUS
  <2> HIDE DEF m, parent
  <2>3. DOMAIN v = DOMAIN m /\ v.attrs = m.attrs /\ v.kind = m.kind /\ v.ns = m.ns /\ v.name = m.name
    BY <2>1 DEF NodeOk
  <2> HIDE DEF v
  <2>4. NodeOk(v) /\ SameElement(v, m)
    BY <2>1, <2>3 DEF NodeOk, SameElement
  <2> HIDE DEF Moved, From
  <2> QED BY <2>2, <2>4 DEF m
<1>6. From(root) = root /\ root \in 1..(n + 1) /\ root # root + 1 /\ n + 1 \in Nat
  BY <1>1
<1> HIDE DEF New1, Moved, From
<1>7. /\ u = [i \in 1..(n + 1) |-> u[i]] /\ DOMAIN u = 1..(n + 1)
      /\ \A i \in 1..(n + 1) : NodeOk(u[i])
      /\ u[root] = Moved(root)
  BY <1>3, <1>5, <1>6
<1> HIDE DEF u
<1>8. DocOk(u)
  <2> DEFINE k == n + 1
  <2>1. k \in Nat /\ u = [i \in 1..k |-> u[i]] /\ DOMAIN u = 1..k /\ \A i \in 1..k : NodeOk(u[i])
    BY <1>6, <1>7
  <2> HIDE DEF k
  <2>2. IsList(u)
    BY <2>1, FunctionIsList
  <2> QED BY <2>1, <2>2 DEF DocOk
<1>9. root \in SearchElement(doc, NoNs, "manifest")
  <2> DEFINE S == SearchElement(doc, NoNs, "manifest")
  <2>1. S \in SUBSET Nat /\ S # {}
    BY <1>1 DEF RootOk, SearchElement
  <2> HIDE DEF S
  <2>2. \E x \in S : \A m \in S : x <= m
    BY <2>1, SmallestNumber
  <2>3. Min(S) \in S
    BY <2>2 DEF Min
  <2> QED BY <2>3 DEF root, Root, S
<1>10. SameElement(u[root], doc[root])
  BY <1>5, <1>6, <1>7
<1>11. root \in SearchElement(u, NoNs, "manifest")
  BY <1>6, <1>7, <1>9, <1>10 DEF SearchElement, SameElement
<1> QED BY <1>2, <1>8, <1>11 DEF RootOk, root

MassageGood(p, q, r, s) == MassageOk(s)
VersionOp(p, q, r, u, name) == Tag(u, Root(u.doc), name, prj.massage.replaceVersion)
Versioning == INSTANCE FoldFacts WITH Op <- VersionOp, Good <- MassageGood
SdkOp(p, q, r, v, name) == Tag(v, Child(v.doc, "uses-sdk"), name, FALSE)
Sdks == INSTANCE FoldFacts WITH Op <- SdkOp, Good <- MassageGood
PlatformOp(p, q, r, u, name) == AddTagAttribute(u, Root(u.doc), NoNs, name, prj.massage[name], TRUE)
Platforms == INSTANCE FoldFacts WITH Op <- PlatformOp, Good <- MassageGood

LEMMA TagOpsOk ==
  ASSUME NEW s, MassageOk(s), NEW name
  PROVE  /\ MassageOk(VersionOp(0, 0, 0, s, name)) /\ MassageOk(SdkOp(0, 0, 0, s, name))
         /\ MassageOk(PlatformOp(0, 0, 0, s, name))
<1> DEFINE value == prj.massage[name]
           i == Root(s.doc)
           j == Child(s.doc, "uses-sdk")
           replace == prj.massage.replaceVersion
           yes == TRUE
           no == FALSE
<1>1. /\ VersionOp(0, 0, 0, s, name) = AddTagAttribute(s, i, Android, name, value, replace)
      /\ SdkOp(0, 0, 0, s, name) = AddTagAttribute(s, j, Android, name, value, no)
      /\ PlatformOp(0, 0, 0, s, name) = AddTagAttribute(s, i, NoNs, name, value, yes)
  BY DEF VersionOp, SdkOp, PlatformOp, Tag
<1> HIDE DEF value, i, j, replace, yes, no
<1>2. /\ MassageOk(AddTagAttribute(s, i, Android, name, value, replace))
      /\ MassageOk(AddTagAttribute(s, j, Android, name, value, no))
      /\ MassageOk(AddTagAttribute(s, i, NoNs, name, value, yes))
  BY AddTagAttributeOk
<1> QED BY <1>1, <1>2

LEMMA VersionedOk == ASSUME NEW s, MassageOk(s) PROVE MassageOk(Versioned(s))
<1> DEFINE names == <<"versionCode", "versionName">>
           n == Len(names)
<1>1. n \in Nat /\ DOMAIN names = 1..n
  OBVIOUS
<1>2. Versioned(s) = Versioning!Left(0, 0, 0, s, names)
  BY DEF Versioned, FoldLeft, MapThenFoldSet, VersionOp, Versioning!Left, Max
<1> HIDE DEF names, n
<1>3. MassageGood(0, 0, 0, s) /\ \A acc : \A i \in 1..n : MassageGood(0, 0, 0, acc) => MassageGood(0, 0, 0, VersionOp(0, 0, 0, acc, names[i]))
  BY TagOpsOk DEF MassageGood
<1>4. MassageGood(0, 0, 0, Versioning!Left(0, 0, 0, s, names))
  BY <1>1, <1>3, Versioning!LeftKeeps, SmallestNumber
<1> QED BY <1>2, <1>4 DEF MassageGood

LEMMA WithPlatformOk == ASSUME NEW s, MassageOk(s) PROVE MassageOk(WithPlatform(s))
<1> DEFINE names == <<"platformBuildVersionCode", "platformBuildVersionName">>
           n == Len(names)
<1>1. n \in Nat /\ DOMAIN names = 1..n
  OBVIOUS
<1>2. WithPlatform(s) = Platforms!Left(0, 0, 0, s, names)
  BY DEF WithPlatform, FoldLeft, MapThenFoldSet, PlatformOp, Platforms!Left, Max
<1> HIDE DEF names, n
<1>3. MassageGood(0, 0, 0, s) /\ \A acc : \A i \in 1..n : MassageGood(0, 0, 0, acc) => MassageGood(0, 0, 0, PlatformOp(0, 0, 0, acc, names[i]))
  BY TagOpsOk DEF MassageGood
<1>4. MassageGood(0, 0, 0, Platforms!Left(0, 0, 0, s, names))
  BY <1>1, <1>3, Platforms!LeftKeeps, SmallestNumber
<1> QED BY <1>2, <1>4 DEF MassageGood

LEMMA WithSdkOk == ASSUME NEW s, MassageOk(s) PROVE MassageOk(WithSdk(s))
<1> DEFINE u == WithUsesSdk(s)
           n == Len(SdkAttributes)
           inserted == InsertFirst(s.doc, Root(s.doc), "uses-sdk")
<1>1. MassageOk(u)
  <2>1. RootOk(inserted)
    BY InsertFirstOk DEF MassageOk
  <2>2. u \in {s, [s EXCEPT !.doc = inserted]}
    BY DEF WithUsesSdk
  <2> HIDE DEF inserted, u
  <2>3. MassageOk([s EXCEPT !.doc = inserted])
    BY <2>1, WithDocOk
  <2> QED BY <2>2, <2>3
<1>2. n \in Nat /\ DOMAIN SdkAttributes = 1..n
  BY DEF SdkAttributes
<1>3. WithSdk(s) \in {s, Sdks!Left(0, 0, 0, u, SdkAttributes)}
  BY DEF WithSdk, FoldLeft, MapThenFoldSet, SdkOp, Sdks!Left, Max
<1> HIDE DEF u, n
<1>4. MassageGood(0, 0, 0, u) /\ \A acc : \A i \in 1..n : MassageGood(0, 0, 0, acc) => MassageGood(0, 0, 0, SdkOp(0, 0, 0, acc, SdkAttributes[i]))
  BY <1>1, TagOpsOk DEF MassageGood
<1>5. MassageGood(0, 0, 0, Sdks!Left(0, 0, 0, u, SdkAttributes))
  BY <1>2, <1>4, Sdks!LeftKeeps, SmallestNumber
<1> QED BY <1>3, <1>5 DEF MassageGood

LEMMA DebuggableOk == ASSUME NEW s, MassageOk(s) PROVE MassageOk(Debuggable(s))
<1> DEFINE i == Child(s.doc, "application")
           name == "debuggable"
           value == prj.massage[name]
           no == FALSE
<1>1. Debuggable(s) \in {s, AddTagAttribute(s, i, Android, name, value, no)}
  BY DEF Debuggable, Tag
<1> HIDE DEF i, name, value, no
<1>2. MassageOk(AddTagAttribute(s, i, Android, name, value, no))
  BY AddTagAttributeOk
<1> QED BY <1>1, <1>2

LEMMA FeatureSplitOk == ASSUME NEW s, MassageOk(s) PROVE MassageOk(FeatureSplit(s))
<1> DEFINE i == Root(s.doc)
           name == "split"
           raw == Str("feature_" \o TextOf(s.doc[Root(s.doc)], NoNs, "featureName"))
           doc == [s.doc EXCEPT ![i] = AddAttribute(s.doc[i], NoNs, name, raw)]
<1>1. FeatureSplit(s) \in {s, [s EXCEPT !.doc = doc]}
  BY DEF FeatureSplit
<1>2. RootOk(doc)
  <2>1. RootOk(s.doc)
    BY DEF MassageOk
  <2> HIDE DEF i, name, raw
  <2> QED BY <2>1, AddInRoot
<1> HIDE DEF doc
<1> QED BY <1>1, <1>2, WithDocOk

LEMMA MassageManifestOk == ASSUME NEW doc, DocOk(doc) PROVE DocOk(MassageManifest(doc).doc)
<1>1. CASE SearchElement(doc, NoNs, "manifest") = {}
  BY <1>1 DEF MassageManifest
<1>2. CASE SearchElement(doc, NoNs, "manifest") # {}
  <2> DEFINE s0 == [ok |-> TRUE, doc |-> doc]
             s1 == Versioned(s0)
             s2 == WithSdk(s1)
             s3 == WithPlatform(s2)
             s4 == Debuggable(s3)
             renamed == RenamePackage(s4.doc)
             targeted == Retarget(renamed)
             s5 == [s4 EXCEPT !.doc = targeted]
             s6 == FeatureSplit(s5)
  <2>0. MassageManifest(doc) = WithMinSdk(s6)
    BY <1>2 DEF MassageManifest, Renamed
  <2>1. MassageOk(s0)
    BY <1>2 DEF MassageOk, RootOk
  <2> HIDE DEF s0
  <2>2. MassageOk(s1)
    BY <2>1, VersionedOk
  <2> HIDE DEF s1
  <2>3. MassageOk(s2)
    BY <2>2, WithSdkOk
  <2> HIDE DEF s2
  <2>4. MassageOk(s3)
    BY <2>3, WithPlatformOk
  <2> HIDE DEF s3
  <2>5. MassageOk(s4)
    BY <2>4, DebuggableOk
  <2> HIDE DEF s4
  <2>6. RootOk(renamed)
    BY <2>5, RenameOk DEF MassageOk
  <2> HIDE DEF renamed
  <2>7. RootOk(targeted)
    BY <2>6, RetargetOk
  <2> HIDE DEF targeted
  <2>8. MassageOk(s5)
    BY <2>5, <2>7, WithDocOk
  <2> HIDE DEF s5
  <2>9. MassageOk(s6)
    BY <2>8, FeatureSplitOk
  <2> HIDE DEF s6
  <2> QED BY <2>0, <2>9 DEF WithMinSdk, MassageOk, RootOk
<1> QED BY <1>1, <1>2

\* The manifest of a split.
LEMMA SplitManifestOk == ASSUME NEW config PROVE DocOk(SplitManifest(config))
<1> DEFINE n1 == Node("namespace", 0, Android, "")
           n2 == Node("element", 1, NoNs, "manifest")
           n3 == Node("element", 2, NoNs, "application")
           package == Str(IF prj.massage.rename = "" THEN Own ELSE prj.massage.rename)
           code == prj.massage.versionCode
           root == AddAttribute(n2, NoNs, "package", package)
           versioned == IF prj.massage.versionCode.k = "none" THEN root ELSE AddAttribute(root, Android, "versionCode", code)
           m == AddAttribute(versioned, NoNs, "split", Str("config." \o config))
           a == AddAttribute(n3, Android, "hasCode", Str("false"))
           doc == <<n1, m, a>>
<1>0. SplitManifest(config) = doc
  BY DEF SplitManifest
<1>1. NodeOk(n1) /\ NodeOk(n2) /\ NodeOk(n3)
  BY NewNode
<1> HIDE DEF n1, n2, n3, package, code
<1>2. NodeOk(root)
  <2> DEFINE name == "package"
  <2> HIDE DEF name
  <2>1. NodeOk(AddAttribute(n2, NoNs, name, package))
    BY <1>1, AddAttributeOk
  <2> QED BY <2>1 DEF name
<1> HIDE DEF root
<1>3. NodeOk(versioned)
  <2> DEFINE name == "versionCode"
  <2> HIDE DEF name
  <2>1. NodeOk(AddAttribute(root, Android, name, code))
    BY <1>2, AddAttributeOk
  <2>2. versioned \in {root, AddAttribute(root, Android, name, code)}
    BY DEF name
  <2> QED BY <1>2, <2>1, <2>2
<1> HIDE DEF versioned
<1>4. NodeOk(m)
  <2> DEFINE name == "split"
             raw == Str("config." \o config)
  <2> HIDE DEF name, raw
  <2>1. NodeOk(AddAttribute(versioned, NoNs, name, raw))
    BY <1>3, AddAttributeOk
  <2> QED BY <2>1 DEF name, raw
<1>5. NodeOk(a)
  <2> DEFINE name == "hasCode"
             raw == Str("false")
  <2> HIDE DEF name, raw
  <2>1. NodeOk(AddAttribute(n3, Android, name, raw))
    BY <1>1, AddAttributeOk
  <2> QED BY <2>1 DEF name, raw
<1> HIDE DEF m, a
<1>6. doc \in Seq({n1, m, a}) /\ DOMAIN doc = 1..3 /\ doc[1] = n1 /\ doc[2] = m /\ doc[3] = a
  OBVIOUS
<1> HIDE DEF doc
<1>7. IsList(doc) /\ \A i \in DOMAIN doc : doc[i] \in {n1, m, a}
  BY <1>6, ListIsSeq
<1>8. DocOk(doc)
  BY <1>1, <1>4, <1>5, <1>7 DEF DocOk
<1> QED BY <1>0, <1>8

-----------------------------------------------------------------------------
(* modifyForCompat of the table. *)

LEMMA LAttributeIds ==
  ASSUME NEW t, NEW id
  PROVE  IsAttributeFromL(t, id) <=> id \in LIds(t.opt.included)
BY DEF IsAttributeFromL, IncludedAttr, LIds

LEMMA RankIsNumber == \A c : RankIn(ConfigOrder, c) \in Nat
<1>1. IsList(ConfigOrder)
  BY SourcesAssumption DEF IsOrder
<1>2. Len(ConfigOrder) \in Nat /\ DOMAIN ConfigOrder = 1..Len(ConfigOrder)
  BY <1>1 DEF IsList
<1> QED BY <1>2 DEF RankIn, ToSet

\* The attributes of L that a bag has, those its slots have the ids of among them.
LEMMA KeysAreFound ==
  ASSUME NEW opt, NEW t, Tab("early", opt, t), NEW k \in DOMAIN t.entries,
         NEW b \in DOMAIN t.entries[k].bag, t.entries[k].bag[b].keyId \in LIds(opt.included)
  PROVE  Internal(t.entries[k].bag[b].keyId) \/ b \in LAttributes(t, k)
<1> DEFINE id == t.entries[k].bag[b].keyId
           ref == <<b[1], "attr", b[2]>>
           inc == opt.included
<1>1. t.opt = opt /\ KeyOk(inc, b, id)
  BY DEF Tab, TableOk, EntryOk, SlotOk
<1>2. SUFFICES ASSUME ~Internal(id) PROVE b \in LAttributes(t, k)
  OBVIOUS
<1>3. b[1] # "^" /\ Means(inc, ref, id)
  BY <1>1, <1>2 DEF KeyOk
<1>4. Resolve(t, ref, TRUE) = id
  <2> HIDE DEF ref, id
  <2> QED BY <1>1, <1>3 DEF Means, Resolve
<1>5. IsAttributeFromL(t, Resolve(t, ref, TRUE))
  BY <1>1, <1>4, LAttributeIds
<1> QED BY <1>3, <1>5 DEF LAttributes

\* What becomes of an entry.
LEMMA RemovedOk ==
  ASSUME NEW inc, NEW e, EntryOk(inc, e), NEW keys
  PROVE  /\ EntryOk(inc, RemoveFromBag(e, keys)) /\ RemoveFromBag(e, keys).kind = e.kind
         /\ RemoveFromBag(e, keys).bag = [b \in DOMAIN e.bag \ keys |-> e.bag[b]]
<1> DEFINE bag == [b \in DOMAIN e.bag \ keys |-> e.bag[b]]
           u == [e EXCEPT !.bag = bag]
<1>1. RemoveFromBag(e, keys) = u
  BY DEF RemoveFromBag
<1>2. DOMAIN bag \subseteq DOMAIN e.bag /\ \A b \in DOMAIN bag : bag[b] = e.bag[b]
  OBVIOUS
<1>3. IsFiniteSet(DOMAIN bag) /\ \A b \in DOMAIN bag : SlotOk(inc, b, bag[b])
  <2> HIDE DEF bag
  <2>1. IsFiniteSet(DOMAIN bag)
    BY <1>2, FS_Subset DEF EntryOk
  <2> QED BY <1>2, <2>1 DEF EntryOk
<1> HIDE DEF bag
<1>4. /\ DOMAIN u = DOMAIN e /\ u.bag = bag /\ u.kind = e.kind /\ u.parent = e.parent
  BY DEF EntryOk
<1> HIDE DEF u
<1>5. EntryOk(inc, u)
  BY <1>3, <1>4 DEF EntryOk
<1> QED BY <1>1, <1>4, <1>5 DEF bag

\* Of the bags that are copied to one place the one that comes first.
FirstCopied(hit, n) == CHOOSE k \in hit : n = CopyOf(k) /\ \A l \in hit : n = CopyOf(l) => ~Earlier(l[3], k[3])

LEMMA OriginalIsHit ==
  ASSUME NEW hit, NEW n, \E k \in hit : n = CopyOf(k)
  PROVE  FirstCopied(hit, n) \in hit /\ n = CopyOf(FirstCopied(hit, n))
<1> DEFINE H == {k \in hit : n = CopyOf(k)}
           R == {RankIn(ConfigOrder, k[3]) : k \in H}
<1>1. R \in SUBSET Nat /\ R # {}
  BY RankIsNumber
<1>2. PICK r \in R : \A s \in R : r <= s
  <2> HIDE DEF R
  <2> QED BY <1>1, SmallestNumber
<1>3. PICK k \in H : r = RankIn(ConfigOrder, k[3])
  BY <1>2
<1>4. \A l \in hit : n = CopyOf(l) => ~Earlier(l[3], k[3])
  <2> SUFFICES ASSUME NEW l \in hit, n = CopyOf(l) PROVE ~Earlier(l[3], k[3])
    OBVIOUS
  <2>1. RankIn(ConfigOrder, l[3]) \in R
    OBVIOUS
  <2>2. RankIn(ConfigOrder, l[3]) \in Nat /\ RankIn(ConfigOrder, k[3]) \in Nat
    BY RankIsNumber
  <2> HIDE DEF R
  <2> QED BY <1>2, <1>3, <2>1, <2>2 DEF Earlier
<1>5. k \in hit /\ n = CopyOf(k)
  OBVIOUS
<1> QED BY <1>4, <1>5 DEF FirstCopied

LEMMA SplitBagsTab ==
  ASSUME NEW opt, NEW t, Tab("early", opt, t)
  PROVE  Tab("late", opt, SplitBags(t, BagsWithL(t)))
<1> DEFINE hit == BagsWithL(t)
           new == {CopyOf(k) : k \in hit} \ DOMAIN t.entries
           entries == [k \in DOMAIN t.entries \cup new |->
                         IF k \in new THEN t.entries[FirstCopied(hit, k)]
                         ELSE IF k \in hit THEN RemoveFromBag(t.entries[k], LAttributes(t, k)) ELSE t.entries[k]]
           u == [t EXCEPT !.entries = entries]
           inc == opt.included
<1>1. SplitBags(t, hit) = u
  BY DEF SplitBags, FirstCopied
<1>2. /\ DOMAIN t = TableFields /\ t.opt = opt /\ IsFiniteSet(DOMAIN t.entries)
      /\ \A k \in DOMAIN t.entries : "sdk" \in DOMAIN k[3] /\ EntryOk(inc, t.entries[k])
  BY DEF Tab, TableOk
<1>3. hit \subseteq DOMAIN t.entries
  BY DEF BagsWithL
<1>4. \A n \in new : FirstCopied(hit, n) \in hit /\ n = CopyOf(FirstCopied(hit, n))
  <2> TAKE n \in new
  <2>1. \E k \in hit : n = CopyOf(k)
    OBVIOUS
  <2> HIDE DEF hit, new
  <2> QED BY <2>1, OriginalIsHit
<1>5. \A k \in new : k[3].sdk = SDK_L /\ "sdk" \in DOMAIN k[3]
  <2> TAKE k \in new
  <2> DEFINE o == FirstCopied(hit, k)
  <2>1. k = CopyOf(o) /\ "sdk" \in DOMAIN o[3]
    BY <1>2, <1>3, <1>4
  <2> HIDE DEF o
  <2>2. k[3] = AtL(o[3])
    BY <2>1 DEF CopyOf
  <2> QED BY <2>1, <2>2 DEF AtL
<1>6. IsFiniteSet(DOMAIN t.entries \cup new)
  <2> DEFINE S == {CopyOf(k) : k \in hit}
  <2>1. IsFiniteSet(hit)
    BY <1>2, <1>3, FS_Subset
  <2>2. IsFiniteSet(S)
    <3> DEFINE f == [k \in hit |-> CopyOf(k)]
    <3>1. S = {f[k] : k \in hit}
      OBVIOUS
    <3> HIDE DEF f, S, hit
    <3> QED BY <2>1, <3>1, FiniteImage
  <2>3. new \subseteq S
    OBVIOUS
  <2> HIDE DEF S, new
  <2>4. IsFiniteSet(new)
    BY <2>2, <2>3, FS_Subset
  <2> QED BY <1>2, <2>4, FS_Union
<1>7. \A k \in DOMAIN entries : "sdk" \in DOMAIN k[3] /\ EntryOk(inc, entries[k])
  <2> TAKE k \in DOMAIN entries
  <2>1. CASE k \in new
    <3> DEFINE o == FirstCopied(hit, k)
    <3>1. entries[k] = t.entries[o]
      BY <2>1
    <3>2. o \in DOMAIN t.entries
      BY <1>3, <1>4, <2>1
    <3> HIDE DEF new, entries, hit, o
    <3>3. EntryOk(inc, t.entries[o])
      BY <1>2, <3>2
    <3> QED BY <1>5, <2>1, <3>1, <3>3
  <2>2. CASE k \notin new
    <3>1. k \in DOMAIN t.entries /\ entries[k] \in {t.entries[k], RemoveFromBag(t.entries[k], LAttributes(t, k))}
      BY <2>2
    <3> HIDE DEF new, entries, hit
    <3>2. EntryOk(inc, t.entries[k]) /\ "sdk" \in DOMAIN k[3]
      BY <1>2, <3>1
    <3> DEFINE e == t.entries[k]
               gone == LAttributes(t, k)
               rest == RemoveFromBag(e, gone)
    <3>3. EntryOk(inc, rest)
      <4> HIDE DEF e, gone
      <4> QED BY <3>2, RemovedOk DEF e
    <3> HIDE DEF rest
    <3> QED BY <3>1, <3>2, <3>3 DEF rest
  <2> HIDE DEF new, entries, hit
  <2> QED BY <2>1, <2>2
<1>8. \A k \in DOMAIN entries : OldBagClean(inc, k, entries[k])
  <2> SUFFICES ASSUME NEW k \in DOMAIN entries, entries[k].kind = "bag", k[3].sdk < SDK_L,
                      NEW b \in DOMAIN entries[k].bag, entries[k].bag[b].keyId \in LIds(inc)
               PROVE  Internal(entries[k].bag[b].keyId)
    BY DEF OldBagClean
  <2>1. k \notin new
    BY <1>5 DEF SDK_L
  <2>2. k \in DOMAIN t.entries
    BY <2>1
  <2>3. CASE k \in hit
    <3> DEFINE e == t.entries[k]
               L == LAttributes(t, k)
    <3>1. entries[k] = RemoveFromBag(e, L)
      BY <2>1, <2>3
    <3> HIDE DEF entries, new, hit
    <3>2. EntryOk(inc, e)
      BY <1>2, <2>2
    <3> HIDE DEF L
    <3>3. entries[k].bag = [a \in DOMAIN e.bag \ L |-> e.bag[a]]
      BY <3>1, <3>2, RemovedOk
    <3>4. b \in DOMAIN e.bag /\ b \notin L /\ entries[k].bag[b] = e.bag[b]
      BY <3>3
    <3> QED BY <2>2, <3>4, KeysAreFound DEF L
  <2>4. CASE k \notin hit
    <3>1. entries[k] = t.entries[k]
      BY <2>1, <2>4
    <3>2. LAttributes(t, k) = {}
      BY <2>2, <2>4, <3>1 DEF BagsWithL
    <3> HIDE DEF entries, new, hit
    <3> QED BY <2>2, <3>1, <3>2, KeysAreFound
  <2> QED BY <2>3, <2>4
<1> DEFINE dom == DOMAIN t.entries \cup new
<1>9. DOMAIN entries = dom
  OBVIOUS
<1> HIDE DEF entries, new, hit, dom
<1>10. /\ DOMAIN u = TableFields /\ u.types = t.types /\ u.order = t.order
       /\ u.entries = entries /\ u.pubType = t.pubType /\ u.cache = t.cache /\ u.work = t.work /\ u.opt = t.opt
  BY <1>2 DEF TableFields
<1> HIDE DEF u
<1>11. Tab("early", opt, u)
  <2>1. IsFiniteSet(DOMAIN u.entries)
    BY <1>6, <1>9, <1>10 DEF dom
  <2>2. \A k \in DOMAIN u.entries : "sdk" \in DOMAIN k[3] /\ EntryOk(t.opt.included, u.entries[k])
    BY <1>2, <1>7, <1>10
  <2> QED BY <1>2, <1>10, <2>1, <2>2 DEF Tab, TableOk
<1>12. Clean(u)
  BY <1>2, <1>8, <1>10 DEF Clean
<1> QED BY <1>1, <1>11, <1>12 DEF Tab, hit

LEMMA ModifyForCompatTab ==
  ASSUME NEW opt, NEW t, Tab("early", opt, t)
  PROVE  Tab("late", opt, ModifyForCompat(t))
<1>1. CASE IsMinSdkVersionLOrAbove(t)
  BY <1>1 DEF ModifyForCompat, Tab, Clean
<1>2. CASE ~IsMinSdkVersionLOrAbove(t)
  BY <1>2, SplitBagsTab DEF ModifyForCompat
<1> QED BY <1>1, <1>2

\* The least platform of the manifest is that of the table.
LEMMA MinSdkTab ==
  ASSUME NEW opt, NEW t, Tab("early", opt, t), NEW x
  PROVE  Tab("early", [opt EXCEPT !.minSdk = x], [t EXCEPT !.opt.minSdk = x])
<1> DEFINE o == [opt EXCEPT !.minSdk = x]
           u == [t EXCEPT !.opt.minSdk = x]
<1>1. DOMAIN t = TableFields /\ t.opt = opt /\ {"included", "minSdk", "packageId"} \subseteq DOMAIN opt
  BY DEF Tab, TableOk
<1>2. DOMAIN o = DOMAIN opt /\ o.included = opt.included /\ o.packageId = opt.packageId
  BY <1>1
<1>a. u = [t EXCEPT !.opt = [t.opt EXCEPT !.minSdk = x]]
  OBVIOUS
<1>b. u = [t EXCEPT !.opt = o]
  BY <1>1, <1>a
<1> HIDE DEF o, u
<1>3. /\ DOMAIN u = TableFields /\ u.types = t.types /\ u.order = t.order
      /\ u.entries = t.entries /\ u.pubType = t.pubType /\ u.cache = t.cache /\ u.work = t.work /\ u.opt = o
  BY <1>1, <1>b DEF TableFields
<1>4. TableOk(u)
  BY <1>1, <1>2, <1>3 DEF Tab, TableOk
<1> QED BY <1>3, <1>4 DEF Tab, o, u

-----------------------------------------------------------------------------
(* flatten: the table of one APK. *)

\* The accumulator of the first pass.
PrepOk(opt, acc) == DOMAIN acc = {"t", "pool", "values"} /\ Tab("late", opt, acc.t)

LEMMA PrepareValueOk ==
  ASSUME NEW opt, NEW acc, PrepOk(opt, acc), NEW key, NEW slot, NEW x
  PROVE  PrepOk(opt, PrepareValue(acc, key, slot, x))
<1> DEFINE c == "late"
           name == ConfigTypeName(key[1])
           r == StringToValue(acc.t, acc.pool, x.value, x.keyId, x.format, name, key[3])
<1>1. Tab(c, opt, acc.t)
  BY DEF PrepOk
<1> HIDE DEF c, name
<1>2. Tab(c, opt, r.t)
  BY <1>1, StringToValueTab
<1>3. PrepareValue(acc, key, slot, x) \in {acc, Prepared(acc, key, slot, r)}
  BY DEF PrepareValue, name
<1> HIDE DEF r
<1>4. PrepOk(opt, Prepared(acc, key, slot, r))
  BY <1>2 DEF Prepared, PrepOk, c
<1> QED BY <1>3, <1>4

\* The values of an entry, one after the other.
SlotOp(key, slots, r, a, s) == PrepareValue(a, key, s, slots[s])
SlotGood(key, slots, opt, a) == PrepOk(opt, a)
Slotting == INSTANCE FoldFacts WITH Op <- SlotOp, Good <- SlotGood

LEMMA PrepareSlotsOk ==
  ASSUME NEW opt, NEW acc, PrepOk(opt, acc), NEW key, NEW slots, IsFiniteSet(DOMAIN slots)
  PROVE  PrepOk(opt, PrepareSlots(acc, key, slots))
<1> DEFINE S == DOMAIN slots
<1>1. PrepareSlots(acc, key, slots) = Slotting!OfSet(key, slots, opt, acc, S)
  BY DEF PrepareSlots, FoldSet, MapThenFoldSet, SlotOp, Slotting!OfSet
<1>2. SlotGood(key, slots, opt, acc)
  BY DEF SlotGood
<1>3. \A a : \A s \in S : SlotGood(key, slots, opt, a) => SlotGood(key, slots, opt, SlotOp(key, slots, opt, a, s))
  BY PrepareValueOk DEF SlotGood, SlotOp
<1>4. IsFiniteSet(S)
  OBVIOUS
<1> HIDE DEF S
<1>5. SlotGood(key, slots, opt, Slotting!OfSet(key, slots, opt, acc, S))
  <2>1. Slotting!Tame(S)
    BY <1>4, FiniteIsTame DEF Tame, Slotting!Tame
  <2> QED BY <1>2, <1>3, <2>1, Slotting!SetKeeps
<1> QED BY <1>1, <1>5 DEF SlotGood

LEMMA SlotsAreFinite ==
  ASSUME NEW inc, NEW e, EntryOk(inc, e)
  PROVE  IsFiniteSet(DOMAIN Slots(e))
<1>1. CASE e.kind = "bag"
  BY <1>1 DEF Slots, EntryOk
<1>2. CASE e.kind # "bag"
  <2> DEFINE one == {<< >>}
             s == [x \in one |-> [value |-> e.item, keyId |-> NoId, format |-> e.format]]
  <2>1. Slots(e) = s /\ DOMAIN s = one
    BY <1>2 DEF Slots
  <2>2. IsFiniteSet(one)
    BY FS_Singleton
  <2> HIDE DEF one, s
  <2> QED BY <2>1, <2>2
<1> QED BY <1>1, <1>2

LEMMA PrepareFlattenOk ==
  ASSUME NEW opt, NEW acc, PrepOk(opt, acc), NEW key
  PROVE  PrepOk(opt, PrepareFlatten(acc, key))
<1>1. CASE key \notin DOMAIN acc.t.entries
  BY <1>1 DEF PrepareFlatten
<1>2. CASE key \in DOMAIN acc.t.entries
  <2> DEFINE e == acc.t.entries[key]
             c == "late"
             slots == Slots(e)
  <2>1. PrepareFlatten(acc, key) = PrepareEntry(acc, key, e)
    BY <1>2 DEF PrepareFlatten
  <2>2. EntryOk(acc.t.opt.included, e)
    BY <1>2 DEF PrepOk, Tab, TableOk
  <2>3. IsFiniteSet(DOMAIN slots)
    <3> HIDE DEF e
    <3> QED BY <2>2, SlotsAreFinite
  <2>4. Tab(c, opt, acc.t)
    BY DEF PrepOk
  <2> HIDE DEF e, c
  <2>5. Tab(c, opt, Fail(acc.t))
    BY <2>4, FailTab
  <2>6. PrepOk(opt, [acc EXCEPT !.t = Fail(acc.t)])
    BY <2>5 DEF PrepOk, c
  <2>7. PrepOk(opt, PrepareSlots(acc, key, slots))
    <3> HIDE DEF slots
    <3> QED BY <2>3, PrepareSlotsOk
  <2>8. PrepareEntry(acc, key, e) \in {[acc EXCEPT !.t = Fail(acc.t)], PrepareSlots(acc, key, slots)}
    BY DEF PrepareEntry
  <2> HIDE DEF slots
  <2> QED BY <2>1, <2>6, <2>7, <2>8
<1> QED BY <1>1, <1>2

\* The entries of the table in its order are a list.
ConfigsWritten(t, written, type, name) == {c \in Configs(t, type, name) : <<type, name, c>> \in written}
KeysOfName(t, written, type, name) ==
    LET cs == Ordered(ConfigsWritten(t, written, type, name), Earlier)
    IN  [i \in DOMAIN cs |-> <<type, name, cs[i]>>]
KeysOfType(t, written, type) ==
    FlattenSeq([n \in DOMAIN t.order[type] |-> KeysOfName(t, written, type, t.order[type][n])])
KeysOf(t, written) ==
    FlattenSeq([i \in DOMAIN t.types |->
                  IF t.types[i] \in DOMAIN t.order THEN KeysOfType(t, written, t.types[i]) ELSE << >>])

LEMMA ConfigsAreFinite ==
  ASSUME NEW t, IsFiniteSet(DOMAIN t.entries), NEW written, NEW type, NEW name
  PROVE  IsFiniteSet(ConfigsWritten(t, written, type, name))
<1> DEFINE D == DOMAIN t.entries
           E == {e \in D : e[1] = type /\ e[2] = name}
           f == [k \in E |-> k[3]]
           C == {k[3] : k \in E}
           S == ConfigsWritten(t, written, type, name)
<1>1. IsFiniteSet(E)
  <2>1. E \subseteq D /\ IsFiniteSet(D)
    OBVIOUS
  <2> HIDE DEF E, D
  <2> QED BY <2>1, FS_Subset
<1>2. C = {f[k] : k \in E} /\ S \subseteq C
  BY DEF ConfigsWritten, Configs
<1> HIDE DEF f, E, C, S
<1>3. IsFiniteSet(C)
  BY <1>1, <1>2, FiniteImage
<1>4. IsFiniteSet(S)
  BY <1>2, <1>3, FS_Subset
<1> QED BY <1>4 DEF S

LEMMA KeysOfNameAreList ==
  ASSUME NEW t, IsFiniteSet(DOMAIN t.entries), NEW written, NEW type, NEW name
  PROVE  IsList(KeysOfName(t, written, type, name))
<1> DEFINE S == ConfigsWritten(t, written, type, name)
           cs == Ordered(S, Earlier)
           n == Cardinality(S)
           f == [i \in DOMAIN cs |-> <<type, name, cs[i]>>]
<1>1. n \in Nat
  <2>1. IsFiniteSet(S)
    BY ConfigsAreFinite
  <2> HIDE DEF S
  <2> QED BY <2>1, FS_CardinalityType
<1>2. DOMAIN cs = 1..n
  BY DEF Ordered
<1> HIDE DEF n, cs, S
<1>3. f = [i \in 1..n |-> f[i]]
  BY <1>2
<1>4. KeysOfName(t, written, type, name) = f
  BY DEF KeysOfName, cs, S
<1> HIDE DEF f
<1>5. IsList(f)
  BY <1>1, <1>3, FunctionIsList
<1> QED BY <1>4, <1>5

LEMMA KeysOfTypeAreList ==
  ASSUME NEW t, IsFiniteSet(DOMAIN t.entries), NEW written, NEW type, IsList(t.order[type])
  PROVE  IsList(KeysOfType(t, written, type))
<1> DEFINE list == t.order[type]
           n == Len(list)
           ss == [x \in DOMAIN list |-> KeysOfName(t, written, type, list[x])]
<1>1. n \in Nat /\ DOMAIN list = 1..n
  BY DEF IsList
<1>2. KeysOfType(t, written, type) = FlattenSeq(ss)
  BY DEF KeysOfType
<1>3. \A i \in DOMAIN ss : IsList(ss[i])
  BY KeysOfNameAreList
<1>4. IsList(ss)
  <2>1. ss = [i \in 1..n |-> ss[i]]
    BY <1>1
  <2> HIDE DEF ss, n
  <2> QED BY <1>1, <2>1, FunctionIsList
<1> HIDE DEF ss
<1>5. IsList(FlattenSeq(ss))
  BY <1>3, <1>4, FlattenIsList
<1> QED BY <1>2, <1>5

LEMMA KeysAreList ==
  ASSUME NEW t, TableOk(t), NEW written
  PROVE  IsList(KeysOf(t, written))
<1> DEFINE list == t.types
           n == Len(list)
           ss == [i \in DOMAIN list |->
                    IF list[i] \in DOMAIN t.order THEN KeysOfType(t, written, list[i]) ELSE << >>]
<1>1. n \in Nat /\ DOMAIN list = 1..n
  BY DEF TableOk, IsList
<1>2. KeysOf(t, written) = FlattenSeq(ss)
  BY DEF KeysOf
<1>3. ASSUME NEW i \in DOMAIN ss PROVE IsList(ss[i])
  <2> DEFINE type == list[i]
  <2>1. CASE type \notin DOMAIN t.order
    <3>1. ss[i] = << >>
      BY <2>1
    <3> HIDE DEF ss
    <3> QED BY <3>1, EmptyIsList
  <2>2. CASE type \in DOMAIN t.order
    <3>1. ss[i] = KeysOfType(t, written, type)
      BY <2>2
    <3>2. IsList(t.order[type]) /\ IsFiniteSet(DOMAIN t.entries)
      BY <2>2 DEF TableOk
    <3> HIDE DEF ss, type
    <3>3. IsList(KeysOfType(t, written, type))
      BY <3>2, KeysOfTypeAreList
    <3> QED BY <3>1, <3>3
  <2> QED BY <2>1, <2>2
<1>4. IsList(ss)
  <2>1. ss = [i \in 1..n |-> ss[i]]
    BY <1>1
  <2> HIDE DEF ss, n
  <2> QED BY <1>1, <2>1, FunctionIsList
<1> HIDE DEF ss
<1>5. IsList(FlattenSeq(ss))
  BY <1>3, <1>4, FlattenIsList
<1> QED BY <1>2, <1>5

PassOp(p, q, r, acc, key) == PrepareFlatten(acc, key)
PassGood(opt, q, r, acc) == PrepOk(opt, acc)
Pass == INSTANCE FoldFacts WITH Op <- PassOp, Good <- PassGood

\* The first pass leaves the table as it must be.
LEMMA CollectOk ==
  ASSUME NEW opt, NEW t, Tab("late", opt, t), NEW written
  PROVE  PrepOk(opt, Collect(t, written))
<1> DEFINE c == "late"
           list == KeysOf(t, written)
           base == [t |-> Good(t), pool |-> EmptyPool, values |-> << >>]
           n == Len(list)
<1>1. IsList(list)
  BY KeysAreList DEF Tab
<1>2. Collect(t, written) = FoldLeft(PrepareFlatten, base, list)
  BY DEF Collect, KeysOf, KeysOfType, KeysOfName, ConfigsWritten
<1>3. FoldLeft(PrepareFlatten, base, list) = Pass!Left(opt, 0, 0, base, list)
  BY DEF FoldLeft, MapThenFoldSet, PassOp, Pass!Left, Max
<1>4. PassGood(opt, 0, 0, base)
  <2>1. Tab(c, opt, t)
    OBVIOUS
  <2> HIDE DEF c
  <2>2. Tab(c, opt, Good(t))
    BY <2>1, FailTab
  <2> QED BY <2>2 DEF PassGood, PrepOk, c
<1> HIDE DEF list, base
<1>5. n \in Nat /\ DOMAIN list = 1..n
  BY <1>1 DEF IsList
<1>6. \A acc : \A i \in 1..n : PassGood(opt, 0, 0, acc) => PassGood(opt, 0, 0, PassOp(opt, 0, 0, acc, list[i]))
  BY PrepareFlattenOk DEF PassGood, PassOp
<1>7. PassGood(opt, 0, 0, Pass!Left(opt, 0, 0, base, list))
  <2> HIDE DEF n
  <2> QED BY <1>4, <1>5, <1>6, Pass!LeftKeeps, SmallestNumber
<1> QED BY <1>2, <1>3, <1>7 DEF PassGood

-----------------------------------------------------------------------------
(* The chunks: what an APK has of a bag is what the table has of it. *)

ChunksClean(inc, chunks) ==
    \A c \in chunks : c.config.sdk < SDK_L =>
        \A n \in DOMAIN c.entries : "map" \in DOMAIN c.entries[n] =>
            \A id \in DOMAIN c.entries[n].map : Internal(id) \/ id \notin LIds(inc)

LEMMA FlatEntryIds ==
  ASSUME NEW t, NEW values, NEW key, "map" \in DOMAIN FlatEntry(t, values, key),
         NEW id \in DOMAIN FlatEntry(t, values, key).map
  PROVE  t.entries[key].kind = "bag" /\ \E b \in DOMAIN t.entries[key].bag : id = t.entries[key].bag[b].keyId
<1> DEFINE e == t.entries[key]
           V(slot) == IF <<key, slot>> \in DOMAIN values THEN values[<<key, slot>>] ELSE <<"null">>
           ids == {e.bag[b].keyId : b \in DOMAIN e.bag}
           map == [x \in ids |-> V(CHOOSE b \in DOMAIN e.bag : e.bag[b].keyId = x)]
           v == V(<< >>)
           item == [key |-> key[2], value |-> v]
           bag == [key |-> key[2], parent |-> e.parentId, map |-> map]
<1>1. FlatEntry(t, values, key) = IF e.kind # "bag" THEN item ELSE bag
  BY DEF FlatEntry
<1>2. DOMAIN map = ids
  OBVIOUS
<1> HIDE DEF map, V, v
<1>3. "map" \notin DOMAIN item /\ bag.map = map
  OBVIOUS
<1> HIDE DEF item, bag
<1>4. e.kind = "bag"
  BY <1>1, <1>3
<1>5. id \in ids
  BY <1>1, <1>2, <1>3, <1>4
<1> QED BY <1>4, <1>5

LEMMA TypeChunksClean ==
  ASSUME NEW t, \A k \in DOMAIN t.entries : OldBagClean(t.opt.included, k, t.entries[k]),
         NEW strings, NEW written, written \subseteq DOMAIN t.entries, NEW values
  PROVE  ChunksClean(t.opt.included, TypeChunks(t, strings, written, values))
<1> DEFINE PlacesIn(type, c) == {x \in DOMAIN t.order[type] : <<type, t.order[type][x], c>> \in written}
           Entries(type, c) == [n \in PlacesIn(type, c) |-> FlatEntry(t, values, <<type, t.order[type][n], c>>)]
<1>1. SUFFICES ASSUME NEW c \in TypeChunks(t, strings, written, values), c.config.sdk < SDK_L,
                      NEW n \in DOMAIN c.entries, "map" \in DOMAIN c.entries[n],
                      NEW id \in DOMAIN c.entries[n].map, id \in LIds(t.opt.included)
               PROVE  Internal(id)
  BY DEF ChunksClean
<1>2. PICK i, d : c = [id |-> i, config |-> d, entries |-> Entries(strings[i], d)]
  <2> DEFINE chunks == {[id |-> i, config |-> d, entries |-> Entries(strings[i], d)] :
                          i \in {j \in DOMAIN strings : strings[j] # Hole}, d \in {k[3] : k \in written}}
  <2>1. TypeChunks(t, strings, written, values) = {x \in chunks : DOMAIN x.entries # {}}
    BY DEF TypeChunks
  <2> HIDE DEF Entries
  <2>2. c \in chunks
    <3> HIDE DEF chunks
    <3> QED BY <2>1
  <2> QED BY <2>2
<1>3. c.config = d /\ c.entries = Entries(strings[i], d)
  <2> HIDE DEF Entries
  <2> QED BY <1>2
<1> DEFINE type == strings[i]
           key == <<type, t.order[type][n], d>>
<1>4. n \in PlacesIn(type, d) /\ c.entries[n] = FlatEntry(t, values, key)
  BY <1>3
<1>5. key \in DOMAIN t.entries /\ key[3] = d
  BY <1>4
<1> HIDE DEF key, PlacesIn, Entries
<1>6. t.entries[key].kind = "bag"
  BY <1>1, <1>4, FlatEntryIds
<1>7. PICK b \in DOMAIN t.entries[key].bag : id = t.entries[key].bag[b].keyId
  BY <1>1, <1>4, FlatEntryIds
<1> QED BY <1>1, <1>3, <1>5, <1>6, <1>7 DEF OldBagClean

-----------------------------------------------------------------------------
(* The tables of the splits. *)

\* On a device before L, what is flattened has no attribute of L but in bags for L.
LateOrAbove(opt) == opt.minSdk.codeName \/ opt.minSdk.n >= SDK_L
FlatFields == {"t", "packageId", "block", "types", "specs", "chunks", "libs"}
FlatOk(opt, f) ==
    DOMAIN f = FlatFields /\ Tab("late", opt, f.t) /\ (LateOrAbove(opt) \/ ChunksClean(opt.included, f.chunks))

LEMMA WrittenIsThere ==
  ASSUME NEW t, NEW matches, NEW isBase PROVE Written(t, matches, isBase) \subseteq DOMAIN t.entries
BY DEF Written

LEMMA FlattenPreparedOk ==
  ASSUME NEW opt, NEW t, t.opt = opt, NEW prepared, Tab("late", opt, prepared),
         NEW written, written \subseteq DOMAIN prepared.entries, NEW isBase, NEW values, NEW pool
  PROVE  FlatOk(opt, FlattenPrepared(t, prepared, written, isBase, values, pool))
<1> DEFINE late == "late"
           strings == TypeStrings(t)
           remapped == Remap(t, pool, values)
           reported == Reported(prepared, written, isBase)
           chunks == TypeChunks(prepared, strings, written, remapped)
           id == t.opt.packageId
           block == Block(pool)
           specs == TypeSpecs(prepared, written)
           libs == FlattenLibraryTable(t, isBase)
           f == [t |-> reported, packageId |-> id, block |-> block, types |-> strings, specs |-> specs,
                 chunks |-> chunks, libs |-> libs]
<1>1. FlattenPrepared(t, prepared, written, isBase, values, pool) = f
  BY DEF FlattenPrepared
<1>2. Tab(late, opt, prepared) /\ prepared.opt = opt /\ Clean(prepared)
  BY DEF Tab
<1> HIDE DEF late
<1>3. Tab(late, opt, reported)
  <2>1. Tab(late, opt, Fail(prepared))
    BY <1>2, FailTab
  <2>2. reported \in {prepared, Fail(prepared)}
    BY DEF Reported
  <2> HIDE DEF reported
  <2> QED BY <1>2, <2>1, <2>2
<1> HIDE DEF reported, strings, remapped, id, block, specs, libs
<1>4. LateOrAbove(opt) \/ ChunksClean(opt.included, chunks)
  <2>1. CASE IsMinSdkVersionLOrAbove(prepared)
    BY <1>2, <2>1 DEF IsMinSdkVersionLOrAbove, LateOrAbove
  <2>2. CASE \A k \in DOMAIN prepared.entries : OldBagClean(prepared.opt.included, k, prepared.entries[k])
    <3>1. ChunksClean(prepared.opt.included, chunks)
      BY <2>2, TypeChunksClean
    <3> HIDE DEF chunks
    <3> QED BY <1>2, <3>1
  <2> QED BY <1>2, <2>1, <2>2 DEF Clean
<1> HIDE DEF chunks
<1>5. DOMAIN f = FlatFields /\ f.t = reported /\ f.chunks = chunks
  BY DEF FlatFields
<1> HIDE DEF f
<1>6. FlatOk(opt, f)
  BY <1>3, <1>4, <1>5 DEF FlatOk, late
<1> QED BY <1>1, <1>6

LEMMA FlattenOk ==
  ASSUME NEW opt, NEW t, Tab("late", opt, t), NEW matches, NEW isBase
  PROVE  FlatOk(opt, Flatten(t, matches, isBase))
<1> DEFINE first == Written(t, matches, isBase)
           c == Collect(t, first)
           p == c.t
           written == Written(p, matches, isBase)
           values == c.values
           pool == IF t.opt.output THEN SortByConfig(c.pool) ELSE c.pool
           f == FlattenPrepared(t, p, written, isBase, values, pool)
<1>1. Flatten(t, matches, isBase) = f
  BY DEF Flatten, FlattenCollected
<1>2. t.opt = opt
  BY DEF Tab
<1>3. Tab("late", opt, p)
  <2> HIDE DEF first
  <2>1. PrepOk(opt, c)
    BY CollectOk
  <2> QED BY <2>1 DEF PrepOk
<1> HIDE DEF p, values, pool
<1>4. written \subseteq DOMAIN p.entries
  BY WrittenIsThere
<1> HIDE DEF written
<1>5. FlatOk(opt, f)
  BY <1>2, <1>3, <1>4, FlattenPreparedOk
<1> QED BY <1>1, <1>5

\* The APKs so far.
ApksOk(opt, apks) == LateOrAbove(opt) \/ \A i \in DOMAIN apks : ApkClean(opt.included, apks[i])
AccOk(opt, acc) == Tab("late", opt, acc.t) /\ IsList(acc.apks) /\ ApksOk(opt, acc.apks)

LEMMA WithApkOk ==
  ASSUME NEW opt, NEW acc, AccOk(opt, acc), NEW f, FlatOk(opt, f), NEW manifest,
         NEW t, Tab("late", opt, t), NEW ok
  PROVE  AccOk(opt, WithApk(acc, f, manifest, t, ok))
<1> DEFINE late == "late"
           table1 == [f EXCEPT !.t = << >>]
           apk == [table |-> table1, files |-> {}, manifest |-> manifest]
           apks == Append(acc.apks, apk)
           new == [t |-> t, ok |-> ok, apks |-> apks]
<1>1. WithApk(acc, f, manifest, t, ok) = new
  BY DEF WithApk
<1>2. table1.chunks = f.chunks
  BY DEF FlatOk, FlatFields
<1> HIDE DEF table1
<1>3. "table" \in DOMAIN apk /\ apk.table = table1
  OBVIOUS
<1> HIDE DEF apk
<1>4. LateOrAbove(opt) \/ ApkClean(opt.included, apk)
  BY <1>2, <1>3 DEF FlatOk, ApkClean, ChunksClean
<1>5. IsList(acc.apks)
  BY DEF AccOk
<1>6. /\ IsList(apks) /\ Len(acc.apks) \in Nat /\ DOMAIN acc.apks = 1..Len(acc.apks)
      /\ DOMAIN apks = 1..(Len(acc.apks) + 1)
      /\ \A i \in DOMAIN acc.apks : apks[i] = acc.apks[i]
      /\ apks[Len(acc.apks) + 1] = apk
  <2>1. Len(acc.apks) \in Nat /\ DOMAIN acc.apks = 1..Len(acc.apks)
    BY <1>5 DEF IsList
  <2> QED BY <1>5, <2>1, AppendIsList
<1> HIDE DEF apks
<1>7. ApksOk(opt, apks)
  <2> SUFFICES ASSUME ~LateOrAbove(opt), NEW i \in DOMAIN apks PROVE ApkClean(opt.included, apks[i])
    BY DEF ApksOk
  <2>1. CASE i \in DOMAIN acc.apks
    BY <1>6, <2>1 DEF AccOk, ApksOk
  <2>2. CASE i = Len(acc.apks) + 1
    BY <1>4, <1>6, <2>2
  <2>3. i \in DOMAIN acc.apks \/ i = Len(acc.apks) + 1
    BY <1>6
  <2> QED BY <2>1, <2>2, <2>3
<1>8. new.t = t /\ new.apks = apks
  OBVIOUS
<1> HIDE DEF new
<1>9. AccOk(opt, new)
  BY <1>6, <1>7, <1>8 DEF AccOk
<1> QED BY <1>1, <1>9

LEMMA AddApkOk ==
  ASSUME NEW opt, NEW acc, AccOk(opt, acc), NEW i, NEW f, FlatOk(opt, f)
  PROVE  AccOk(opt, AddApk(acc, i, f))
<1> DEFINE late == "late"
           base == WithApk(acc, f, out.manifest, f.t, f.t.ok)
           doc == SplitManifest(SplitName(i))
           m == CompileNodes(f.t, NoFile, doc)
           split == WithApk(acc, f, m.flat, m.t, f.t.ok /\ m.ok)
<1>1. AddApk(acc, i, f) \in {base, split}
  BY DEF AddApk, AddSplit
<1>2. Tab(late, opt, f.t)
  BY DEF FlatOk
<1>3. DocOk(doc)
  BY SplitManifestOk
<1>4. MayBePutOff(NoFile)
  BY DEF MayBePutOff, NoFile
<1> HIDE DEF late, doc
<1>5. Tab(late, opt, m.t)
  BY <1>2, <1>3, <1>4, CompileNodesTab
<1> HIDE DEF m
<1>6. AccOk(opt, base)
  <2> DEFINE ok == f.t.ok
             manifest == out.manifest
  <2> HIDE DEF ok, manifest
  <2>1. AccOk(opt, WithApk(acc, f, manifest, f.t, ok))
    BY <1>2, WithApkOk DEF late
  <2> QED BY <2>1 DEF ok, manifest
<1>7. AccOk(opt, split)
  <2> DEFINE ok == f.t.ok /\ m.ok
  <2> HIDE DEF ok
  <2>1. AccOk(opt, WithApk(acc, f, m.flat, m.t, ok))
    BY <1>5, WithApkOk DEF late
  <2> QED BY <2>1 DEF ok
<1> HIDE DEF base, split
<1> QED BY <1>1, <1>6, <1>7

LEMMA FlattenApkOk ==
  ASSUME NEW opt, NEW acc, AccOk(opt, acc), NEW i
  PROVE  AccOk(opt, FlattenApk(acc, i))
<1> DEFINE matches == {c \in {k[3] : k \in DOMAIN acc.t.entries} : InSplit(i, c)}
           isBase == i = 1
           f == Flatten(acc.t, matches, isBase)
<1>1. FlattenApk(acc, i) = AddApk(acc, i, f)
  BY DEF FlattenApk
<1>2. Tab("late", opt, acc.t)
  BY DEF AccOk
<1> HIDE DEF matches, isBase
<1>3. FlatOk(opt, f)
  BY <1>2, FlattenOk
<1> HIDE DEF f
<1> QED BY <1>1, <1>3, AddApkOk

ApkOp(p, q, r, acc, i) == IF acc.ok THEN FlattenApk(acc, i) ELSE acc
ApkGood(opt, q, r, acc) == AccOk(opt, acc)
Apks == INSTANCE FoldFacts WITH Op <- ApkOp, Good <- ApkGood

LEMMA FlattenAllOk ==
  ASSUME NEW opt, Tab("late", opt, table), IsList(prj.splits)
  PROVE  AccOk(opt, FlattenAll)
<1> DEFINE n == 1 + Len(prj.splits)
           list == [i \in 1..n |-> i]
<1>1. n \in Nat /\ DOMAIN list = 1..n
  BY DEF IsList
<1>2. AccOk(opt, NoApks)
  <2>1. NoApks.t = table /\ NoApks.apks = << >>
    BY DEF NoApks
  <2>2. IsList(<< >>) /\ DOMAIN << >> = {}
    BY EmptyIsList
  <2> QED BY <2>1, <2>2 DEF AccOk, ApksOk
<1>3. FoldLeft(LAMBDA acc, i : IF acc.ok THEN FlattenApk(acc, i) ELSE acc, NoApks, list)
        = Apks!Left(opt, 0, 0, NoApks, list)
  BY DEF FoldLeft, MapThenFoldSet, ApkOp, Apks!Left, Max
<1>4. FlattenAll \in {NoApks, Apks!Left(opt, 0, 0, NoApks, list)}
  BY <1>3 DEF FlattenAll
<1> HIDE DEF list
<1>5. ApkGood(opt, 0, 0, NoApks)
  BY <1>2 DEF ApkGood
<1>6. \A acc : \A i \in 1..n : ApkGood(opt, 0, 0, acc) => ApkGood(opt, 0, 0, ApkOp(opt, 0, 0, acc, list[i]))
  BY FlattenApkOk DEF ApkGood, ApkOp
<1>7. ApkGood(opt, 0, 0, Apks!Left(opt, 0, 0, NoApks, list))
  <2> HIDE DEF n
  <2> QED BY <1>1, <1>5, <1>6, Apks!LeftKeeps, SmallestNumber
<1> QED BY <1>2, <1>4, <1>7 DEF ApkGood

-----------------------------------------------------------------------------
(* What a build includes, the table it starts with and what it leaves to include. *)

LEMMA PlannedIsOk == ASSUME NEW p \in UNION ToSet(Plan) PROVE ProjectOk(p) /\ PackageId(p.kind, p.apkModule) \in PackageIds
BY SourcesAssumption DEF ToSet, PackageIds

IncludeOp(apks, q, r, inc, pkg) == Over(apks[pkg].exported, inc)
\* Everything comes from the framework or has the id of a package of the plan.
IncludeGood(apks, framework, r, inc) ==
    \A x \in DOMAIN inc : \/ x \in DOMAIN framework /\ inc[x] = framework[x]
                          \/ ~inc[x].fromL /\ inc[x].id[1] \in PackageIds
Including == INSTANCE FoldFacts WITH Op <- IncludeOp, Good <- IncludeGood

LEMMA IncludedIsOk ==
  ASSUME PublishedOk, ProjectOk(prj), prj.includes \subseteq DOMAIN published, NEW own \in PackageIds
  PROVE  IncludedOk(IncludedResources, own)
<1> DEFINE framework == prj.framework
           S == prj.includes
           inc == IncludedResources
<1>1. IsFiniteSet(S) /\ FrameworkOk(framework) /\ S \subseteq DOMAIN published
  BY DEF ProjectOk
<1>2. inc = Including!OfSet(published, framework, 0, framework, S)
  BY DEF IncludedResources, FoldSet, MapThenFoldSet, IncludeOp, Including!OfSet
<1> HIDE DEF framework, S, inc
<1>3. IncludeGood(published, framework, 0, framework)
  BY DEF IncludeGood
<1>4. ASSUME NEW acc, NEW pkg \in S, IncludeGood(published, framework, 0, acc)
      PROVE  IncludeGood(published, framework, 0, IncludeOp(published, framework, 0, acc, pkg))
  <2> DEFINE new == published[pkg].exported
             o == Over(new, acc)
  <2>1. \A x \in DOMAIN new : ~new[x].fromL /\ new[x].id[1] \in PackageIds
    BY <1>1 DEF PublishedOk
  <2> HIDE DEF new
  <2>2. DOMAIN o = DOMAIN new \cup DOMAIN acc /\ \A x \in DOMAIN o : o[x] = IF x \in DOMAIN new THEN new[x] ELSE acc[x]
    BY DEF Over
  <2> HIDE DEF o
  <2>3. IncludeGood(published, framework, 0, o)
    BY <1>4, <2>1, <2>2 DEF IncludeGood
  <2> QED BY <2>3 DEF IncludeOp, o, new
<1>5. IncludeGood(published, framework, 0, Including!OfSet(published, framework, 0, framework, S))
  <2>1. Including!Tame(S)
    BY <1>1, FiniteIsTame DEF Tame, Including!Tame
  <2> QED BY <2>1, <1>3, <1>4, Including!SetKeeps
<1>6. IncludeGood(published, framework, 0, inc)
  BY <1>2, <1>5
<1>7. ASSUME NEW x \in DOMAIN inc, x[2] = "attr", inc[x].public, inc[x].fromL
      PROVE  /\ inc[x].id # NoId /\ inc[x].id[1] # own
             /\ \A s \in DOMAIN inc : inc[s].id = inc[x].id => s[2] = "attr"
  <2>1. x \in DOMAIN framework /\ inc[x] = framework[x]
    BY <1>6, <1>7 DEF IncludeGood
  <2>2. inc[x].id # NoId /\ inc[x].id[1] \notin PackageIds
    BY <1>1, <1>7, <2>1 DEF FrameworkOk
  <2>3. ASSUME NEW s \in DOMAIN inc, inc[s].id = inc[x].id PROVE s[2] = "attr"
    <3>1. s \in DOMAIN framework /\ inc[s] = framework[s]
      BY <1>6, <2>2, <2>3 DEF IncludeGood
    <3>2. framework[s].id = framework[x].id
      BY <2>1, <2>3, <3>1
    <3> QED BY <1>1, <1>7, <2>1, <3>1, <3>2 DEF FrameworkOk
  <2> QED BY <2>2, <2>3
<1> QED BY <1>7 DEF IncludedOk, inc

LEMMA NewTableOk ==
  ASSUME NEW opt, {"included", "minSdk", "packageId"} \subseteq DOMAIN opt, opt.packageId \in PackageIds,
         IncludedOk(opt.included, opt.packageId)
  PROVE  TableOk(NewTable(opt))
<1> DEFINE t == NewTable(opt)
<1>1. /\ DOMAIN t = TableFields /\ t.types = <<"attr">> /\ t.order = [x \in {"attr"} |-> << >>]
      /\ t.pubType = << >> /\ t.entries = << >> /\ t.cache = << >> /\ t.work = << >> /\ t.opt = opt
  BY DEF NewTable, TableFields
<1> HIDE DEF t
<1>2. IsList(<< >>) /\ DOMAIN << >> = {} /\ IsFiniteSet({})
  BY EmptyIsList, FS_EmptySet
<1>3. IsList(<<"attr">>)
  BY DEF IsList
<1>4. \A x \in DOMAIN t.order : t.order[x] = << >>
  BY <1>1
<1>5. TableOk(t)
  BY <1>1, <1>2, <1>3, <1>4 DEF TableOk
<1> QED BY <1>5 DEF t

LEMMA PackageOptionsOk ==
  ASSUME PublishedOk, prj \in UNION ToSet(Plan), prj.includes \subseteq DOMAIN published
  PROVE  TableOk(NewTable(PackageOptions))
<1> DEFINE opt == PackageOptions
           own == PackageId(prj.kind, prj.apkModule)
           inc == IncludedResources
<1>1. ProjectOk(prj) /\ own \in PackageIds
  BY PlannedIsOk
<1>2. {"packageId", "included", "pseudo", "minSdk"} \subseteq DOMAIN prj.opt
  BY <1>1 DEF ProjectOk
<1> HIDE DEF own, inc
<1>3. DOMAIN opt = DOMAIN prj.opt /\ opt.packageId = own /\ opt.included = inc
  BY <1>2 DEF PackageOptions, own, inc
<1> HIDE DEF opt
<1>4. IncludedOk(inc, own)
  BY <1>1, IncludedIsOk DEF inc
<1>5. TableOk(NewTable(opt))
  BY <1>1, <1>2, <1>3, <1>4, NewTableOk
<1> QED BY <1>5 DEF opt

LEMMA ExportedOk ==
  ASSUME NEW t, TableOk(t)
  PROVE  \A x \in DOMAIN Exported(t) : ~Exported(t)[x].fromL /\ Exported(t)[x].id[1] \in PackageIds
<1> TAKE x \in DOMAIN Exported(t)
<1> DEFINE id == IdOf(t, <<x[2], x[3]>>)
<1>1. Exported(t)[x].fromL = FALSE /\ Exported(t)[x].id = id
  BY DEF Exported
<1>2. id[1] = t.opt.packageId
  BY DEF IdOf
<1> HIDE DEF id
<1> QED BY <1>1, <1>2 DEF TableOk

-----------------------------------------------------------------------------
(* Every step of a build keeps BuildInv. *)

LEMMA TableIsTab ==
  ASSUME NEW t
  PROVE  /\ TableOk(t) <=> Tab("early", t.opt, t)
         /\ TableOk(t) /\ Clean(t) <=> Tab("late", t.opt, t)
BY DEF Tab

LEMMA TabIsTable ==
  ASSUME NEW c, NEW opt, NEW t, Tab(c, opt, t)
  PROVE  TableOk(t) /\ t.opt = opt /\ (c = "late" => Clean(t))
BY DEF Tab

LEMMA BuildInvInit == Init => BuildInv
BY DEF Init, BuildInv, PublishedOk, HasTable

LEMMA AbortStep ==
  ASSUME BuildInv, pc # "idle", Abort
  PROVE  BuildInv'
BY DEF BuildInv, Abort, PublishedOk, HasTable

LEMMA StartStep ==
  ASSUME BuildInv, NEW p \in UNION ToSet(Plan), Start(p)
  PROVE  BuildInv'
BY DEF BuildInv, Start, PublishedOk, HasTable

LEMMA SlurpStep == ASSUME BuildInv, Slurp PROVE BuildInv'
<1>1. PICK slurped \in {SlurpFromArgs(prj.args)}, parsed \in {ParsedSplits} :
          LET ok == slurped.ok /\ SplitsOk(parsed)
          IN  \/ ~ok /\ Abort
              \/ /\ ok
                 /\ pc' = "package" /\ assets' = slurped.assets
                 /\ UNCHANGED <<prj, resources, table, out, failed, todo, published, rfiles, built>>
  BY DEF Slurp
<1>2. pc = "slurp" /\ slurped = SlurpFromArgs(prj.args)
  BY DEF Slurp
<1>3. CASE Abort
  BY <1>2, <1>3, AbortStep
<1>4. CASE /\ slurped.ok
           /\ pc' = "package" /\ assets' = slurped.assets
           /\ UNCHANGED <<prj, resources, table, out, failed, todo, published, rfiles, built>>
  <2>1. prj \in UNION ToSet(Plan)
    BY <1>2 DEF BuildInv
  <2>2. SourcesOk(prj.args)
    BY <2>1, PlannedIsOk DEF ProjectOk
  <2>3. AssetsOk'
    BY <1>2, <1>4, <2>2, FilesAreRead DEF AssetsOk
  <2>4. PublishedOk'
    BY <1>4 DEF BuildInv, PublishedOk
  <2> QED BY <1>4, <2>1, <2>3, <2>4 DEF BuildInv, HasTable
<1> QED BY <1>1, <1>3, <1>4

LEMMA NewPackageStep == ASSUME BuildInv, NewPackage PROVE BuildInv'
<1> DEFINE collected == [i \in DOMAIN assets |-> CollectFiles(assets[i])]
           included == prj.includes \subseteq DOMAIN published
<1>1. PICK ok \in {PackageOk(prj.manifest) /\ included} :
          \/ ~ok /\ Abort
          \/ /\ ok
             /\ table' = NewTable(PackageOptions)
             /\ resources' = ApplyFileOverlay(collected)
             /\ pc' = "files" /\ todo' = FirstTypes
             /\ UNCHANGED <<prj, assets, out, failed, published, rfiles, built>>
  BY DEF NewPackage
<1>2. pc = "package"
  BY DEF NewPackage
<1>3. CASE Abort
  BY <1>2, <1>3, AbortStep
<1>4. CASE ok /\ ~Abort
  <2>1. prj \in UNION ToSet(Plan) /\ AssetsOk /\ PublishedOk
    BY <1>2 DEF BuildInv
  <2>2. /\ table' = NewTable(PackageOptions) /\ resources' = ApplyFileOverlay(collected)
        /\ pc' = "files" /\ included
        /\ UNCHANGED <<prj, assets, out, failed, published, rfiles, built>>
    BY <1>1, <1>4
  <2>3. TableOk(table')
    BY <2>1, <2>2, PackageOptionsOk
  <2>4. ResOk(resources')
    <3> DEFINE n == Len(assets)
    <3>1. n \in Nat /\ DOMAIN assets = 1..n /\ n # 0
      BY <2>1 DEF AssetsOk, IsList
    <3>2. \A i \in 1..n : ResOk(CollectFiles(assets[i]))
      BY <2>1, <3>1, CollectResOk DEF AssetsOk
    <3>3. collected = [i \in 1..n |-> collected[i]] /\ \A i \in 1..n : collected[i] = CollectFiles(assets[i])
      BY <3>1
    <3> HIDE DEF collected, n
    <3>4. IsList(collected) /\ DOMAIN collected = 1..n /\ Len(collected) = n
      BY <3>1, <3>3, FunctionIsList
    <3>5. collected # << >>
      BY <3>1, <3>4
    <3>6. \A i \in DOMAIN collected : ResOk(collected[i])
      BY <3>2, <3>3, <3>4
    <3> QED BY <2>2, <3>4, <3>5, <3>6, OverlaysOk
  <2>5. PublishedOk' /\ AssetsOk'
    BY <2>1, <2>2 DEF PublishedOk, AssetsOk
  <2> QED BY <2>1, <2>2, <2>3, <2>4, <2>5 DEF BuildInv, HasTable
<1> QED BY <1>1, <1>3, <1>4

\* What a step leaves alone stays as it is.
LEMMA SameFiles ==
  ASSUME BuildInv, UNCHANGED <<prj, published>>
  PROVE  PublishedOk' /\ (pc # "idle" => prj' \in UNION ToSet(Plan))
BY DEF BuildInv, PublishedOk

LEMMA MakeFilesStep == ASSUME BuildInv, MakeFiles PROVE BuildInv'
<1> DEFINE type == Head(todo)
           files == ResourceDir(resources, type)
           early == "early"
           Add1(t, f) == AddEntry(t, type, f.base, [k |-> "string", v |-> ResPath(f)], f.config, {"any"}, FALSE, FALSE)
<1>1. /\ pc \in {"files", "late"}
      /\ UNCHANGED <<pc, prj, assets, resources, published, rfiles, built>>
  BY DEF MakeFiles
<1>2. table' \in {table, FoldLeft(Add1, table, files)}
  BY DEF MakeFiles, MakeFileResources
<1>3. TableOk(table) /\ ResOk(resources) /\ (pc = "files" => AssetsOk)
  BY <1>1 DEF BuildInv, HasTable
<1>4. FoldLeft(Add1, table, files) = AddFiles!Left(type, early, table.opt, table, files)
  BY DEF FoldLeft, MapThenFoldSet, AddFileOp, AddFiles!Left, Max
<1>5. FileList(files)
  BY <1>3, ResourceDirOk
<1>6. Tab(early, table.opt, table)
  BY <1>3, TableIsTab
<1> HIDE DEF type, files, early, Add1
<1>7. Tab(early, table.opt, AddFiles!Left(type, early, table.opt, table, files))
  BY <1>5, <1>6, MakeFileResourcesTab
<1>8. TableOk(table')
  BY <1>2, <1>3, <1>4, <1>7, TabIsTable
<1>9. (pc = "files" => AssetsOk') /\ ResOk(resources')
  BY <1>1, <1>3 DEF AssetsOk
<1>10. PublishedOk' /\ prj' \in UNION ToSet(Plan)
  BY <1>1, SameFiles
<1> QED BY <1>1, <1>8, <1>9, <1>10 DEF BuildInv

LEMMA ToValuesStep == ASSUME BuildInv, ToValues PROVE BuildInv'
<1>1. /\ pc = "files" /\ pc' = "values" /\ todo' = ValuesFiles
      /\ UNCHANGED <<prj, assets, resources, table, out, failed, published, rfiles, built>>
  BY DEF ToValues
<1>2. TableOk(table) /\ ResOk(resources) /\ AssetsOk
  BY <1>1 DEF BuildInv, HasTable
<1>3. IsList(todo') /\ \A i \in DOMAIN todo' : ReadOk(todo'[i][2])
  BY <1>1, <1>2, ValuesFilesOk
<1>4. AssetsOk'
  BY <1>1, <1>2 DEF AssetsOk
<1>5. PublishedOk' /\ prj' \in UNION ToSet(Plan)
  BY <1>1, SameFiles
<1> QED BY <1>1, <1>2, <1>3, <1>4, <1>5 DEF BuildInv

LEMMA CompileValuesStep == ASSUME BuildInv, CompileValues PROVE BuildInv'
<1> DEFINE file == Head(todo)[2]
           overwrite == Head(todo)[1] > 1
           early == "early"
           r == CompileResourceFile(table, out.sym, out.loc, file, overwrite)
<1>1. /\ pc = "values" /\ todo # << >> /\ table' = r.t /\ todo' = Tail(todo)
      /\ UNCHANGED <<pc, prj, assets, resources, published, rfiles, built>>
  BY DEF CompileValues, NoTodo
<1>2. /\ TableOk(table) /\ ResOk(resources) /\ AssetsOk
      /\ IsList(todo) /\ \A i \in DOMAIN todo : ReadOk(todo[i][2])
  BY <1>1 DEF BuildInv, HasTable
<1>3. /\ IsList(Tail(todo)) /\ 1 \in DOMAIN todo /\ Head(todo) = todo[1]
      /\ \A i \in DOMAIN Tail(todo) : i + 1 \in DOMAIN todo /\ Tail(todo)[i] = todo[i + 1]
  BY <1>1, <1>2, TailIsList
<1>4. ReadOk(file)
  BY <1>2, <1>3
<1>5. Tab(early, table.opt, table)
  BY <1>2, TableIsTab
<1> HIDE DEF file, overwrite
<1>6. Tab(early, table.opt, r.t)
  <2> DEFINE sym == out.sym
             loc == out.loc
  <2> HIDE DEF sym, loc
  <2>1. Tab("early", table.opt, CompileResourceFile(table, sym, loc, file, overwrite).t)
    BY <1>4, <1>5, CompileResourceFileTab
  <2> QED BY <2>1 DEF sym, loc
<1> HIDE DEF r, early
<1>7. TableOk(table')
  BY <1>1, <1>6, TabIsTable
<1>8. IsList(todo') /\ \A i \in DOMAIN todo' : ReadOk(todo'[i][2])
  BY <1>1, <1>2, <1>3
<1>9. AssetsOk' /\ ResOk(resources')
  BY <1>1, <1>2 DEF AssetsOk
<1>10. PublishedOk' /\ prj' \in UNION ToSet(Plan)
  BY <1>1, SameFiles
<1> QED BY <1>1, <1>7, <1>8, <1>9, <1>10 DEF BuildInv

LEMMA ToLateStep == ASSUME BuildInv, ToLate PROVE BuildInv'
<1>1. /\ pc = "values" /\ pc' = "late"
      /\ UNCHANGED <<prj, assets, resources, table, out, failed, published, rfiles, built>>
  BY DEF ToLate
<1>2. TableOk(table) /\ ResOk(resources)
  BY <1>1 DEF BuildInv, HasTable
<1>3. PublishedOk' /\ prj' \in UNION ToSet(Plan)
  BY <1>1, SameFiles
<1> QED BY <1>1, <1>2, <1>3 DEF BuildInv

LEMMA AssignIdsStep == ASSUME BuildInv, AssignIds PROVE BuildInv'
<1>1. PICK t \in {IF HasResources THEN AssignResourceIds(Good(table)) ELSE Good(table)} :
          \/ ~t.ok /\ Abort
          \/ /\ t.ok
             /\ table' = t /\ pc' = "xml" /\ todo' = XmlFiles
             /\ UNCHANGED <<prj, assets, resources, out, failed, published, rfiles, built>>
  BY DEF AssignIds
<1>2. pc = "late"
  BY DEF AssignIds
<1>3. CASE Abort
  BY <1>2, <1>3, AbortStep
<1>4. CASE /\ table' = t /\ pc' = "xml" /\ todo' = XmlFiles
           /\ UNCHANGED <<prj, assets, resources, out, failed, published, rfiles, built>>
  <2>1. TableOk(table) /\ ResOk(resources)
    BY <1>2 DEF BuildInv, HasTable
  <2> DEFINE early == "early"
             opt == table.opt
  <2>2. Tab(early, opt, table)
    BY <2>1, TableIsTab
  <2>3. t \in {Good(table), AssignResourceIds(Good(table))}
    OBVIOUS
  <2> HIDE DEF opt
  <2>4. Tab(early, opt, Good(table))
    BY <2>2, FailTab
  <2>5. Tab(early, opt, AssignResourceIds(Good(table)))
    BY <2>4, AssignResourceIdsTab
  <2> HIDE DEF early
  <2>6. TableOk(table')
    BY <1>4, <2>3, <2>4, <2>5, TabIsTable
  <2>7. IsList(todo') /\ \A i \in DOMAIN todo' : ReadOk(todo'[i])
    BY <1>4, <2>1, XmlFilesOk DEF FileList
  <2>8. PublishedOk' /\ prj' \in UNION ToSet(Plan)
    BY <1>2, <1>4, SameFiles
  <2> QED BY <1>4, <2>1, <2>6, <2>7, <2>8 DEF BuildInv
<1> QED BY <1>1, <1>3, <1>4

LEMMA CompileXmlStep == ASSUME BuildInv, CompileXml PROVE BuildInv'
<1> DEFINE file == Head(todo)
           early == "early"
           opt == table.opt
           compiled == Compiled(file)
           r == CompileXmlFile(table, compiled)
<1>1. /\ pc = "xml" /\ todo # << >> /\ table' = r.t /\ todo' = Tail(todo)
      /\ UNCHANGED <<pc, prj, assets, resources, published, rfiles, built>>
  BY DEF CompileXml, NoTodo
<1>2. /\ TableOk(table) /\ ResOk(resources)
      /\ IsList(todo) /\ \A i \in DOMAIN todo : ReadOk(todo[i])
  BY <1>1 DEF BuildInv, HasTable
<1>3. /\ IsList(Tail(todo)) /\ 1 \in DOMAIN todo /\ Head(todo) = todo[1]
      /\ \A i \in DOMAIN Tail(todo) : i + 1 \in DOMAIN todo /\ Tail(todo)[i] = todo[i + 1]
  BY <1>1, <1>2, TailIsList
<1>4. ReadOk(file)
  BY <1>2, <1>3
<1>5. Tab(early, opt, table)
  BY <1>2, TableIsTab
<1> HIDE DEF file, opt
<1>6. WorkOk(compiled)
  <2> DEFINE base == file.base
  <2> HIDE DEF base
  <2>1. /\ DOMAIN Set(file, "name", base) = {"name"} \cup DOMAIN file
        /\ \A x \in DOMAIN file : x # "name" => Set(file, "name", base)[x] = file[x]
    BY DEF Set
  <2>2. compiled = Set(file, "name", base)
    BY DEF Compiled, base
  <2> HIDE DEF compiled
  <2>3. /\ {"events", "config"} \subseteq DOMAIN compiled
        /\ compiled.events = file.events /\ compiled.config = file.config
    BY <1>4, <2>1, <2>2 DEF ReadOk, FileOk
  <2> QED BY <1>4, <2>3 DEF ReadOk, FileOk, WorkOk
<1> HIDE DEF compiled
<1>7. Tab(early, opt, r.t)
  <2> HIDE DEF early
  <2> QED BY <1>5, <1>6, CompileXmlFileTab
<1> HIDE DEF r, early
<1>8. TableOk(table')
  BY <1>1, <1>7, TabIsTable
<1>9. IsList(todo') /\ \A i \in DOMAIN todo' : ReadOk(todo'[i])
  BY <1>1, <1>2, <1>3
<1>10. ResOk(resources')
  BY <1>1, <1>2
<1>11. PublishedOk' /\ prj' \in UNION ToSet(Plan)
  BY <1>1, SameFiles
<1> QED BY <1>1, <1>8, <1>9, <1>10, <1>11 DEF BuildInv

LEMMA WorkItemStep == ASSUME BuildInv, WorkItem PROVE BuildInv'
<1> DEFINE f == Head(table.work)
           early == "early"
           opt == table.opt
           rest == [table EXCEPT !.work = Tail(@)]
           r == CompileXmlFile(rest, f)
<1>1. /\ pc = "xml" /\ table.work # << >> /\ table' = r.t
      /\ UNCHANGED <<pc, prj, assets, resources, todo, published, rfiles, built>>
  BY DEF WorkItem
<1>2. /\ TableOk(table) /\ ResOk(resources)
      /\ IsList(todo) /\ \A i \in DOMAIN todo : ReadOk(todo[i])
  BY <1>1 DEF BuildInv, HasTable
<1>3. DOMAIN table = TableFields /\ IsList(table.work) /\ \A i \in DOMAIN table.work : WorkOk(table.work[i])
  BY <1>2 DEF TableOk
<1> DEFINE work == table.work
<1>4. /\ IsList(Tail(work)) /\ 1 \in DOMAIN work /\ Head(work) = work[1]
      /\ \A i \in DOMAIN Tail(work) : i + 1 \in DOMAIN work /\ Tail(work)[i] = work[i + 1]
  <2> HIDE DEF work
  <2>1. IsList(work) /\ work # << >>
    BY <1>1, <1>3 DEF work
  <2> QED BY <2>1, TailIsList
<1>5. WorkOk(f)
  BY <1>3, <1>4
<1>6. Tab(early, opt, table)
  BY <1>2, TableIsTab
<1> HIDE DEF f, opt
<1>7. /\ DOMAIN rest = TableFields /\ rest.types = table.types /\ rest.order = table.order
      /\ rest.pubType = table.pubType /\ rest.entries = table.entries /\ rest.cache = table.cache
      /\ rest.work = Tail(work) /\ rest.opt = table.opt
  BY <1>3 DEF TableFields
<1>8. IsList(Tail(work)) /\ \A i \in DOMAIN Tail(work) : WorkOk(Tail(work)[i])
  BY <1>3, <1>4
<1> HIDE DEF rest, early, work
<1>9. Tab(early, opt, rest)
  BY <1>6, <1>7, <1>8, WorkTab
<1>10. Tab(early, opt, r.t)
  BY <1>5, <1>9, CompileXmlFileTab
<1> HIDE DEF r
<1>11. TableOk(table')
  BY <1>1, <1>10, TabIsTable
<1>12. ResOk(resources') /\ IsList(todo') /\ \A i \in DOMAIN todo' : ReadOk(todo'[i])
  BY <1>1, <1>2
<1>13. PublishedOk' /\ prj' \in UNION ToSet(Plan)
  BY <1>1, SameFiles
<1> QED BY <1>1, <1>11, <1>12, <1>13 DEF BuildInv

\* The manifest is the last that may put a bag with an attribute of L in the table: after it none is left.
LEMMA ManifestStep == ASSUME BuildInv, Manifest PROVE BuildInv'
<1> DEFINE m == MassageManifest(ParseXml(prj.manifest.events))
           asked == [table EXCEPT !.opt.minSdk = m.minSdk]
           r == CompileNodes(asked, NoFile, m.doc)
<1>1. /\ pc = "xml"
      /\ \/ Abort
         \/ /\ table' = ModifyForCompat(r.t) /\ pc' = "flatten"
            /\ UNCHANGED <<prj, assets, resources, failed, todo, published, rfiles, built>>
  BY DEF Manifest
<1>2. CASE Abort
  BY <1>1, <1>2, AbortStep
<1>3. CASE /\ table' = ModifyForCompat(r.t) /\ pc' = "flatten"
           /\ UNCHANGED <<prj, assets, resources, failed, todo, published, rfiles, built>>
  <2>1. TableOk(table) /\ ResOk(resources) /\ prj \in UNION ToSet(Plan)
    BY <1>1 DEF BuildInv, HasTable
  <2> DEFINE early == "early"
             late == "late"
             minSdk == m.minSdk
             opt == [table.opt EXCEPT !.minSdk = minSdk]
             doc == m.doc
  <2>2. DocOk(doc)
    <3> DEFINE events == prj.manifest.events
               parsed == ParseXml(events)
    <3>1. EventsOk(events)
      BY <2>1, PlannedIsOk DEF ProjectOk
    <3> HIDE DEF events
    <3>2. DocOk(parsed)
      BY <3>1, ParseXmlOk
    <3> HIDE DEF parsed
    <3>3. DocOk(MassageManifest(parsed).doc)
      BY <3>2, MassageManifestOk
    <3> QED BY <3>3 DEF parsed, events
  <2>3. Tab(early, table.opt, table)
    BY <2>1, TableIsTab
  <2> HIDE DEF minSdk, doc, m
  <2>4. asked = [table EXCEPT !.opt.minSdk = minSdk]
    BY DEF minSdk
  <2> DEFINE old == table.opt
  <2>5. Tab(early, opt, asked)
    <3>1. Tab("early", [old EXCEPT !.minSdk = minSdk], [table EXCEPT !.opt.minSdk = minSdk])
      <4> HIDE DEF old
      <4>1. Tab("early", old, table)
        BY <2>3 DEF old
      <4> QED BY <4>1, MinSdkTab
    <3> QED BY <2>4, <3>1
  <2> HIDE DEF opt, asked, old
  <2>6. MayBePutOff(NoFile)
    BY DEF MayBePutOff, NoFile
  <2>7. Tab(early, opt, r.t)
    <3> HIDE DEF early
    <3>1. Tab(early, opt, CompileNodes(asked, NoFile, doc).t)
      BY <2>2, <2>5, <2>6, CompileNodesTab
    <3> QED BY <3>1 DEF doc
  <2> DEFINE made == r.t
  <2> HIDE DEF r, made
  <2>8. Tab("late", opt, ModifyForCompat(made))
    BY <2>7, ModifyForCompatTab DEF made
  <2>9. TableOk(table') /\ Clean(table')
    BY <1>3, <2>8, TabIsTable DEF made
  <2>10. ResOk(resources')
    BY <1>3, <2>1
  <2>11. PublishedOk' /\ prj' \in UNION ToSet(Plan)
    BY <1>1, <1>3, SameFiles
  <2> QED BY <1>3, <2>9, <2>10, <2>11 DEF BuildInv
<1> QED BY <1>1, <1>2, <1>3

LEMMA ApksCleanOf ==
  ASSUME NEW opt, Tab("late", opt, table), NEW apks
  PROVE  ApksClean(apks) <=> ApksOk(opt, apks)
BY DEF ApksClean, ApksOk, LateOrAbove, IsMinSdkVersionLOrAbove, Tab

\* The tables have a place in what is made.
OutHasApks == "apks" \in DOMAIN out
LEMMA OutHasApksInit == Init => OutHasApks
BY DEF Init, Blank, OutHasApks

LEMMA OutHasApksStep == OutHasApks /\ [Next]_vars => OutHasApks'
<1> SUFFICES ASSUME OutHasApks, [Next]_vars PROVE DOMAIN out' = DOMAIN out \/ out' = Blank
  BY DEF OutHasApks, Blank
<1>1. CASE UNCHANGED vars
  BY <1>1 DEF vars
<1>2. ASSUME NEW p \in UNION ToSet(Plan), Start(p) PROVE out' = Blank
  BY <1>2 DEF Start
<1>3. CASE Slurp
  BY <1>3 DEF Slurp, Abort
<1>4. CASE NewPackage
  BY <1>4 DEF NewPackage, Abort
<1>5. CASE MakeFiles
  BY <1>5 DEF MakeFiles, MakeFileResources
<1>6. CASE ToValues \/ ToLate
  BY <1>6 DEF ToValues, ToLate
<1>7. CASE CompileValues
  BY <1>7 DEF CompileValues
<1>8. CASE AssignIds
  BY <1>8 DEF AssignIds, Abort
<1>9. CASE CompileXml
  BY <1>9 DEF CompileXml
<1>10. CASE WorkItem
  BY <1>10 DEF WorkItem
<1>11. CASE Manifest
  BY <1>11 DEF Manifest, Abort
<1>12. CASE FlattenTables
  BY <1>12 DEF FlattenTables, Abort
<1>13. CASE ValidateManifest
  BY <1>13 DEF ValidateManifest, Abort
<1>14. CASE WriteSymbols
  BY <1>14 DEF WriteSymbols, Abort
<1>15. CASE WriteApks \/ WriteApksFails
  BY <1>15 DEF WriteApks, WriteApksFails, Abort
<1> QED BY <1>1, <1>2, <1>3, <1>4, <1>5, <1>6, <1>7, <1>8, <1>9, <1>10, <1>11, <1>12, <1>13, <1>14, <1>15 DEF Next

LEMMA FlattenTablesStep == ASSUME BuildInv, OutHasApks, FlattenTables PROVE BuildInv'
<1> DEFINE r == FlattenAll
           opt == table.opt
           late == "late"
<1>1. /\ pc = "flatten"
      /\ \/ Abort
         \/ /\ table' = r.t /\ out'.apks = r.apks /\ pc' = "validate"
            /\ UNCHANGED <<prj, assets, resources, failed, todo, published, rfiles, built>>
  <2> HIDE DEF r
  <2>1. pc = "flatten"
    BY DEF FlattenTables
  <2>2. \/ Abort
        \/ /\ table' = r.t /\ pc' = "validate"
           /\ \E x, y : out' = [out EXCEPT !.apks = r.apks, !.named = x, !.public = y]
           /\ UNCHANGED <<prj, assets, resources, failed, todo, published, rfiles, built>>
    BY DEF FlattenTables, r
  <2> QED BY <2>1, <2>2 DEF OutHasApks
<1>2. CASE Abort
  BY <1>1, <1>2, AbortStep
<1>3. CASE /\ table' = r.t /\ out'.apks = r.apks /\ pc' = "validate"
           /\ UNCHANGED <<prj, assets, resources, failed, todo, published, rfiles, built>>
  <2>1. TableOk(table) /\ Clean(table) /\ ResOk(resources) /\ prj \in UNION ToSet(Plan)
    BY <1>1 DEF BuildInv, HasTable
  <2>2. Tab("late", opt, table)
    BY <2>1, TableIsTab
  <2>3. IsList(prj.splits)
    BY <2>1, PlannedIsOk DEF ProjectOk
  <2> HIDE DEF opt
  <2>4. AccOk(opt, r)
    BY <2>2, <2>3, FlattenAllOk
  <2> HIDE DEF r
  <2>5. TableOk(table') /\ Clean(table') /\ table'.opt = opt /\ ApksOk(opt, r.apks)
    BY <1>3, <2>4 DEF AccOk, Tab
  <2>6. ApksClean(out.apks)'
    BY <1>3, <2>5 DEF ApksClean, ApksOk, LateOrAbove, IsMinSdkVersionLOrAbove
  <2>7. ResOk(resources')
    BY <1>3, <2>1
  <2>8. PublishedOk' /\ prj' \in UNION ToSet(Plan)
    BY <1>1, <1>3, SameFiles
  <2> QED BY <1>3, <2>5, <2>6, <2>7, <2>8 DEF BuildInv
<1> QED BY <1>1, <1>2, <1>3

LEMMA ValidateManifestStep == ASSUME BuildInv, OutHasApks, ValidateManifest PROVE BuildInv'
<1> DEFINE doc == ParseXml(prj.manifest.events)
           r == CompileNodes(table, NoFile, doc)
           opt == table.opt
           late == "late"
<1>1. /\ pc = "validate"
      /\ \/ Abort
         \/ /\ table' = r.t /\ out'.apks = out.apks /\ pc' = "symbols"
            /\ UNCHANGED <<prj, assets, resources, failed, todo, published, rfiles, built>>
  <2> HIDE DEF r, doc
  <2>1. pc = "validate"
    BY DEF ValidateManifest
  <2>2. \/ Abort
        \/ /\ table' = r.t /\ pc' = "symbols"
           /\ \E x : out' = [out EXCEPT !.permissions = x]
           /\ UNCHANGED <<prj, assets, resources, failed, todo, published, rfiles, built>>
    BY DEF ValidateManifest, r, doc
  <2> QED BY <2>1, <2>2 DEF OutHasApks
<1>2. CASE Abort
  BY <1>1, <1>2, AbortStep
<1>3. CASE /\ table' = r.t /\ out'.apks = out.apks /\ pc' = "symbols"
           /\ UNCHANGED <<prj, assets, resources, failed, todo, published, rfiles, built>>
  <2>1. /\ TableOk(table) /\ Clean(table) /\ ResOk(resources) /\ prj \in UNION ToSet(Plan)
        /\ ApksClean(out.apks)
    BY <1>1 DEF BuildInv, HasTable
  <2>2. Tab(late, opt, table)
    BY <2>1, TableIsTab
  <2>3. DocOk(doc)
    <3> DEFINE events == prj.manifest.events
    <3>1. EventsOk(events)
      BY <2>1, PlannedIsOk DEF ProjectOk
    <3> HIDE DEF events
    <3>2. DocOk(ParseXml(events))
      BY <3>1, ParseXmlOk
    <3> QED BY <3>2 DEF events
  <2>4. MayBePutOff(NoFile)
    BY DEF MayBePutOff, NoFile
  <2> HIDE DEF opt, doc
  <2>5. Tab(late, opt, r.t)
    <3> HIDE DEF late
    <3> QED BY <2>2, <2>3, <2>4, CompileNodesTab
  <2> HIDE DEF r
  <2>6. TableOk(table') /\ Clean(table') /\ table'.opt = opt
    BY <1>3, <2>5, TabIsTable
  <2>7. ApksClean(out.apks)'
    BY <1>3, <2>1, <2>6 DEF ApksClean, IsMinSdkVersionLOrAbove, opt
  <2>8. ResOk(resources')
    BY <1>3, <2>1
  <2>9. PublishedOk' /\ prj' \in UNION ToSet(Plan)
    BY <1>1, <1>3, SameFiles
  <2> QED BY <1>3, <2>6, <2>7, <2>8, <2>9 DEF BuildInv
<1> QED BY <1>1, <1>2, <1>3

LEMMA WriteSymbolsStep == ASSUME BuildInv, OutHasApks, WriteSymbols PROVE BuildInv'
<1>1. /\ pc = "symbols"
      /\ \/ Abort
         \/ /\ out'.apks = out.apks /\ pc' = IF prj.opt.output THEN "apk" ELSE "done"
            /\ UNCHANGED <<prj, assets, resources, table, failed, todo, published, built>>
  <2>1. pc = "symbols"
    BY DEF WriteSymbols
  <2>2. \/ Abort
        \/ /\ pc' = IF prj.opt.output THEN "apk" ELSE "done"
           /\ \E x, y : out' = [out EXCEPT !.keep = x, !.texts = y]
           /\ UNCHANGED <<prj, assets, resources, table, failed, todo, published, built>>
    BY DEF WriteSymbols
  <2> QED BY <2>1, <2>2 DEF OutHasApks
<1>2. CASE Abort
  BY <1>1, <1>2, AbortStep
<1>3. CASE /\ out'.apks = out.apks /\ pc' = IF prj.opt.output THEN "apk" ELSE "done"
           /\ UNCHANGED <<prj, assets, resources, table, failed, todo, published, built>>
  <2>1. TableOk(table) /\ Clean(table) /\ ResOk(resources) /\ ApksClean(out.apks)
    BY <1>1 DEF BuildInv, HasTable
  <2>2. TableOk(table') /\ Clean(table') /\ ResOk(resources') /\ ApksClean(out.apks)'
    BY <1>3, <2>1 DEF ApksClean
  <2>3. PublishedOk' /\ prj' \in UNION ToSet(Plan)
    BY <1>1, <1>3, SameFiles
  <2>4. pc' \in {"apk", "done"} /\ (pc' = "done" => ~prj'.opt.output)
    BY <1>3
  <2> QED BY <2>2, <2>3, <2>4 DEF BuildInv
<1> QED BY <1>1, <1>2, <1>3

LEMMA WriteApksStep == ASSUME BuildInv, WriteApks PROVE BuildInv'
<1> DEFINE apks == [i \in DOMAIN out.apks |->
                       [out.apks[i] EXCEPT !.files = {f.path : f \in {g \in out.files : SplitOf(g) = i}}]]
           exported == Exported(table)
           new == [apks |-> apks, exported |-> exported, assets |-> assets, xml |-> out.xml]
<1>1. /\ pc = "apk" /\ pc' = "done"
      /\ published' = Set(published, prj.package, new)
      /\ UNCHANGED <<prj, assets, resources, table, out, failed, todo, rfiles, built>>
  BY DEF WriteApks
<1>2. /\ TableOk(table) /\ Clean(table) /\ ResOk(resources) /\ ApksClean(out.apks)
      /\ PublishedOk /\ prj \in UNION ToSet(Plan)
  BY <1>1 DEF BuildInv, HasTable
<1>3. \A x \in DOMAIN exported : ~exported[x].fromL /\ exported[x].id[1] \in PackageIds
  BY <1>2, ExportedOk
<1>4. ApksClean(apks)
  <2> SUFFICES ASSUME ~IsMinSdkVersionLOrAbove(table), NEW i \in DOMAIN apks PROVE ApkClean(table.opt.included, apks[i])
    BY DEF ApksClean
  <2>1. i \in DOMAIN out.apks /\ ApkClean(table.opt.included, out.apks[i])
    BY <1>2 DEF ApksClean
  <2> DEFINE a == apks[i]
             files == {f.path : f \in {g \in out.files : SplitOf(g) = i}}
  <2>2. a = [out.apks[i] EXCEPT !.files = files]
    BY <2>1
  <2> HIDE DEF a, files
  <2>3. "table" \in DOMAIN a /\ a.table = out.apks[i].table
    BY <2>1, <2>2 DEF ApkClean
  <2>4. ApkClean(table.opt.included, a)
    BY <2>1, <2>3 DEF ApkClean
  <2> QED BY <2>4 DEF a
<1>5. new.apks = apks /\ new.exported = exported
  OBVIOUS
<1> HIDE DEF apks, exported, new
<1>6. /\ DOMAIN published' = {prj.package} \cup DOMAIN published
      /\ \A p \in DOMAIN published' : published'[p] = IF p = prj.package THEN new ELSE published[p]
  BY <1>1 DEF Set
<1>7. PublishedOk'
  BY <1>2, <1>3, <1>5, <1>6 DEF PublishedOk
<1>8. published'[prj'.package].apks = apks
  BY <1>1, <1>5, <1>6
<1>9. ApksClean(published[prj.package].apks)'
  BY <1>1, <1>4, <1>8 DEF ApksClean
<1>10. TableOk(table') /\ Clean(table') /\ ResOk(resources') /\ prj' \in UNION ToSet(Plan)
  BY <1>1, <1>2
<1> QED BY <1>1, <1>7, <1>9, <1>10 DEF BuildInv

LEMMA BuildInvSame == ASSUME BuildInv, UNCHANGED vars PROVE BuildInv'
BY DEF BuildInv, vars, PublishedOk, AssetsOk, ApksClean

LEMMA BuildInvStep == BuildInv /\ OutHasApks /\ [Next]_vars => BuildInv'
<1> SUFFICES ASSUME BuildInv, OutHasApks, [Next]_vars PROVE BuildInv'
  OBVIOUS
<1>1. CASE UNCHANGED vars
  BY <1>1, BuildInvSame
<1>2. ASSUME NEW p \in UNION ToSet(Plan), Start(p) PROVE BuildInv'
  BY <1>2, StartStep
<1>3. CASE Slurp
  BY <1>3, SlurpStep
<1>4. CASE NewPackage
  BY <1>4, NewPackageStep
<1>5. CASE MakeFiles
  BY <1>5, MakeFilesStep
<1>6. CASE ToValues
  BY <1>6, ToValuesStep
<1>7. CASE CompileValues
  BY <1>7, CompileValuesStep
<1>8. CASE ToLate
  BY <1>8, ToLateStep
<1>9. CASE AssignIds
  BY <1>9, AssignIdsStep
<1>10. CASE CompileXml
  BY <1>10, CompileXmlStep
<1>11. CASE WorkItem
  BY <1>11, WorkItemStep
<1>12. CASE Manifest
  BY <1>12, ManifestStep
<1>13. CASE FlattenTables
  BY <1>13, FlattenTablesStep
<1>14. CASE ValidateManifest
  BY <1>14, ValidateManifestStep
<1>15. CASE WriteSymbols
  BY <1>15, WriteSymbolsStep
<1>16. CASE WriteApks
  BY <1>16, WriteApksStep
<1>17. CASE WriteApksFails
  <2>1. pc = "apk" /\ Abort
    BY <1>17 DEF WriteApksFails
  <2> QED BY <2>1, AbortStep
<1> QED BY <1>1, <1>2, <1>3, <1>4, <1>5, <1>6, <1>7, <1>8, <1>9, <1>10, <1>11, <1>12, <1>13, <1>14, <1>15,
           <1>16, <1>17 DEF Next

\* BuildInv holds of every build: what each step of doPackage and buildResources makes of the table,
\* the sources and the APKs is fit for the next.
THEOREM TablesSound == Spec => []BuildInv
<1>1. Init => BuildInv /\ OutHasApks
  BY BuildInvInit, OutHasApksInit
<1>2. BuildInv /\ OutHasApks /\ [Next]_vars => (BuildInv /\ OutHasApks)'
  BY BuildInvStep, OutHasApksStep
<1> QED BY <1>1, <1>2, PTL DEF Spec

\* An app for platforms before L has no attribute of L in a style of theirs, whatever the projects,
\* what they include, the order of their tags and their splits: such an attribute is found under its
\* name when modifyForCompat takes it out, and what the loops before and after it add, the manifest
\* and the XML that is put off among them, brings none back.
THEOREM OldStyles == Spec => []OldStylesClean
<1>1. ASSUME BuildInv PROVE OldStylesClean
  <2> DEFINE inc == table.opt.included
             apks == published[prj.package].apks
  <2> SUFFICES ASSUME Done, ~IsMinSdkVersionLOrAbove(table),
                      NEW apk \in ToSet(apks), NEW c \in apk.table.chunks, c.config.sdk < SDK_L,
                      NEW n \in DOMAIN c.entries, "map" \in DOMAIN c.entries[n],
                      NEW id \in DOMAIN c.entries[n].map
               PROVE  Internal(id) \/ ~IsAttributeFromL(table, id)
    BY DEF OldStylesClean
  <2>1. ApksClean(apks)
    BY <1>1 DEF BuildInv, Done
  <2>2. PICK i \in DOMAIN apks : apk = apks[i]
    BY DEF ToSet
  <2>3. ApkClean(inc, apk)
    BY <2>1, <2>2 DEF ApksClean
  <2>4. Internal(id) \/ id \notin LIds(inc)
    BY <2>3 DEF ApkClean
  <2> QED BY <2>4, LAttributeIds
<1> QED BY <1>1, TablesSound, PTL
=============================================================================
