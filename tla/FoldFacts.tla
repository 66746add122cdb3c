----------------------------- MODULE FoldFacts -----------------------------
(***************************************************************************)
(* Induction over a fold.  The operator that is folded, and what it keeps, *)
(* are parameters of the module: a proof about a fold takes an instance of *)
(* it.  p, q and r are what the operator depends on besides the            *)
(* accumulator and the element.  The module needs no other than Naturals,  *)
(* so that an instance is small.                                           *)
(***************************************************************************)
EXTENDS Naturals

CONSTANTS Op(_,_,_,_,_), Good(_,_,_,_)

\* A set is finite if among any of its subsets there is one that contains no other of them.
Tame(S) == \A B \in SUBSET SUBSET S : B # {} => \E s \in B : \A u \in B : u \subseteq s => u = s

\* iter is a fold over the subsets of S that picks one element of each: what is left comes first.
IsFold(iter, p, q, r, base, val, S, pick) ==
  /\ iter = [s \in SUBSET S |-> iter[s]]
  /\ \A s \in SUBSET S :
        iter[s] = IF s = {} THEN base ELSE Op(p, q, r, iter[s \ {pick[s]}], val[pick[s]])

\* A fold over a finite set that picks one element after the other exists: what has a fold over
\* its parts has one, and two folds over a part do not differ.
LEMMA FoldExists ==
  ASSUME NEW p, NEW q, NEW r, NEW base, NEW val, NEW S, Tame(S), NEW pick,
         \A s \in SUBSET S : s # {} => pick[s] \in s
  PROVE  \E iter : IsFold(iter, p, q, r, base, val, S, pick)
<1> DEFINE Rest(s) == s \ {pick[s]}
           Next(g, s) == IF s = {} THEN base ELSE Op(p, q, r, g[Rest(s)], val[pick[s]])
           Closed(g, s) == \A u \in SUBSET s : g[u] = Next(g, u)
           Sol(s) == CHOOSE g : Closed(g, s)
           it == [s \in SUBSET S |-> Next(Sol(Rest(s)), s)]
           Bad == {s \in SUBSET S : ~\E g : Closed(g, s)}
<1>1. \A s \in SUBSET S : s # {} => Rest(s) \in SUBSET S /\ Rest(s) \subseteq s /\ Rest(s) # s
  OBVIOUS
<1>2. \A g, h, s : \A u \in SUBSET s : Closed(g, s) => Closed(g, u)
  OBVIOUS
<1>3. ASSUME NEW g, NEW h, NEW s \in SUBSET S, Closed(g, s), Closed(h, s) PROVE g[s] = h[s]
  <2> DEFINE B == {u \in SUBSET s : g[u] # h[u]}
  <2>1. SUFFICES ASSUME B # {} PROVE FALSE
    OBVIOUS
  <2>2. B \in SUBSET SUBSET S
    OBVIOUS
  <2>3. PICK u \in B : \A w \in B : w \subseteq u => w = u
    <3> HIDE DEF B
    <3> QED BY <2>1, <2>2 DEF Tame
  <2>4. u \in SUBSET s /\ u \in SUBSET S /\ g[u] # h[u]
    OBVIOUS
  <2>5. g[u] = Next(g, u) /\ h[u] = Next(h, u)
    BY <1>3, <2>4
  <2>6. u # {} /\ g[Rest(u)] # h[Rest(u)]
    BY <2>4, <2>5
  <2>7. Rest(u) \in B
    BY <1>1, <2>4, <2>6
  <2> QED BY <1>1, <2>3, <2>4, <2>6, <2>7
<1> HIDE DEF Closed
<1>4. \A s \in SUBSET S : s \notin Bad => Closed(Sol(s), s)
  OBVIOUS
<1>5. ASSUME NEW s \in SUBSET S, \A u \in SUBSET s : u # s => u \notin Bad
      PROVE  Closed(it, s)
  <2>1. SUFFICES ASSUME NEW u \in SUBSET s PROVE it[u] = Next(it, u)
    BY DEF Closed
  <2>2. u \in SUBSET S /\ it[u] = Next(Sol(Rest(u)), u)
    OBVIOUS
  <2> DEFINE w == Rest(u)
  <2>3. CASE u = {}
    BY <2>2, <2>3
  <2>4. CASE u # {}
    <3>1. w \in SUBSET S /\ w \in SUBSET s /\ w # s
      BY <1>1, <2>2, <2>4
    <3>2. w \notin Bad /\ Closed(Sol(w), w)
      BY <1>4, <1>5, <3>1
    <3>3. Sol(w)[w] = Next(Sol(w), w)
      BY <3>2 DEF Closed
    <3>4. it[w] = Next(Sol(Rest(w)), w)
      BY <3>1
    <3>5. CASE w = {}
      BY <2>2, <2>4, <3>3, <3>4, <3>5
    <3>6. CASE w # {}
      <4>1. Rest(w) \in SUBSET S /\ Rest(w) \in SUBSET s /\ Rest(w) # s /\ Rest(w) \in SUBSET w
        BY <1>1, <3>1, <3>6
      <4>2. Closed(Sol(Rest(w)), Rest(w))
        BY <1>4, <1>5, <4>1
      <4>3. Closed(Sol(w), Rest(w))
        BY <1>2, <3>2, <4>1
      <4>4. Sol(Rest(w))[Rest(w)] = Sol(w)[Rest(w)]
        <5> HIDE DEF Rest, Sol
        <5> QED BY <1>3, <4>1, <4>2, <4>3
      <4>5. it[w] = Sol(w)[w]
        <5> HIDE DEF Sol, it, w, Rest
        <5> QED BY <3>3, <3>4, <3>6, <4>4
      <4> HIDE DEF it, Sol, w
      <4> QED BY <2>2, <2>4, <4>5 DEF w
    <3> QED BY <3>5, <3>6
  <2> QED BY <2>3, <2>4
<1>6. Bad = {}
  <2> SUFFICES ASSUME Bad # {} PROVE FALSE
    OBVIOUS
  <2>1. Bad \in SUBSET SUBSET S
    OBVIOUS
  <2>2. PICK s \in Bad : \A u \in Bad : u \subseteq s => u = s
    <3> HIDE DEF Bad
    <3> QED BY <2>1 DEF Tame
  <2>3. s \in SUBSET S /\ \A u \in SUBSET s : u # s => u \notin Bad
    BY <2>1, <2>2
  <2>4. Closed(it, s)
    <3> HIDE DEF it, Bad
    <3> QED BY <1>5, <2>3
  <2> QED BY <2>2, <2>4
<1>7. Closed(it, S)
  <2> HIDE DEF it, Bad
  <2> QED BY <1>5, <1>6
<1>8. it = [s \in SUBSET S |-> it[s]]
  OBVIOUS
<1> HIDE DEF it
<1> QED BY <1>7, <1>8 DEF IsFold, Closed

\* What holds of the base and is kept for each element holds of the fold.
LEMMA FoldInduction ==
  ASSUME NEW p, NEW q, NEW r, NEW base, NEW val, NEW S, Tame(S), NEW pick,
         \A s \in SUBSET S : s # {} => pick[s] \in s,
         NEW iter, IsFold(iter, p, q, r, base, val, S, pick),
         Good(p, q, r, base),
         \A acc : \A x \in S : Good(p, q, r, acc) => Good(p, q, r, Op(p, q, r, acc, val[x]))
  PROVE  Good(p, q, r, iter[S])
<1> DEFINE Bad == {s \in SUBSET S : ~Good(p, q, r, iter[s])}
<1>1. SUFFICES ASSUME Bad # {} PROVE FALSE
  OBVIOUS
<1>2. Bad \in SUBSET SUBSET S
  OBVIOUS
<1>3. PICK s \in Bad : \A u \in Bad : u \subseteq s => u = s
  <2> HIDE DEF Bad
  <2> QED BY <1>1, <1>2 DEF Tame
<1>4. s \in SUBSET S /\ ~Good(p, q, r, iter[s])
  OBVIOUS
<1>5. CASE s = {}
  BY <1>4, <1>5 DEF IsFold
<1>6. CASE s # {}
  <2> DEFINE w == s \ {pick[s]}
  <2>1. pick[s] \in s /\ pick[s] \in S /\ w \in SUBSET S /\ w \subseteq s /\ w # s
    BY <1>4, <1>6
  <2>2. iter[s] = Op(p, q, r, iter[w], val[pick[s]])
    BY <1>4, <1>6 DEF IsFold
  <2> HIDE DEF w
  <2>3. Good(p, q, r, iter[w])
    BY <1>3, <2>1
  <2> QED BY <1>4, <2>1, <2>2, <2>3
<1> QED BY <1>5, <1>6

\* The numbers up to any are a finite set, as every set of numbers has a smallest one.
LEMMA RangeIsTame ==
  ASSUME \A B \in SUBSET Nat : B # {} => \E n \in B : \A m \in B : n <= m,
         NEW n \in Nat
  PROVE  Tame(1..n)
<1> DEFINE Wrong == {m \in Nat : ~Tame(1..m)}
<1>1. SUFFICES ASSUME Wrong # {} PROVE FALSE
  OBVIOUS
<1>2. PICK m \in Wrong : \A k \in Wrong : m <= k
  <2>1. Wrong \in SUBSET Nat
    OBVIOUS
  <2> HIDE DEF Wrong
  <2> QED BY <1>1, <2>1
<1>3. m \in Nat /\ ~Tame(1..m)
  OBVIOUS
<1>4. PICK B \in SUBSET SUBSET (1..m) : B # {} /\ \A s \in B : \E u \in B : u \subseteq s /\ u # s
  BY <1>3 DEF Tame
<1>5. m # 0
  <2> SUFFICES ASSUME m = 0 PROVE FALSE
    OBVIOUS
  <2>1. 1..m = {}
    OBVIOUS
  <2>2. \A s \in B : s = {}
    BY <1>4, <2>1
  <2> QED BY <1>4, <2>2
<1>6. m - 1 \in Nat /\ Tame(1..(m - 1))
  <2>1. m - 1 \in Nat /\ m - 1 < m
    BY <1>3, <1>5
  <2>2. m - 1 \notin Wrong
    <3> HIDE DEF Wrong
    <3> QED BY <1>2, <1>3, <2>1
  <2> QED BY <2>1, <2>2
<1> DEFINE S == 1..(m - 1)
<1>7. \A s \in B : s \ {m} \in SUBSET S
  <2> SUFFICES ASSUME NEW s \in B, NEW x \in s, x # m PROVE x \in S
    OBVIOUS
  <2>1. x \in 1..m
    BY <1>4
  <2> QED BY <1>3, <2>1
<1> HIDE DEF S
<1>8. CASE \E s \in B : m \notin s
  <2> DEFINE B0 == {s \in B : m \notin s}
  <2>1. B0 \in SUBSET SUBSET S /\ B0 # {}
    <3>1. \A s \in B0 : s = s \ {m} /\ s \in B
      OBVIOUS
    <3> QED BY <1>7, <1>8, <3>1
  <2>2. PICK s \in B0 : \A u \in B0 : u \subseteq s => u = s
    <3> HIDE DEF B0
    <3> QED BY <1>6, <2>1 DEF Tame, S
  <2>3. PICK u \in B : u \subseteq s /\ u # s
    BY <1>4
  <2> QED BY <2>2, <2>3
<1>9. CASE \A s \in B : m \in s
  <2> DEFINE B1 == {s \ {m} : s \in B}
  <2>1. B1 \in SUBSET SUBSET S /\ B1 # {}
    <3>1. \A w \in B1 : w \in SUBSET S
      BY <1>7
    <3>2. B1 # {}
      <4>1. PICK s \in B : TRUE
        BY <1>4
      <4>2. s \ {m} \in B1
        BY <4>1
      <4> QED BY <4>2
    <3> HIDE DEF B1
    <3> QED BY <3>1, <3>2
  <2>2. PICK w \in B1 : \A u \in B1 : u \subseteq w => u = w
    <3> HIDE DEF B1
    <3> QED BY <1>6, <2>1 DEF Tame, S
  <2>3. PICK s \in B : w = s \ {m}
    OBVIOUS
  <2>4. PICK u \in B : u \subseteq s /\ u # s
    BY <1>4
  <2>5. u \ {m} \in B1 /\ u \ {m} \subseteq w
    BY <2>3, <2>4
  <2>6. u \ {m} = s \ {m}
    <3> HIDE DEF B1
    <3> QED BY <2>2, <2>3, <2>5
  <2>7. u = s
    <3>1. m \in u /\ m \in s
      BY <1>9
    <3>2. \A z : z \in u \ {m} <=> z \in s \ {m}
      BY <2>6
    <3>3. \A z : z \in u <=> z \in s
      BY <3>1, <3>2
    <3> QED BY <3>3
  <2> QED BY <2>4, <2>7
<1> QED BY <1>8, <1>9

\* FoldLeft of a sequence, as SequencesExt and Folds define it.
Left(p, q, r, base, seq) ==
  LET iter[s \in SUBSET DOMAIN seq] ==
        IF s = {} THEN base
        ELSE LET i == CHOOSE x \in s : \A y \in s : x >= y
             IN  Op(p, q, r, iter[s \ {i}], seq[i])
  IN  iter[DOMAIN seq]

\* A fold over a sequence keeps what its operator keeps for each element.
THEOREM LeftKeeps ==
  ASSUME NEW p, NEW q, NEW r, NEW base, NEW seq, NEW n \in Nat, DOMAIN seq = 1..n,
         \A B \in SUBSET Nat : B # {} => \E m \in B : \A k \in B : m <= k,
         Good(p, q, r, base),
         \A acc : \A i \in 1..n : Good(p, q, r, acc) => Good(p, q, r, Op(p, q, r, acc, seq[i]))
  PROVE  Good(p, q, r, Left(p, q, r, base, seq))
<1> DEFINE S == 1..n
           Largest(s) == CHOOSE x \in s : \A y \in s : x >= y
           pick == [s \in SUBSET S |-> Largest(s)]
           Body(iter, s) == IF s = {} THEN base ELSE Op(p, q, r, iter[s \ {Largest(s)}], seq[Largest(s)])
           it == CHOOSE iter : iter = [s \in SUBSET S |-> Body(iter, s)]
<1>1. Tame(S)
  BY RangeIsTame
<1>2. ASSUME NEW s \in SUBSET S, s # {} PROVE Largest(s) \in s
  <2> DEFINE Above(x) == {y \in s : y > x}
             B == {Above(x) : x \in s}
  <2>0. \A x \in s : x \in Nat
    OBVIOUS
  <2>1. B \in SUBSET SUBSET S /\ B # {}
    <3>1. \A w \in B : w \in SUBSET S
      OBVIOUS
    <3>2. B # {}
      <4>1. PICK x \in s : TRUE
        BY <1>2
      <4>2. Above(x) \in B
        BY <4>1
      <4> QED BY <4>2
    <3> HIDE DEF B
    <3> QED BY <3>1, <3>2
  <2>2. PICK u \in B : \A w \in B : w \subseteq u => w = u
    <3> HIDE DEF B, S
    <3> QED BY <1>1, <2>1 DEF Tame
  <2>3. PICK x \in s : u = Above(x)
    OBVIOUS
  <2>4. ASSUME NEW y \in s, y > x PROVE FALSE
    <3>0. x \in Nat /\ y \in Nat
      BY <2>0, <2>3, <2>4
    <3>a. y \in Above(x) /\ y \notin Above(y)
      BY <3>0, <2>4
    <3>b. Above(y) \subseteq Above(x)
      <4> SUFFICES ASSUME NEW z \in s, z > y PROVE z > x
        OBVIOUS
      <4>1. z \in Nat
        BY <2>0
      <4> HIDE DEF B, S
      <4> QED BY <2>4, <3>0, <4>1
    <3>1. Above(y) \in B /\ y \in Above(x) /\ y \notin Above(y) /\ Above(y) \subseteq Above(x)
      BY <2>4, <3>a, <3>b
    <3> HIDE DEF B
    <3> QED BY <2>2, <2>3, <3>1
  <2>5. \A y \in s : x >= y
    BY <2>0, <2>4
  <2> QED BY <2>5
<1>3. \A s \in SUBSET S : pick[s] = Largest(s)
  OBVIOUS
<1> HIDE DEF pick, S, Largest
<1>4. PICK g : IsFold(g, p, q, r, base, seq, S, pick)
  BY <1>1, <1>2, <1>3, FoldExists
<1>5. g = [s \in SUBSET S |-> Body(g, s)]
  <2>1. \A s \in SUBSET S : g[s] = Body(g, s)
    BY <1>3, <1>4 DEF IsFold
  <2>2. g = [s \in SUBSET S |-> g[s]]
    BY <1>4 DEF IsFold
  <2> HIDE DEF Body
  <2> QED BY <2>1, <2>2
<1>6. it = [s \in SUBSET S |-> Body(it, s)]
  <2> HIDE DEF Body
  <2> QED BY <1>5
<1> HIDE DEF it
<1>7. IsFold(it, p, q, r, base, seq, S, pick)
  BY <1>3, <1>6 DEF IsFold
<1>8. Good(p, q, r, it[S])
  <2>1. \A acc : \A x \in S : Good(p, q, r, acc) => Good(p, q, r, Op(p, q, r, acc, seq[x]))
    BY DEF S
  <2>2. \A s \in SUBSET S : s # {} => pick[s] \in s
    BY <1>2, <1>3
  <2> QED BY <1>1, <1>7, <2>1, <2>2, FoldInduction
<1> QED BY <1>8 DEF Left, it, S, Largest

\* FoldSet of a set, as FiniteSetsExt and Folds define it.
OfSet(p, q, r, base, S) ==
  LET iter[s \in SUBSET S] ==
        IF s = {} THEN base
        ELSE LET x == CHOOSE y \in s : TRUE
             IN  Op(p, q, r, iter[s \ {x}], x)
  IN  iter[S]

\* A fold over a finite set keeps what its operator keeps for each element.
THEOREM SetKeeps ==
  ASSUME NEW p, NEW q, NEW r, NEW base, NEW S, Tame(S),
         Good(p, q, r, base),
         \A acc : \A x \in S : Good(p, q, r, acc) => Good(p, q, r, Op(p, q, r, acc, x))
  PROVE  Good(p, q, r, OfSet(p, q, r, base, S))
<1> DEFINE Any(s) == CHOOSE y \in s : TRUE
           pick == [s \in SUBSET S |-> Any(s)]
           val == [x \in S |-> x]
           Body(iter, s) == IF s = {} THEN base ELSE Op(p, q, r, iter[s \ {Any(s)}], Any(s))
           it == CHOOSE iter : iter = [s \in SUBSET S |-> Body(iter, s)]
<1>1. \A s \in SUBSET S : s # {} => Any(s) \in s
  OBVIOUS
<1>2. \A s \in SUBSET S : pick[s] = Any(s)
  OBVIOUS
<1>3. \A s \in SUBSET S : s # {} => pick[s] \in s /\ val[pick[s]] = Any(s)
  BY <1>1, <1>2
<1>a. \A x \in S : val[x] = x
  OBVIOUS
<1> HIDE DEF pick, val, Any
<1>4. PICK g : IsFold(g, p, q, r, base, val, S, pick)
  BY <1>3, FoldExists
<1>5. g = [s \in SUBSET S |-> Body(g, s)]
  <2>1. \A s \in SUBSET S : g[s] = Body(g, s)
    BY <1>2, <1>3, <1>4 DEF IsFold
  <2>2. g = [s \in SUBSET S |-> g[s]]
    BY <1>4 DEF IsFold
  <2> HIDE DEF Body
  <2> QED BY <2>1, <2>2
<1>6. it = [s \in SUBSET S |-> Body(it, s)]
  <2> HIDE DEF Body
  <2> QED BY <1>5
<1> HIDE DEF it
<1>7. IsFold(it, p, q, r, base, val, S, pick)
  <2>1. \A s \in SUBSET S : it[s] = Body(it, s)
    <3> HIDE DEF Body
    <3> QED BY <1>6
  <2>2. it = [s \in SUBSET S |-> it[s]]
    <3> HIDE DEF Body
    <3> QED BY <1>6
  <2> QED BY <1>2, <1>3, <2>1, <2>2 DEF IsFold
<1>8. \A acc : \A x \in S : Good(p, q, r, acc) => Good(p, q, r, Op(p, q, r, acc, val[x]))
  BY <1>a
<1>9. Good(p, q, r, it[S])
  BY <1>3, <1>7, <1>8, FoldInduction
<1> QED BY <1>9 DEF OfSet, it, Any
=============================================================================
